----------------------------- MODULE GasOptions -----------------------------
(***************************************************************************)
(* The ISA and option state of the RISC-V assembler: the subset list with  *)
(* its order and its tail pointer (bfd/elfxx-riscv.c), the options that    *)
(* .option changes and their stack, .attribute arch, the ABI and the flags *)
(* of the ELF header (gas/config/tc-riscv.c).                              *)
(*                                                                         *)
(* An ISA string is a record of the width it begins with (0: it does not   *)
(* begin with rv32 or rv64) and its extensions in the order written.       *)
(* Versions are left out.                                                  *)
(***************************************************************************)
EXTENDS Integers, Sequences, FiniteSets, Functions, SequencesExt

CONSTANTS Jobs,     \* what may be assembled, see Job
          MaxDepth  \* bound on nested .option push

\* A job: march, the ISA strings given by -march or configure; mabi, values of -mabi
\* (NoAbi: not given); archs, ISA strings of .attribute arch and .option arch; edits,
\* the other arguments of .option arch; lines, the bound on the lines of the file.

(***************************************************************************)
(* Extensions: the prefix class (0: a single letter), riscv_ext_order of   *)
(* the letter or of the letter after the z, and the rest of the name in    *)
(* alphabetical order.                                                     *)
(***************************************************************************)
Exts == [e |-> <<0, 1, 0>>, i |-> <<0, 2, 0>>, f |-> <<0, 6, 0>>, d |-> <<0, 7, 0>>,
         c |-> <<0, 10, 0>>, zicsr |-> <<1, 2, 0>>, zfinx |-> <<1, 6, 0>>,
         zca |-> <<1, 10, 0>>, zcf |-> <<1, 10, 1>>, ztso |-> <<1, 14, 0>>]

Names == DOMAIN Exts

Implicit == << <<"e", "i">>, <<"zcf", "f">>, <<"d", "f">>, <<"f", "zicsr">>,
               <<"zfinx", "zicsr">>, <<"zcf", "zca">> >>

None == "none"
Wild == "wild"      \* a tail that was never assigned
Unknown == "?"      \* an extension gas does not know
NoAbi == [given |-> FALSE, xlen |-> 0, float |-> "default", rve |-> FALSE]

Widths == {32, 64}
FloatAbis == {"default", "soft", "single", "double"}
Abis == [given : BOOLEAN, xlen : Widths \cup {0}, float : FloatAbis, rve : BOOLEAN]

\* An ISA string that begins with a width goes on with a base, or is refused there.
IsaStrings ==
  {a \in [xlen : Widths \cup {0}, exts : Seq(Names \cup {Unknown})] :
     a.xlen # 0 => a.exts # <<>> /\ Head(a.exts) \in {"e", "i", Unknown}}

Edits(exts) == [op : {"+", "-"}, ext : exts]

ASSUME JobsAssumption ==
  /\ MaxDepth \in Nat
  /\ \A j \in Jobs : /\ j.march \subseteq IsaStrings
                     /\ j.mabi \subseteq Abis
                     /\ j.archs \subseteq IsaStrings
                     /\ j.edits \subseteq Seq(Edits(Names \cup {Unknown}))
                     /\ j.lines \in Nat

riscv_compare_subsets(a, b) ==
  LET Diff(k) == Exts[a][k] - Exts[b][k]
  IN CASE Diff(1) # 0 -> Diff(1)
       [] Diff(1) = 0 /\ Diff(2) # 0 -> Diff(2)
       [] OTHER -> Diff(3)

-----------------------------------------------------------------------------
(***************************************************************************)
(* The subset list: the names linked from head, the tail pointer, and the  *)
(* width printed in its arch_str.                                          *)
(***************************************************************************)
EmptyList == [names |-> <<>>, tail |-> None, str |-> 0]

riscv_lookup_subset(l, x) ==
  LET notBefore == {i \in DOMAIN l.names :
                      riscv_compare_subsets(l.names[i], x) >= 0}
      at == IF notBefore = {} THEN Len(l.names) ELSE Min(notBefore) - 1
  IN IF l.tail # None /\ riscv_compare_subsets(l.tail, x) < 0
     THEN [found |-> FALSE, at |-> Len(l.names)]
     ELSE [found |-> notBefore # {} /\ l.names[at + 1] = x, at |-> at]

riscv_subset_supports(l, x) == riscv_lookup_subset(l, x).found

riscv_add_subset(l, x) ==
  LET r == riscv_lookup_subset(l, x)
  IN IF r.found THEN l
     ELSE [l EXCEPT !.names = InsertAt(@, r.at + 1, x),
                    !.tail = IF r.at = Len(l.names) THEN x ELSE @]

\* Mutant: the tail is left alone.
riscv_remove_subset_tail(l, x) == [l EXCEPT !.names = SelectSeq(@, LAMBDA y: y # x)]

Place(l, x) == CHOOSE i \in DOMAIN l.names : l.names[i] = x

riscv_remove_subset(l, x) ==
  IF x \notin Range(l.names) THEN l
  ELSE [l EXCEPT !.names = RemoveAt(@, Place(l, x)),
                 !.tail = IF Last(l.names) # x THEN @
                          ELSE IF Len(l.names) = 1 THEN None
                          ELSE l.names[Len(l.names) - 1]]

\* The rules whose extension is in the list and whose implied one is not.
Missing(l) ==
  {r \in DOMAIN Implicit : /\ riscv_subset_supports(l, Implicit[r][1])
                           /\ ~riscv_subset_supports(l, Implicit[r][2])}

AddMissing(l) ==
  IF Missing(l) = {} THEN l ELSE riscv_add_subset(l, Implicit[Min(Missing(l))][2])

\* Rules are applied until none is missing.
riscv_parse_add_implicit_subsets(l) ==
  LET After[n \in 0..Cardinality(Names)] == IF n = 0 THEN l ELSE AddMissing(After[n - 1])
  IN After[Cardinality(Names)]

riscv_parse_check_conflicts(l, w) ==
  /\ ~(riscv_subset_supports(l, "zcf") /\ w > 32)
  /\ ~(riscv_subset_supports(l, "zfinx") /\ riscv_subset_supports(l, "f"))

\* Checked: the result of parsing, [ok, list, xlen], after the implicit subsets.
Checked(l, w) ==
  LET k == riscv_parse_add_implicit_subsets(l)
  IN [ok |-> riscv_parse_check_conflicts(k, w), list |-> k, xlen |-> w]

\* +ext and -ext, one after another; and the extensions of an ISA string.
Edit(l, ed) == IF ed.op = "-" THEN riscv_remove_subset(l, ed.ext) ELSE riscv_add_subset(l, ed.ext)

EditAll(l, edits) ==
  LET After[n \in 0..Len(edits)] == IF n = 0 THEN l ELSE Edit(After[n - 1], edits[n])
  IN After[Len(edits)]

AddAll(l, exts) == EditAll(l, [i \in 1..Len(exts) |-> [op |-> "+", ext |-> exts[i]]])

\* The extensions up to the first unknown one are in the list when parsing fails.
riscv_parse_subset(l, arch, w) ==
  LET bad == {i \in DOMAIN arch.exts : arch.exts[i] = Unknown}
      known == IF bad = {} THEN arch.exts
               ELSE SubSeq(arch.exts, 1, Min(bad) - 1)
      parsed == AddAll(l, known)
  IN CASE arch.xlen = 0 -> [ok |-> FALSE, list |-> l, xlen |-> w]
       [] arch.xlen # 0 /\ bad # {} ->
            [ok |-> FALSE, list |-> parsed, xlen |-> arch.xlen]
       [] OTHER -> Checked(parsed, arch.xlen)

riscv_release_subset_list(l) == EmptyList

\* Mutant: the implicit subsets are not added again.
riscv_update_subset_bare(l, edits, w) ==
  [ok |-> \A i \in DOMAIN edits : edits[i].ext \notin {Unknown, "i", "e"},
   list |-> EditAll(l, SelectSeq(edits, LAMBDA ed: ed.ext \in Names)), xlen |-> w]

\* One +ext or -ext after another; the first that is refused ends the update
\* before the implicit subsets are added.
riscv_update_subset(l, edits, w) ==
  LET refused == {i \in DOMAIN edits : edits[i].ext \in {Unknown, "i", "e"}}
      done == IF refused = {} THEN edits
              ELSE SubSeq(edits, 1, Min(refused) - 1)
  IN IF refused # {} THEN [ok |-> FALSE, list |-> EditAll(l, done), xlen |-> w]
     ELSE Checked(EditAll(l, done), w)

-----------------------------------------------------------------------------
VARIABLES job,
          lists,           \* the subset lists in memory
          subset_list,     \* riscv_rps_as.subset_list: which of them is in use
          riscv_opts,      \* rvc, and relax for the options that are plain flags
          riscv_opts_stack,
          xlen,
          mach,            \* the width the output BFD was made for
          abi,             \* explicit_mabi, abi_xlen, float_abi, rve_abi
          elf_flags,
          start_assemble,
          errors,          \* as_bad was called
          phase,           \* "asm", "written", "fatal" (as_fatal) or "crash"
          code,            \* history: under which settings instructions were assembled
          pushed,          \* history: the settings at each .option push still open
          lines            \* directives and instructions read

isa == <<lists, subset_list, riscv_opts, xlen>>
vars == <<job, isa, riscv_opts_stack, mach, abi, elf_flags, start_assemble, errors,
          phase, code, pushed, lines>>

Ids == 0..MaxDepth

list == lists[subset_list]

Compressed(l) == riscv_subset_supports(l, "c") \/ riscv_subset_supports(l, "zca")

\* Mutant: the flag is taken back with the option.
riscv_set_rvc_exact(flags, value) == [flags EXCEPT !.rvc = value]

riscv_set_rvc(flags, value) == IF value THEN [flags EXCEPT !.rvc = TRUE] ELSE flags

riscv_set_tso(flags, l) ==
  IF riscv_subset_supports(l, "ztso") THEN [flags EXCEPT !.tso = TRUE] ELSE flags

riscv_reset_subsets_list_arch_str(l, w) == [l EXCEPT !.str = w]

\* riscv_arch_str: the ISA string printed from a list; i is left out after e.
riscv_arch_str(l) ==
  [xlen |-> l.str,
   exts |-> IF {"e", "i"} \subseteq Range(l.names) THEN RemoveAt(l.names, Place(l, "i"))
            ELSE l.names]

\* NewIsa: a parsed or updated list r is in force; flags follow the list.
NewIsa(r) ==
  /\ lists' = [lists EXCEPT ![subset_list] =
                 riscv_reset_subsets_list_arch_str(r.list, r.xlen)]
  /\ xlen' = r.xlen
  /\ riscv_opts' = [riscv_opts EXCEPT !.rvc = Compressed(r.list)]
  /\ elf_flags' = riscv_set_tso(riscv_set_rvc(elf_flags, Compressed(r.list)), r.list)
  /\ errors' = (errors \/ ~r.ok)
  /\ UNCHANGED subset_list

riscv_set_arch(arch) ==
  \E r \in {riscv_parse_subset(riscv_release_subset_list(list), arch, xlen)} : NewIsa(r)

\* What riscv_set_abi_by_arch leaves in the abi, whether it complains, and the flags.
AbiByArch ==
  IF abi.given THEN abi
  ELSE [given |-> FALSE, xlen |-> xlen,
        float |-> IF riscv_subset_supports(list, "d") THEN "double" ELSE "soft",
        rve |-> ~riscv_subset_supports(list, "d") /\ riscv_subset_supports(list, "e")]

AbiClash ==
  /\ abi.given
  /\ \/ abi.xlen # xlen
     \/ riscv_subset_supports(list, "e") /\ ~abi.rve
     \/ abi.float = "single" /\ ~riscv_subset_supports(list, "f")
     \/ abi.float = "double" /\ ~riscv_subset_supports(list, "d")

riscv_set_abi_by_arch ==
  /\ abi' = AbiByArch
  /\ errors' = (errors \/ AbiClash)
  /\ elf_flags' = [elf_flags EXCEPT !.float = AbiByArch.float,
                                    !.rve = @ \/ AbiByArch.rve]

-----------------------------------------------------------------------------
\* Line: one more line of the file is read, and nothing it looks up is wild.
Line ==
  /\ phase = "asm"
  /\ lines < job.lines
  /\ lines' = lines + 1

NotWild == list.tail # Wild

\* Start-up: md_parse_option, riscv_after_parse_args and md_begin.
Init ==
  \E j \in Jobs : \E m \in j.march, a \in j.mabi :
    \E r \in {riscv_parse_subset(EmptyList, m, 32)} :
       /\ job = j
       /\ lists = [n \in Ids |-> IF n = 0 THEN riscv_reset_subsets_list_arch_str(r.list, r.xlen)
                                 ELSE EmptyList]
       /\ subset_list = 0
       /\ riscv_opts = [rvc |-> Compressed(r.list), relax |-> TRUE]
       /\ riscv_opts_stack = <<>>
       /\ xlen = r.xlen
       /\ mach = r.xlen
       /\ abi = a
       /\ elf_flags = riscv_set_tso(
                        riscv_set_rvc([rvc |-> FALSE, tso |-> FALSE, rve |-> FALSE,
                                       float |-> "default"], Compressed(r.list)), r.list)
       /\ start_assemble = FALSE
       /\ errors = ~r.ok
       /\ phase = "asm"
       /\ code = {}
       /\ pushed = <<>>
       /\ lines = 0

option_rvc(on) ==
  /\ Line /\ NotWild
  /\ \E r \in {riscv_update_subset(list, <<[op |-> IF on THEN "+" ELSE "-", ext |-> "c"]>>,
                                   xlen)} :
     /\ lists' = [lists EXCEPT ![subset_list] =
                    riscv_reset_subsets_list_arch_str(r.list, xlen)]
     /\ riscv_opts' = [riscv_opts EXCEPT !.rvc = on]
     /\ elf_flags' = riscv_set_rvc(elf_flags, on)
     /\ errors' = (errors \/ ~r.ok)
  /\ UNCHANGED <<subset_list, xlen, riscv_opts_stack, mach, abi, start_assemble,
                 phase, code, pushed>>

option_relax(on) ==
  /\ Line
  /\ riscv_opts' = [riscv_opts EXCEPT !.relax = on]
  /\ UNCHANGED <<lists, subset_list, xlen, riscv_opts_stack, mach, abi, elf_flags,
                 start_assemble, errors, phase, code, pushed>>

option_arch_edit(edits) ==
  /\ Line /\ NotWild
  /\ \E r \in {riscv_update_subset(list, edits, xlen)} : NewIsa(r)
  /\ UNCHANGED <<riscv_opts_stack, mach, abi, start_assemble, phase, code, pushed>>

\* An argument that begins with neither + nor - is parsed as a whole ISA string.
option_arch(arch) ==
  /\ Line
  /\ riscv_set_arch(arch)
  /\ UNCHANGED <<riscv_opts_stack, mach, abi, start_assemble, phase, code, pushed>>

\* riscv_copy_subset_list assigns the tail of the copy at its last element only.
riscv_copy_subset_list(l) ==
  {[l EXCEPT !.tail = t] :
     t \in IF l.names = <<>> THEN {None, Wild} ELSE {Last(l.names)}}

\* Mutant: the list is not copied.
option_push_alias ==
  /\ Line
  /\ Len(riscv_opts_stack) < MaxDepth
  /\ riscv_opts_stack' = <<[options |-> riscv_opts, list |-> subset_list]>> \o riscv_opts_stack
  /\ pushed' = <<[options |-> riscv_opts, names |-> list.names, xlen |-> xlen]>> \o pushed
  /\ UNCHANGED <<isa, mach, abi, elf_flags, start_assemble, errors, phase, code>>

option_push ==
  /\ Line
  /\ Len(riscv_opts_stack) < MaxDepth
  /\ riscv_opts_stack' = <<[options |-> riscv_opts, list |-> subset_list]>> \o riscv_opts_stack
  /\ LET fresh == Min(Ids \ {riscv_opts_stack'[i].list : i \in DOMAIN riscv_opts_stack'})
     IN /\ subset_list' = fresh
        /\ \E copy \in riscv_copy_subset_list(list) : lists' = [lists EXCEPT ![fresh] = copy]
  /\ pushed' = <<[options |-> riscv_opts, names |-> list.names, xlen |-> xlen]>> \o pushed
  /\ UNCHANGED <<riscv_opts, xlen, mach, abi, elf_flags, start_assemble, errors, phase, code>>

option_pop ==
  /\ Line
  /\ riscv_opts_stack # <<>>
  /\ LET s == Head(riscv_opts_stack)
     IN /\ riscv_opts' = s.options
        /\ subset_list' = s.list
        /\ lists' = [lists EXCEPT ![subset_list] = riscv_release_subset_list(@)]
  /\ riscv_opts_stack' = Tail(riscv_opts_stack)
  /\ pushed' = Tail(pushed)
  /\ UNCHANGED <<xlen, mach, abi, elf_flags, start_assemble, errors, phase, code>>

option_pop_empty ==
  /\ Line
  /\ riscv_opts_stack = <<>>
  /\ errors' = TRUE
  /\ UNCHANGED <<isa, riscv_opts_stack, mach, abi, elf_flags, start_assemble, phase,
                 code, pushed>>

s_riscv_attribute(arch) ==
  /\ Line
  /\ ~start_assemble
  /\ riscv_set_arch(arch)
  /\ mach' = IF xlen' # xlen THEN xlen' ELSE mach
  /\ UNCHANGED <<riscv_opts_stack, abi, start_assemble, phase, code, pushed>>

s_riscv_attribute_late ==
  /\ Line
  /\ start_assemble
  /\ phase' = "fatal"
  /\ UNCHANGED <<isa, riscv_opts_stack, mach, abi, elf_flags, start_assemble, errors,
                 code, pushed>>

\* The first instruction fixes the ABI; each one is compressed where it may be.
md_assemble ==
  /\ Line /\ NotWild
  /\ start_assemble' = TRUE
  /\ IF start_assemble THEN UNCHANGED <<abi, elf_flags, errors>>
     ELSE riscv_set_abi_by_arch
  /\ code' = code \cup {[rvc |-> riscv_opts.rvc /\ Compressed(list),
                         tso |-> riscv_subset_supports(list, "ztso"), xlen |-> xlen]}
  /\ UNCHANGED <<isa, riscv_opts_stack, mach, phase, pushed>>

\* A look-up through a tail that was never assigned.
WildRead ==
  /\ phase = "asm"
  /\ ~NotWild
  /\ phase' = "crash"
  /\ UNCHANGED <<isa, riscv_opts_stack, mach, abi, elf_flags, start_assemble, errors,
                 code, pushed, lines>>

\* The end of the file: riscv_elf_final_processing; the list is kept for the properties.
riscv_elf_final_processing ==
  /\ phase = "asm"
  /\ NotWild
  /\ riscv_set_abi_by_arch
  /\ phase' = "written"
  /\ UNCHANGED <<isa, riscv_opts_stack, mach, start_assemble, code, pushed, lines>>

ReadFile ==
  \/ \E on \in BOOLEAN : option_rvc(on) \/ option_relax(on)
  \/ \E edits \in job.edits : option_arch_edit(edits)
  \/ \E arch \in job.archs : option_arch(arch) \/ s_riscv_attribute(arch)
  \/ option_push \/ option_pop \/ option_pop_empty
  \/ s_riscv_attribute_late
  \/ md_assemble
  \/ WildRead
  \/ riscv_elf_final_processing

Next == ReadFile /\ UNCHANGED job

Spec == Init /\ [][Next]_vars

-----------------------------------------------------------------------------
\* The lists that may still be used: the one in force and those pushed.
Live == {subset_list} \cup {riscv_opts_stack[i].list : i \in DOMAIN riscv_opts_stack}

\* After any sequence of additions, removals, copies and releases a look-up, with
\* its shortcut through the tail, finds exactly the extensions that are linked, and
\* the tail it reads is one of them, not one that was freed.
LookupExact ==
  \A n \in Live : lists[n].tail # Wild =>
    /\ lists[n].tail \in Range(lists[n].names) \cup {None}
    /\ \A x \in Names : riscv_subset_supports(lists[n], x) <=> x \in Range(lists[n].names)

\* The ISA string gas prints for a list is accepted by the parser, which gives the
\* same list back: the mapping symbols and the attribute say what was in force.
ArchReadsBack ==
  ~errors => \A n \in Live :
    \A r \in {riscv_parse_subset(EmptyList, riscv_arch_str(lists[n]), 32)} :
      r.ok /\ r.list.names = lists[n].names

\* .option pop brings back the options and the extensions of its own push, whatever
\* was changed, pushed and popped between the two.
PopRestores ==
  [][option_pop => /\ lists'[subset_list'].names = Head(pushed).names
                   /\ riscv_opts' = Head(pushed).options]_vars

\* Compressed code, and code for total store order, is announced in the ELF header,
\* also when it was assembled inside a region that has been popped since.
FlagsCoverCode ==
  \A k \in code : (k.rvc => elf_flags.rvc) /\ (k.tso => elf_flags.tso)

\* A file written without an error has the calling convention asked for by -mabi, and
\* the ISA in force at its end has the registers of the convention in the header.
AbiSupported ==
  phase = "written" /\ ~errors =>
    /\ abi.given => elf_flags.float = abi.float
    /\ elf_flags.float = "single" => "f" \in Range(list.names)
    /\ elf_flags.float = "double" => "d" \in Range(list.names)

\* The list of extensions of a file stays in one piece: look-ups find exactly what is
\* linked, and the ISA string gas prints for it reads back as the same list.
ListIntact == LookupExact /\ ArchReadsBack

\* The header of a file covers its code: compressed and total store order code is
\* announced also when its region has been popped since, and the ISA in force at the
\* end has the registers of the calling convention asked for.
HeaderCoversCode == FlagsCoverCode /\ AbiSupported

-----------------------------------------------------------------------------
(***************************************************************************)
(* The inductive invariant.                                                *)
(***************************************************************************)
Sorted(s) == \A i, j \in DOMAIN s : i < j => riscv_compare_subsets(s[i], s[j]) < 0

\* A list whose tail is its last element, and a copy of an empty one.
Chains ==
  {l \in [names : Seq(Names), tail : Names \cup {None}, str : Widths \cup {0}] :
     /\ Sorted(l.names)
     /\ l.tail = IF l.names = <<>> THEN None ELSE Last(l.names)}

WildCopies == [names : {<<>>}, tail : {Wild}, str : Widths \cup {0}]

Options == [rvc : BOOLEAN, relax : BOOLEAN]
ElfFlags == [rvc : BOOLEAN, tso : BOOLEAN, rve : BOOLEAN, float : FloatAbis]
Pushed == [options : Options, list : Ids]

TypeOK ==
  /\ job \in Jobs
  /\ lists \in [Ids -> Chains \cup WildCopies]
  /\ subset_list \in Ids
  /\ riscv_opts \in Options
  /\ riscv_opts_stack \in Seq(Pushed)
  /\ Len(riscv_opts_stack) <= MaxDepth
  /\ xlen \in Widths
  /\ mach \in Widths
  /\ abi \in Abis
  /\ elf_flags \in ElfFlags
  /\ start_assemble \in BOOLEAN
  /\ errors \in BOOLEAN
  /\ phase \in {"asm", "written", "fatal", "crash"}
  /\ code \subseteq [rvc : BOOLEAN, tso : BOOLEAN, xlen : Widths]
  /\ pushed \in Seq([options : Options, names : Seq(Names), xlen : Widths])
  /\ lines \in Nat

\* Every open push has its own list, which nothing has changed since.
StackKept ==
  /\ Len(pushed) = Len(riscv_opts_stack)
  /\ \A i \in 1 .. Len(riscv_opts_stack) :
       /\ riscv_opts_stack[i].list # subset_list
       /\ riscv_opts_stack[i].options = pushed[i].options
       /\ lists[riscv_opts_stack[i].list].names = pushed[i].names
       /\ \A k \in 1 .. Len(riscv_opts_stack) :
            i # k => riscv_opts_stack[i].list # riscv_opts_stack[k].list

\* What is in force, or will be after a pop, is announced.
Announced ==
  /\ riscv_opts.rvc => elf_flags.rvc
  /\ \A i \in 1 .. Len(riscv_opts_stack) : riscv_opts_stack[i].options.rvc => elf_flags.rvc
  /\ \A n \in Live : "ztso" \in Range(lists[n].names) => elf_flags.tso

\* A list that parses: the rules have been applied, and nothing in it conflicts.
Legal(l) ==
  LET all == Range(l.names)
  IN /\ l.str \in Widths
     /\ \A r \in DOMAIN Implicit : Implicit[r][1] \in all => Implicit[r][2] \in all
     /\ ~("zcf" \in all /\ l.str > 32)
     /\ ~({"zfinx", "f"} \subseteq all)

LegalLists == ~errors => \A n \in Live : Legal(lists[n])

IInv == TypeOK /\ StackKept /\ Announced /\ FlagsCoverCode /\ AbiSupported /\ LegalLists
=============================================================================
