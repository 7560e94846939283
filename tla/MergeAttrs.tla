----------------------------- MODULE MergeAttrs -----------------------------
(***************************************************************************)
(* How ld merges the attributes and header flags of its input files:       *)
(* lang_check (ld/ldlang.c) calls _bfd_riscv_elf_merge_private_bfd_data    *)
(* (bfd/elfnn-riscv.c) once per file, in command-line order.               *)
(*                                                                         *)
(* A subset list is a function from names to versions; its order and its   *)
(* look-ups are in GasOptions.  A version is one number, Unknown for an    *)
(* implied extension.  A file that cannot be merged does not end the link  *)
(* when it was started with --no-warn-mismatch, so the walk goes on.       *)
(***************************************************************************)
EXTENDS Integers, FiniteSets, FiniteSetsExt

CONSTANTS Objects,     \* the files that may be on the command line
          Known,       \* the numbers of the privileged specs ld knows, 0 excluded
          ARCH_SIZE,   \* 32 or 64: which linker
          MaxInputs    \* bound on their number

VARIABLES out_attr,                 \* attributes of the output; init: Tag_null
          in_subsets, out_subsets,  \* the static lists of elfnn-riscv.c
          flags,                    \* e_flags of the output; init: elf_flags_init
          failed,                   \* some call returned false
          merged                    \* history: the files seen so far

vars == <<out_attr, in_subsets, out_subsets, flags, failed, merged>>

Unknown == -1
NoExts == [x \in {} |-> 0]
Null == [kind |-> "null", xlen |-> 0, exts |-> NoExts]    \* no string
Empty == [kind |-> "empty", xlen |-> 0, exts |-> NoExts]  \* "", which no parse accepts

StdExts == {"m", "f", "d", "c"}   \* the letters of standard_exts: no i, e, k

\* An ISA string has a base, e or i, and the versions of its extensions; none is
\* called k.  A file has one, or none, or one that cannot be read.
IsaStr(a) ==
  /\ a = [kind |-> "isa", xlen |-> a.xlen, exts |-> a.exts]
  /\ a.xlen \in Nat
  /\ a.exts \in [DOMAIN a.exts -> Nat]
  /\ "k" \notin DOMAIN a.exts
  /\ ("e" \in DOMAIN a.exts) # ("i" \in DOMAIN a.exts)

File(ib) ==
  /\ ib.arch \in {Null, Empty} \/ IsaStr(ib.arch)
  /\ ib.priv \in Nat /\ ib.stack \in Nat
  /\ {ib.attrs, ib.unaligned, ib.code, ib.rvc, ib.tso, ib.rve} \subseteq BOOLEAN

ASSUME ConstantsOK ==
  /\ ARCH_SIZE \in Nat /\ MaxInputs \in Nat
  /\ Known \subseteq Nat \ {0}
  /\ \A ib \in Objects : File(ib)

Init ==
  /\ out_attr = [init |-> FALSE, arch |-> Null, priv |-> 0, unaligned |-> FALSE, stack |-> 0]
  /\ in_subsets = NoExts
  /\ out_subsets = NoExts
  /\ flags = [init |-> FALSE, rvc |-> FALSE, tso |-> FALSE, rve |-> FALSE, float |-> "soft"]
  /\ failed = FALSE
  /\ merged = {}

-----------------------------------------------------------------------------
(***************************************************************************)
(* Merging ISA strings.                                                    *)
(***************************************************************************)
\* An entry of riscv_implicit_subsets: with the extension x comes y.
Implied(l, x, y) ==
  IF x \in DOMAIN l
  THEN [z \in DOMAIN l \cup {y} |-> IF z \in DOMAIN l THEN l[z] ELSE Unknown]
  ELSE l

\* The table is in an order that makes one walk through it the fixed point.
riscv_parse_add_implicit_subsets(l) ==
  Implied(Implied(Implied(Implied(l, "e", "i"), "d", "f"), "f", "zicsr"), "zfinx", "zicsr")

riscv_parse_check_conflicts(l) == ~({"zfinx", "f"} \subseteq DOMAIN l)

\* What is still in the list from an earlier call stays, with its version.
riscv_parse_subset(l, arch) ==
  LET both == [x \in DOMAIN l \cup DOMAIN arch.exts |-> IF x \in DOMAIN l THEN l[x] ELSE arch.exts[x]]
      k == riscv_parse_add_implicit_subsets(both)
  IN IF arch.kind = "isa" THEN [ok |-> riscv_parse_check_conflicts(k), list |-> k]
     ELSE [ok |-> FALSE, list |-> l]

\* i is left out after e, and so are implied extensions.
riscv_arch_str(w, l) ==
  LET shown == {x \in DOMAIN l : l[x] # Unknown /\ ~(x = "i" /\ "e" \in DOMAIN l)}
  IN [kind |-> "isa", xlen |-> w, exts |-> [x \in shown |-> l[x]]]

First(l) == IF "e" \in DOMAIN l THEN "e" ELSE "i"

\* riscv_update_subset_version, and the subset that is added to the merged list.
Newer(in, out, x) ==
  CASE x \notin DOMAIN in -> out[x]
    [] x \notin DOMAIN out -> in[x]
    [] OTHER -> Max({in[x], out[x]})

\* Both heads are the base; the standard extensions by their letters; the rest by
\* walking both lists, which are in one order, to their ends.
MergedSubsets(in, out) ==
  LET singles == {"e", "i", "m", "f", "d", "c", "k"}
      all == DOMAIN in \cup DOMAIN out
  IN [x \in {First(in)} \cup (all \cap StdExts) \cup (all \ singles) |-> Newer(in, out, x)]

\* [arch, in, out]: the merged string, Null if there is none, and the static lists
\* afterwards: they are released only on success.
riscv_merge_arch_attr_info(in_arch, out_arch) ==
  LET i == riscv_parse_subset(in_subsets, in_arch)
      o == riscv_parse_subset(out_subsets, out_arch)
      fits == /\ in_arch.xlen = out_arch.xlen
              /\ First(i.list) = First(o.list)
              /\ in_arch.xlen = ARCH_SIZE
  IN CASE ~i.ok -> [arch |-> Null, in |-> i.list, out |-> out_subsets]
       [] i.ok /\ ~(o.ok /\ fits) -> [arch |-> Null, in |-> i.list, out |-> o.list]
       [] OTHER -> [arch |-> riscv_arch_str(in_arch.xlen, MergedSubsets(i.list, o.list)),
                    in |-> NoExts, out |-> NoExts]

-----------------------------------------------------------------------------
(***************************************************************************)
(* riscv_merge_attributes.                                                 *)
(***************************************************************************)
riscv_get_priv_spec_class(n) == IF n \in Known THEN n ELSE 0

MergedPriv(in, out) ==
  LET ci == riscv_get_priv_spec_class(in)
      co == riscv_get_priv_spec_class(out)
  IN IF co = 0 \/ ci > co THEN in ELSE out

\* Mutant: the string of the output stays when it cannot be merged.
MergedArch_keeps(ib) ==
  LET r == riscv_merge_arch_attr_info(ib.arch, out_attr.arch)
  IN CASE out_attr.arch = Null -> [arch |-> ib.arch, ok |-> TRUE, in |-> in_subsets, out |-> out_subsets]
       [] out_attr.arch # Null /\ ib.arch = Null ->
            [arch |-> out_attr.arch, ok |-> TRUE, in |-> in_subsets, out |-> out_subsets]
       [] OTHER -> [arch |-> IF r.arch = Null THEN out_attr.arch ELSE r.arch,
                    ok |-> r.arch # Null, in |-> r.in, out |-> r.out]

MergedArch(ib) ==
  LET r == riscv_merge_arch_attr_info(ib.arch, out_attr.arch)
  IN CASE out_attr.arch = Null -> [arch |-> ib.arch, ok |-> TRUE, in |-> in_subsets, out |-> out_subsets]
       [] out_attr.arch # Null /\ ib.arch = Null ->
            [arch |-> out_attr.arch, ok |-> TRUE, in |-> in_subsets, out |-> out_subsets]
       [] OTHER -> [arch |-> IF r.arch = Null THEN Empty ELSE r.arch,
                    ok |-> r.arch # Null, in |-> r.in, out |-> r.out]

StackClash(ib) == ib.stack # 0 /\ out_attr.stack # 0 /\ ib.stack # out_attr.stack

\* No attribute section; the first one with it; and AttrsMerged(ib, ok), where the
\* attributes of ib go into the output, and fit or not.
AttrsSkipped(ib) ==
  /\ ~ib.attrs
  /\ UNCHANGED <<out_attr, in_subsets, out_subsets>>

AttrsCopied(ib) ==
  /\ ib.attrs /\ ~out_attr.init
  /\ out_attr' = [init |-> TRUE, arch |-> ib.arch, priv |-> ib.priv,
                  unaligned |-> ib.unaligned, stack |-> ib.stack]
  /\ UNCHANGED <<in_subsets, out_subsets>>

AttrsMerged(ib, ok) ==
  \E r \in {MergedArch(ib)} :
     /\ ib.attrs /\ out_attr.init
     /\ out_attr' = [init |-> TRUE, arch |-> r.arch, priv |-> MergedPriv(ib.priv, out_attr.priv),
                     unaligned |-> ib.unaligned \/ out_attr.unaligned,
                     stack |-> IF out_attr.stack = 0 THEN ib.stack ELSE out_attr.stack]
     /\ in_subsets' = r.in
     /\ out_subsets' = r.out
     /\ ok = (r.ok /\ ~StackClash(ib))

riscv_merge_attributes(ib) ==
  AttrsSkipped(ib) \/ AttrsCopied(ib) \/ AttrsMerged(ib, TRUE)

-----------------------------------------------------------------------------
(***************************************************************************)
(* _bfd_riscv_elf_merge_private_bfd_data: its outcomes for one file.       *)
(***************************************************************************)
Input(ib) ==
  /\ ib \in Objects \ merged
  /\ Cardinality(merged) < MaxInputs
  /\ merged' = merged \cup {ib}

\* The attributes do not fit: the flags are not looked at.
AttributesClash(ib) ==
  /\ Input(ib) /\ ib.target = ARCH_SIZE
  /\ AttrsMerged(ib, FALSE)
  /\ failed' = TRUE
  /\ UNCHANGED flags

\* Another target: nothing of the file is merged.
TargetClash(ib) ==
  /\ Input(ib) /\ ib.target # ARCH_SIZE
  /\ failed' = TRUE
  /\ UNCHANGED <<out_attr, in_subsets, out_subsets, flags>>

\* No code section: the flags do not matter.
OnlyData(ib) ==
  /\ Input(ib) /\ ib.target = ARCH_SIZE /\ ~ib.code
  /\ riscv_merge_attributes(ib)
  /\ UNCHANGED <<flags, failed>>

FirstFlags(ib) ==
  /\ Input(ib) /\ ib.target = ARCH_SIZE /\ ib.code
  /\ riscv_merge_attributes(ib)
  /\ ~flags.init
  /\ flags' = [init |-> TRUE, rvc |-> ib.rvc, tso |-> ib.tso, rve |-> ib.rve, float |-> ib.float]
  /\ UNCHANGED failed

\* Mutant: files are only compared when both have compressed instructions.
AbiClash_rvc(ib) == flags.rvc /\ ib.rvc /\ (ib.float # flags.float \/ ib.rve # flags.rve)

AbiClash(ib) == ib.float # flags.float \/ ib.rve # flags.rve

FlagsClash(ib) ==
  /\ Input(ib) /\ ib.target = ARCH_SIZE /\ ib.code
  /\ riscv_merge_attributes(ib)
  /\ flags.init /\ AbiClash(ib)
  /\ failed' = TRUE
  /\ UNCHANGED flags

MergeFlags(ib) ==
  /\ Input(ib) /\ ib.target = ARCH_SIZE /\ ib.code
  /\ riscv_merge_attributes(ib)
  /\ flags.init /\ ~AbiClash(ib)
  /\ flags' = [flags EXCEPT !.rvc = @ \/ ib.rvc, !.tso = @ \/ ib.tso]
  /\ UNCHANGED failed

Next ==
  \E ib \in Objects :
    \/ TargetClash(ib) \/ AttributesClash(ib) \/ OnlyData(ib)
    \/ FirstFlags(ib) \/ FlagsClash(ib) \/ MergeFlags(ib)

Spec == Init /\ [][Next]_vars

-----------------------------------------------------------------------------
Attributed == {ib \in merged : ib.target = ARCH_SIZE /\ ib.attrs}
Described == {ib \in Attributed : ib.arch # Null}
WithCode == {ib \in merged : ib.code}

Subsets(arch) == riscv_parse_subset(NoExts, arch).list

IsaIsUnion ==
  out_attr.arch.kind = "isa" =>
    /\ DOMAIN Subsets(out_attr.arch) = UNION {DOMAIN Subsets(ib.arch) : ib \in Described}
    /\ \A x \in DOMAIN out_attr.arch.exts :
         out_attr.arch.exts[x] = Max({Subsets(ib.arch)[x] : ib \in {ib \in Described : x \in DOMAIN Subsets(ib.arch)}})

PrivIsNewest ==
  out_attr.init =>
    riscv_get_priv_spec_class(out_attr.priv) = Max({riscv_get_priv_spec_class(ib.priv) : ib \in Attributed})

\* The attributes of the output name what some input names and nothing else, each
\* extension and the privileged spec in its newest version, in any order of the files;
\* nothing is left over in them from a file that could not be merged.
MergedIsUnion == IsaIsUnion /\ PrivIsNewest

AbiAgrees ==
  ~failed => \A a \in WithCode :
    /\ flags.init /\ flags.float = a.float /\ flags.rve = a.rve
    /\ a.rvc => flags.rvc
    /\ a.tso => flags.tso

\* Why a and b do not go together: they differ in target, calling convention, stack
\* alignment, width or base, one has a string that cannot be read, or their
\* extensions are in conflict.
Clash(a, b) ==
  \/ a.target # ARCH_SIZE
  \/ a.code /\ b.code /\ (a.float # b.float \/ a.rve # b.rve)
  \/ a.attrs /\ b.attrs /\ 0 \notin {a.stack, b.stack} /\ a.stack # b.stack
  \/ {a, b} \subseteq Described /\ \/ a.arch.xlen # ARCH_SIZE
                                   \/ First(a.arch.exts) # First(b.arch.exts)
                                   \/ a.arch.kind # "isa"
                                   \/ "zfinx" \in DOMAIN Subsets(a.arch) /\ "f" \in DOMAIN Subsets(b.arch)

SomeClash == \E a, b \in merged : Clash(a, b)

FailureHasCause == failed => SomeClash

\* A link succeeds only if all code in it has one ABI, also when files without code or
\* attributes lie between, and its flags then cover all of it; it fails only if two of
\* the files really clash.
OneAbi == AbiAgrees /\ FailureHasCause

-----------------------------------------------------------------------------
(***************************************************************************)
(* The inductive invariant.                                                *)
(***************************************************************************)
TypeOK ==
  /\ merged \subseteq Objects
  /\ failed \in BOOLEAN
  /\ out_attr.init \in BOOLEAN
  /\ out_attr.priv \in Nat
  /\ flags \in [init : BOOLEAN, rvc : BOOLEAN, tso : BOOLEAN, rve : BOOLEAN,
                float : {"soft"} \cup {ib.float : ib \in Objects}]

\* The string of the output can be parsed again, and until a merge of strings has
\* failed the static lists are empty when it is.
Strings ==
  /\ out_attr.arch \in {Null, Empty} \/ IsaStr(out_attr.arch)
  /\ out_attr.arch # Empty => in_subsets = NoExts /\ out_subsets = NoExts
  /\ out_attr.arch = Null <=> Described = {}
  /\ out_attr.init <=> Attributed # {}

\* l has every extension of the files of S in its newest version, and no other.
Covers(l, S) ==
  \A ib \in S : /\ DOMAIN Subsets(ib.arch) \subseteq DOMAIN l
                /\ \A x \in DOMAIN Subsets(ib.arch) : Subsets(ib.arch)[x] <= l[x]
Attained(l, S) ==
  \A x \in DOMAIN l : \E ib \in S : x \in DOMAIN Subsets(ib.arch) /\ Subsets(ib.arch)[x] = l[x]

Gathered ==
  out_attr.arch.kind = "isa" =>
    /\ \A ib \in Described : ib.arch.kind = "isa" /\ First(ib.arch.exts) = First(out_attr.arch.exts)
    /\ \E ib \in Described : ib.arch.xlen = out_attr.arch.xlen
    /\ Covers(Subsets(out_attr.arch), Described)
    /\ Attained(Subsets(out_attr.arch), Described)

StackFrom == out_attr.stack # 0 => \E ib \in Attributed : ib.stack = out_attr.stack

PrivFrom ==
  out_attr.init =>
    /\ \E ib \in Attributed : riscv_get_priv_spec_class(ib.priv) = riscv_get_priv_spec_class(out_attr.priv)
    /\ \A ib \in Attributed : riscv_get_priv_spec_class(ib.priv) <= riscv_get_priv_spec_class(out_attr.priv)

FlagsFrom == flags.init => \E ib \in WithCode : ib.float = flags.float /\ ib.rve = flags.rve

\* The string is given up, and the link fails, only for a cause.
Caused == failed \/ out_attr.arch = Empty => SomeClash

IInv ==
  TypeOK /\ Strings /\ Gathered /\ StackFrom /\ PrivFrom /\ FlagsFrom /\ Caused /\ AbiAgrees
=============================================================================
