------------------------------- MODULE GotPlt -------------------------------
(* The GOT, the PLT and the dynamic relocations of a link                   *)
(* (bfd/elfnn-riscv.c).  Three walks must agree without talking to each      *)
(* other: check_relocs counts references, size_dynamic_sections reserves     *)
(* room from the counts, relocate_section and finish_dynamic_symbol fill it. *)
(* The flags of a symbol change between the walks.  A word of the GOT and    *)
(* an entry of a .rela section have length 1; the contents of a section are  *)
(* what the dynamic linker would find there.                                 *)
EXTENDS Integers, Sequences, FiniteSets, SequencesExt

(* A use is a kind of symbol with the relocs against it, as <<type, section>>. *)
CONSTANTS
  Links,          \* [mode, undefweak (-1, 0, 1: -z dynamic-undefined-weak), nocopy]
  Uses,           \* [kd, xs]
  Symbols,        \* how many symbols the input has
  Considered(_, _)   \* the links and uses to look at

VARIABLES
  link,       \* the options of this link
  refs,       \* the relocs of the input, in input order: [s, t, sec]
  sym,        \* the hash entries (or the local symbols) by number
  phase, k,   \* the walk, and the place in it
  size,       \* entries reserved: .got, .plt (and .got.plt), the .rela sections
  count,      \* reloc_count of the .rela sections
  last,       \* last_iplt_index
  got,        \* history: the writes of GOT words, [at, s, v]
  rela,       \* history: the writes of .rela entries, [sec, i, at, t, s]
  value,      \* what was put at each reference
  broken      \* assertions, aborts and null pointers met
vars == <<link, refs, sym, phase, k, size, count, last, got, rela, value, broken>>

Secs == {"text", "rodata", "data"}
ReadOnly(sec) == sec \in {"text", "rodata"}
RelaSecs == {"rela.got", "rela.plt", "rela.bss", "rela.iplt", "rela.ifunc"} \cup Secs

Pic == link.mode \in {"pie", "dll", "symbolic"}
Dll == link.mode \in {"dll", "symbolic"}
DynSections == link.mode # "static"      \* dynamic_sections_created, and splt # NULL
Symbolic == link.mode = "symbolic"

---------------------------------------------------------------------------
(* Symbols.  bind "local" with a type other than ifunc has no hash entry.    *)
(* plt and got are the unions of the code: a count until the sections are    *)
(* sized, then an offset; -1 is "none" in both readings.                     *)

Null(h) == h.bind = "local" /\ h.type # "ifunc"
Undef(h) == h.root \in {"undefined", "undefweak"}

(* A symbol as elf_link_add_object_symbols leaves it.                        *)
NewSym(kd, l) ==
  LET dll == l.mode \in {"dll", "symbolic"}
      wanted == kd.bind = "global" /\ (dll \/ kd.shared \/ kd.def = "dynamic")
      hides  == kd.vis = "hidden" /\ kd.def \in {"regular", "weak", "abs"}
  IN [bind |-> kd.bind, type |-> kd.type, vis |-> kd.vis, script |-> kd.def = "script",
      abs |-> kd.def = "abs", shared |-> kd.shared,
      root |-> CASE kd.def \in {"regular", "abs"} -> "defined"
                 [] kd.def = "weak" -> "defweak"
                 [] kd.def = "dynamic" -> "defined"
                 [] kd.def = "undefweak" -> "undefweak"
                 [] kd.def \in {"undefined", "script"} -> "undefined",
      regular |-> kd.def \in {"regular", "weak", "abs"},
      dynamic |-> kd.def = "dynamic",
      dyn |-> wanted /\ ~hides,
      forced |-> (wanted /\ hides) \/ (kd.bind = "local" /\ kd.type = "ifunc"),
      needs_plt |-> FALSE, non_got |-> FALSE, eq |-> FALSE, copy |-> FALSE,
      tls |-> {}, rels |-> [sec \in Secs |-> [n |-> 0, pc |-> 0]],
      plt |-> 0, got |-> 0, done |-> FALSE, inplt |-> FALSE]

(* bfd_elf_link_record_dynamic_symbol.                                       *)
RecordDyn(h) ==
  IF h.dyn THEN h
  ELSE IF h.vis = "hidden" /\ ~Undef(h) THEN [h EXCEPT !.forced = TRUE]
  ELSE [h EXCEPT !.dyn = TRUE]

MakeDyn(h) == IF h.dyn \/ h.forced THEN h ELSE RecordDyn(h)

(* _bfd_elf_link_hash_hide_symbol.                                           *)
Hide(h, force) ==
  LET g == IF h.type = "ifunc" THEN h ELSE [h EXCEPT !.plt = -1, !.needs_plt = FALSE]
  IN IF force THEN [g EXCEPT !.forced = TRUE, !.dyn = FALSE] ELSE g

(* _bfd_elf_symbol_refs_local_p; calls is its last argument.                 *)
RefsLocal(h, calls) ==
  \/ Null(h) \/ h.vis = "hidden" \/ h.forced
  \/ /\ h.regular \/ (~h.dynamic /\ h.root = "defined")
     /\ \/ ~h.dyn
        \/ ~Dll \/ Symbolic
        \/ h.vis = "protected" /\ (h.type \notin {"func", "ifunc"} \/ calls)

WillFinish(h) == DynSections /\ (Pic \/ ~h.forced) /\ (h.dyn \/ h.forced)

UndefweakNoDyn(h) ==
  h.root = "undefweak" /\ (h.vis # "default" \/ link.undefweak = 0)

\* Mutant: symbols that bind inside a shared object are forgotten.
ResolvedLocally_static(h) == ~WillFinish(h)
ResolvedLocally(h) == ~WillFinish(h) \/ (Pic /\ RefsLocal(h, FALSE))

NeedDynamicReloc(pcrel, h, sec) ==
  \/ Pic /\ (~pcrel \/ (~Null(h) /\ (~Symbolic \/ h.root = "defweak" \/ ~h.regular)))
  \/ ~Pic /\ ~Null(h) /\ (h.root = "defweak" \/ ~h.regular)
  \/ ~Pic /\ ~Null(h) /\ h.type = "ifunc" /\ sec # "text"

GenerateDynamicReloc(h) ==
  \/ Pic /\ (Null(h) \/ (h.vis = "default" /\ ~UndefweakNoDyn(h)) \/ h.root # "undefweak")
  \/ ~Pic /\ ~Null(h) /\ h.dyn /\ ~h.non_got /\ ((h.dynamic /\ ~h.regular) \/ Undef(h))

CopyInputReloc(h) == ~Null(h) /\ h.dyn /\ (~Pic \/ ~Symbolic \/ ~h.regular)

(* RISCV_TLS_GD_IE_NEED_DYN_RELOC: whether INDX becomes the symbol's index,  *)
(* and NEED_RELOC.                                                           *)
TlsIndexed(h) ==
  ~Null(h) /\ h.dyn /\ WillFinish(h) /\ (Dll \/ ~RefsLocal(h, FALSE))
\* Mutant: no reloc for a symbol without a dynamic index.
TlsNeedReloc_indexed(h) ==
  TlsIndexed(h) /\ (Null(h) \/ h.vis = "default" \/ h.root # "undefweak")
TlsNeedReloc(h) ==
  (Dll \/ TlsIndexed(h)) /\ (Null(h) \/ h.vis = "default" \/ h.root # "undefweak")

---------------------------------------------------------------------------
(* riscv_elf_check_relocs: one reloc.                                        *)

RecordTls(h, t) == [h EXCEPT !.got = @ + 1, !.tls = @ \cup {t}]
MixedTls(h) == "N" \in h.tls /\ h.tls # {"N"}

StaticReloc(h, r) ==
  LET use == ~Null(h) /\ (~Pic \/ h.type = "ifunc")
      g == IF ~use THEN h
           ELSE [h EXCEPT !.non_got = TRUE, !.eq = TRUE,
                          !.plt = IF ~h.regular \/ ReadOnly(r.sec) THEN @ + 1 ELSE @]
      pcrel == r.t = "PCREL"
  IN IF NeedDynamicReloc(pcrel, g, r.sec)
     THEN [g EXCEPT !.rels[r.sec] = [n |-> @.n + 1, pc |-> @.pc + IF pcrel THEN 1 ELSE 0]]
     ELSE g

PcrelIfunc(h) ==
  IF h.type = "ifunc" THEN [h EXCEPT !.non_got = TRUE, !.eq = TRUE, !.plt = @ + 1] ELSE h

Checked(h, r) ==
  CASE r.t = "GD" -> RecordTls(h, "GD")
    [] r.t = "IE" -> RecordTls(h, "IE")
    [] r.t = "GOT" -> RecordTls(h, "N")
    [] r.t = "CALL" -> IF Null(h) THEN h ELSE [h EXCEPT !.needs_plt = TRUE, !.plt = @ + 1]
    [] r.t = "PCREL" -> IF Pic THEN PcrelIfunc(h) ELSE StaticReloc(PcrelIfunc(h), r)
    [] r.t \in {"HI", "W"} -> StaticReloc(h, r)

CheckError(h, r) ==
  \/ r.t \in {"GD", "IE", "GOT"} /\ MixedTls(Checked(h, r))
  \/ r.t = "PCREL" /\ Pic /\ h.abs
  \/ r.t = "HI" /\ Pic

CheckReloc ==
  /\ phase = "check" /\ k <= Len(refs)
  /\ LET r == refs[k]
         h == sym[r.s]
     IN /\ sym' = [sym EXCEPT ![r.s] = Checked(h, r)]
        /\ broken' = IF r.t = "PCREL" /\ Pic /\ h.abs /\ Null(h)
                     THEN broken \cup {"null"} ELSE broken
        /\ IF CheckError(h, r) THEN phase' = "failed" /\ k' = k
           ELSE phase' = phase /\ k' = k + 1
  /\ UNCHANGED <<link, refs, size, count, last, got, rela, value>>

---------------------------------------------------------------------------
(* bfd_elf_record_link_assignment: a symbol of the linker script gets its    *)
(* definition after its references were counted.                             *)

Assigned(h) ==
  IF ~h.script THEN h
  ELSE LET g == [h EXCEPT !.root = "defined", !.regular = TRUE,
                          !.forced = @ \/ (h.dyn /\ h.vis = "hidden")]
       IN IF (g.shared \/ Dll) /\ ~g.forced THEN RecordDyn(g) ELSE g

RecordAssignments ==
  /\ phase = "check" /\ k > Len(refs)
  /\ sym' = [s \in DOMAIN sym |-> Assigned(sym[s])]
  /\ phase' = (IF DynSections THEN "adjust" ELSE "locals") /\ k' = 1
  /\ UNCHANGED <<link, refs, size, count, last, got, rela, value, broken>>

---------------------------------------------------------------------------
(* _bfd_elf_adjust_dynamic_symbol with _bfd_elf_fix_symbol_flags, and        *)
(* riscv_elf_adjust_dynamic_symbol.                                          *)

FixFlags(h) ==
  IF h.vis # "default" /\ h.root = "undefweak" THEN Hide(h, TRUE)
  ELSE IF h.needs_plt /\ Pic /\ h.regular /\ (Symbolic \/ h.vis # "default")
       THEN Hide(h, h.vis = "hidden")
  ELSE h

FixUndefweak(h) ==
  IF h.root # "undefweak" THEN h
  ELSE IF link.undefweak = 0 THEN Hide(h, TRUE)
  ELSE IF link.undefweak > 0 /\ h.vis = "default" THEN RecordDyn(h)
  ELSE h

ReadonlyRels(h) == \E sec \in Secs : ReadOnly(sec) /\ h.rels[sec].n > 0

AdjustFunction(h) ==
  IF \/ h.plt <= 0
     \/ /\ h.type # "ifunc"
        /\ RefsLocal(h, TRUE) \/ (h.vis # "default" /\ h.root = "undefweak")
  THEN [h EXCEPT !.plt = -1, !.needs_plt = FALSE]
  ELSE h

AdjustData(h) ==
  LET g == [h EXCEPT !.plt = -1]
  IN IF Pic \/ ~g.non_got THEN g
     ELSE IF link.nocopy \/ ~ReadonlyRels(g) THEN [g EXCEPT !.non_got = FALSE]
     ELSE [g EXCEPT !.copy = TRUE]

Adjusted(h0) ==
  LET h == FixUndefweak(FixFlags(h0))
  IN IF ~h.needs_plt /\ h.type # "ifunc" /\ (h.regular \/ ~h.dynamic)
     THEN [h EXCEPT !.plt = -1]
     ELSE IF h.type \in {"func", "ifunc"} \/ h.needs_plt THEN AdjustFunction(h)
     ELSE AdjustData(h)

Globals == {s \in DOMAIN sym : sym[s].bind = "global"}
LocalIfuncs == {s \in DOMAIN sym : sym[s].bind = "local" /\ sym[s].type = "ifunc"}

AdjustDynamicSymbol ==
  /\ phase = "adjust"
  /\ IF k > Len(sym)
     THEN phase' = "locals" /\ k' = 1 /\ UNCHANGED <<sym, size>>
     ELSE /\ phase' = phase /\ k' = k + 1
          /\ LET g == IF k \in Globals THEN Adjusted(sym[k]) ELSE sym[k]
             IN /\ sym' = [sym EXCEPT ![k] = g]
                /\ size' = [size EXCEPT !["rela.bss"] = @ + IF g.copy THEN 1 ELSE 0]
  /\ UNCHANGED <<link, refs, count, last, got, rela, value, broken>>

---------------------------------------------------------------------------
(* riscv_elf_size_dynamic_sections.                                          *)

(* The loops over local symbols: their dynamic relocs, and their GOT entries. *)
LocalWords(h) == IF "GD" \in h.tls THEN 2 ELSE 1
LocalRelas(h) == IF Pic \/ h.tls \cap {"GD", "IE"} # {} THEN 1 ELSE 0

AddRels(sz, h) == [x \in DOMAIN sz |-> IF x \in Secs THEN sz[x] + h.rels[x].n ELSE sz[x]]

SizeLocal ==
  /\ phase = "locals"
  /\ IF k > Len(sym)
     THEN phase' = "allocate" /\ k' = 1 /\ UNCHANGED <<sym, size>>
     ELSE /\ phase' = phase /\ k' = k + 1
          /\ LET h == sym[k]
                 has == h.got > 0
             IN IF ~Null(h) THEN UNCHANGED <<sym, size>>
                ELSE /\ sym' = [sym EXCEPT ![k].got = IF has THEN size["got"] ELSE -1]
                     /\ size' = [AddRels(size, h) EXCEPT
                                   !["got"] = @ + IF has THEN LocalWords(h) ELSE 0,
                                   !["rela.got"] = @ + IF has THEN LocalRelas(h) ELSE 0]
  /\ UNCHANGED <<link, refs, count, last, got, rela, value, broken>>

(* allocate_dynrelocs.  Each part takes and gives a pair of a hash entry     *)
(* and the sizes.                                                            *)
AllocPlt(p) ==
  LET g == IF DynSections /\ p.h.plt > 0 THEN MakeDyn(p.h) ELSE p.h
  IN IF DynSections /\ p.h.plt > 0 /\ WillFinish(g)
     THEN [h |-> [g EXCEPT !.plt = p.sz["plt"], !.inplt = ~Pic /\ ~g.regular],
           sz |-> [p.sz EXCEPT !["plt"] = @ + 1, !["rela.plt"] = @ + 1]]
     ELSE [h |-> [g EXCEPT !.plt = -1, !.needs_plt = FALSE], sz |-> p.sz]

\* Mutant: one word for a GD entry.
GotWords_one(h) ==
  IF h.tls \cap {"GD", "IE"} = {} THEN 1
  ELSE (IF "GD" \in h.tls THEN 1 ELSE 0) + (IF "IE" \in h.tls THEN 1 ELSE 0)
GotWords(h) ==
  IF h.tls \cap {"GD", "IE"} = {} THEN 1
  ELSE (IF "GD" \in h.tls THEN 2 ELSE 0) + (IF "IE" \in h.tls THEN 1 ELSE 0)
GotRelas(h) ==
  IF h.tls \cap {"GD", "IE"} # {} THEN IF TlsNeedReloc(h) THEN GotWords(h) ELSE 0
  ELSE IF WillFinish(h) /\ ~UndefweakNoDyn(h) THEN 1 ELSE 0

AllocGot(p) ==
  IF p.h.got <= 0 THEN [p EXCEPT !.h.got = -1]
  ELSE LET g == MakeDyn(p.h)
       IN [h |-> [g EXCEPT !.got = p.sz["got"]],
           sz |-> [p.sz EXCEPT !["got"] = @ + GotWords(g), !["rela.got"] = @ + GotRelas(g)]]

NoRels(h) == [h EXCEPT !.rels = [sec \in Secs |-> [n |-> 0, pc |-> 0]]]
HasRels(h) == \E sec \in Secs : h.rels[sec].n > 0
DropPcrel(h) ==
  [h EXCEPT !.rels = [sec \in Secs |-> [n |-> h.rels[sec].n - h.rels[sec].pc, pc |-> 0]]]

KeptRels(h) ==
  IF ~HasRels(h) THEN h
  ELSE IF Pic
  THEN LET g == IF RefsLocal(h, TRUE) THEN DropPcrel(h) ELSE h
       IN IF ~HasRels(g) \/ g.root # "undefweak" THEN g
          ELSE IF g.vis # "default" \/ UndefweakNoDyn(g) THEN NoRels(g)
          ELSE MakeDyn(g)
  ELSE IF ~h.non_got /\ ((h.dynamic /\ ~h.regular) \/ (DynSections /\ Undef(h)))
  THEN LET g == MakeDyn(h) IN IF g.dyn THEN g ELSE NoRels(g)
  ELSE NoRels(h)

AllocRels(p) ==
  LET g == KeptRels(p.h) IN [h |-> g, sz |-> AddRels(p.sz, g)]

IsIfunc(h) == h.type = "ifunc" /\ h.regular

AllocateDynrelocs ==
  /\ phase = "allocate"
  /\ IF k > Len(sym)
     THEN phase' = "ifunc" /\ k' = 1 /\ UNCHANGED <<sym, size>>
     ELSE /\ phase' = phase /\ k' = k + 1
          /\ LET a == AllocRels(AllocGot(AllocPlt([h |-> sym[k], sz |-> size])))
             IN IF k \notin Globals \/ IsIfunc(sym[k]) THEN UNCHANGED <<sym, size>>
                ELSE sym' = [sym EXCEPT ![k] = a.h] /\ size' = a.sz
  /\ UNCHANGED <<link, refs, count, last, got, rela, value, broken>>

(* _bfd_elf_allocate_ifunc_dyn_relocs, global symbols before local ones.     *)
IfuncPlt == IF DynSections THEN "rela.plt" ELSE "rela.iplt"
IfuncRels ==   \* where the relocs of pointers go
  IF Pic THEN "rela.ifunc" ELSE IF DynSections THEN "rela.got" ELSE "rela.iplt"
IfuncGot == IF DynSections THEN "rela.got" ELSE "rela.iplt"

AllocIfunc(h0, sz0) ==
  LET need0 == h0.plt <= 0 \/ Pic
      keep  == need0 /\ HasRels(h0)
      pcrel == keep /\ \E sec \in Secs : h0.rels[sec].pc > 0
      usePlt == h0.plt > 0 \/ pcrel
      need  == IF pcrel THEN Pic ELSE need0
      h1    == [h0 EXCEPT !.non_got = @ \/ keep]
      h2    == IF need /\ h1.non_got THEN h1 ELSE NoRels(h1)
      n     == h2.rels["text"].n + h2.rels["rodata"].n + h2.rels["data"].n
      sz1   == IF usePlt THEN [sz0 EXCEPT !["plt"] = @ + 1, ![IfuncPlt] = @ + 1] ELSE sz0
      sz2   == [sz1 EXCEPT ![IfuncRels] = @ + n]
      viaGotplt ==
        usePlt /\ \/ h0.got <= 0
                  \/ Pic /\ (~h0.dyn \/ h0.forced)
                  \/ ~Pic /\ ~h0.eq
                  \/ link.mode = "pie"
      own   == ~viaGotplt /\ h0.got > 0
  IN IF ~keep /\ h0.plt <= 0 /\ h0.got <= 0
     THEN [h |-> [NoRels(h0) EXCEPT !.plt = -1, !.got = -1], sz |-> sz0]
     ELSE [h |-> [h2 EXCEPT !.plt = IF usePlt THEN sz0["plt"] ELSE -1,
                            !.got = IF own THEN sz2["got"] ELSE -1],
           sz |-> IF ~own THEN sz2
                  ELSE [sz2 EXCEPT !["got"] = @ + 1,
                                   ![IfuncGot] = @ + IF need THEN 1 ELSE 0]]

AllocateIfunc ==
  /\ phase \in {"ifunc", "local_ifunc"} /\ k <= Len(sym)
  /\ LET mine == IF phase = "ifunc" THEN Globals ELSE LocalIfuncs
         a == AllocIfunc(sym[k], size)
     IN IF k \in mine /\ IsIfunc(sym[k])
        THEN sym' = [sym EXCEPT ![k] = a.h] /\ size' = a.sz
        ELSE UNCHANGED <<sym, size>>
  /\ k' = k + 1
  /\ UNCHANGED <<link, refs, phase, count, last, got, rela, value, broken>>

(* last_iplt_index is taken from the count of .rela.iplt, then the counts    *)
(* of all .rela sections start again.                                        *)
EndSizing ==
  /\ phase \in {"ifunc", "local_ifunc"} /\ k > Len(sym)
  /\ k' = 1
  /\ IF phase = "ifunc" THEN phase' = "local_ifunc" /\ UNCHANGED <<last, count>>
     ELSE /\ phase' = "relocate"
          /\ last' = size["rela.iplt"] - 1
          /\ count' = [x \in RelaSecs |-> 0]
  /\ UNCHANGED <<link, refs, sym, size, got, rela, value, broken>>

---------------------------------------------------------------------------
(* riscv_elf_relocate_section: one reloc.  An effect is the hash entry after *)
(* it, the GOT words written, the entries appended to one .rela section (as  *)
(* <<place, type>>), the value put at the reference, whether an error was    *)
(* reported, and the assertions that failed.                                 *)

Unresolved(h) == h.dynamic /\ ~h.regular /\ ~h.inplt /\ ~h.copy
LinkValue(h) ==
  IF h.inplt THEN "plt" ELSE IF h.copy THEN "copy" ELSE IF h.regular THEN "addr" ELSE "zero"

Effect(h, v) ==
  [h |-> h, got |-> {}, sec |-> "rela.got", es |-> <<>>, v |-> v, err |-> FALSE, bad |-> {}]
Word(at, v) == [at |-> at, v |-> v]

RelocIfunc(h, r) ==
  LET e == Effect(h, "plt")
      here == <<"ref", k>>
  IN CASE r.t = "W" /\ ((Pic /\ h.non_got) \/ h.plt = -1) ->
            [e EXCEPT !.v = "zero", !.sec = IfuncRels,
                      !.es = <<<<here, IF ~h.dyn \/ h.forced \/ ~Dll THEN "IRELATIVE" ELSE "NN">>>>]
       [] r.t = "GOT" ->
            [e EXCEPT !.v = IF h.got = -1 THEN <<"gotplt", h.plt>> ELSE <<"got", h.got>>]
       [] r.t \in {"CALL", "PCREL", "HI", "W"} /\ h.plt # -1 -> e
       [] OTHER -> [e EXCEPT !.err = TRUE]

RelocGot(h) ==
  LET e == Effect([h EXCEPT !.done = TRUE], <<"got", h.got>>)
      slot == <<"got", h.got>>
      bad == IF h.got = -1 THEN {"offset"} ELSE {}
  IN IF Null(h)
     THEN IF h.done THEN e
          ELSE IF Pic THEN [e EXCEPT !.got = {Word(h.got, "zero")}, !.es = <<<<slot, "RELATIVE">>>>,
                                     !.bad = bad]
          ELSE [e EXCEPT !.got = {Word(h.got, "addr")}, !.bad = bad]
     ELSE IF ~ResolvedLocally(h) THEN [e EXCEPT !.h = h, !.bad = bad]
     ELSE [e EXCEPT !.got = IF h.done THEN {} ELSE {Word(h.got, LinkValue(h))},
                    !.err = Unresolved(h), !.bad = bad]

RelocWord(h, r) ==
  LET skip == ~Null(h) /\ h.abs /\ (h.forced \/ ~h.dyn)
      t == IF skip THEN "NONE" ELSE IF CopyInputReloc(h) THEN "SYM" ELSE "RELATIVE"
  IN IF GenerateDynamicReloc(h)
     THEN [Effect(h, IF skip THEN LinkValue(h) ELSE "zero") EXCEPT
             !.sec = r.sec, !.es = <<<<<<"ref", k>>, t>>>>]
     ELSE [Effect(h, LinkValue(h)) EXCEPT !.err = Unresolved(h)]

RelocCall(h) ==
  LET weak == h.root = "undefweak" /\ (~Pic \/ h.plt = -1)
      e == Effect(h, IF weak THEN "zero" ELSE LinkValue(h))
  IN IF ~Pic \/ Null(h) THEN [e EXCEPT !.err = Unresolved(h)]
     ELSE IF h.plt # -1 THEN [e EXCEPT !.v = "plt"]
     ELSE [e EXCEPT !.err = \/ Unresolved(h)
                            \/ ~RefsLocal(h, FALSE) /\ h.vis = "default"]

(* The words of a TLS symbol are all written at its first reloc, GD or IE.   *)
RelocTls(h, r) ==
  LET need == TlsNeedReloc(h)
      indx == TlsIndexed(h)
      ie   == IF {"GD", "IE"} \subseteq h.tls THEN 2 ELSE 0
      at(n) == <<"got", h.got + n>>
      gdRels == IF ~need THEN <<>>
                ELSE IF indx THEN <<<<at(0), "DTPMOD">>, <<at(1), "DTPREL">>>>
                ELSE <<<<at(0), "DTPMOD0">>>>
      gdWords == {Word(h.got, IF need THEN "zero" ELSE "module1"),
                  Word(h.got + 1, IF need /\ indx THEN "zero" ELSE "dtpoff")}
      ieRels == IF need THEN <<<<at(ie), IF indx THEN "TPREL" ELSE "TPREL0">>>> ELSE <<>>
      ieWords == {Word(h.got + ie, IF need THEN "zero" ELSE "tpoff")}
      gd == "GD" \in h.tls
      isIe == "IE" \in h.tls
      e == Effect([h EXCEPT !.done = TRUE], at(IF r.t = "IE" THEN ie ELSE 0))
  IN IF h.done THEN e
     ELSE [e EXCEPT !.got = (IF gd THEN gdWords ELSE {}) \cup (IF isIe THEN ieWords ELSE {}),
                    !.es = (IF gd THEN gdRels ELSE <<>>) \o (IF isIe THEN ieRels ELSE <<>>),
                    !.bad = (IF gd /\ need /\ ~indx /\ Unresolved(h) THEN {"unresolved"} ELSE {})
                            \cup (IF h.got = -1 THEN {"offset"} ELSE {})]

Relocated(h, r) ==
  CASE IsIfunc(h) -> RelocIfunc(h, r)
    [] ~IsIfunc(h) /\ r.t = "GOT" -> RelocGot(h)
    [] ~IsIfunc(h) /\ r.t = "W" -> RelocWord(h, r)
    [] ~IsIfunc(h) /\ r.t = "CALL" -> RelocCall(h)
    [] ~IsIfunc(h) /\ r.t \in {"GD", "IE"} -> RelocTls(h, r)
    [] ~IsIfunc(h) /\ r.t \in {"PCREL", "HI"} ->
         [Effect(h, LinkValue(h)) EXCEPT !.err = Unresolved(h)]

Put(ws, s) ==
  {w \in got : \A x \in ws : ~(w.at = x.at /\ w.s = s)}
    \cup {[at |-> x.at, s |-> s, v |-> x.v] : x \in ws}
Entry(sec, i, at, t, s) == [sec |-> sec, i |-> i, at |-> at, t |-> t, s |-> s]

(* riscv_elf_append_rela: the place comes from reloc_count alone.            *)
Appended(cnt, sec, es, s) ==
  {Entry(sec, cnt[sec] + j - 1, es[j][1], es[j][2], s) : j \in DOMAIN es}

RelocateReference ==
  /\ phase = "relocate" /\ k <= Len(refs)
  /\ LET r == refs[k]
         e == Relocated(sym[r.s], r)
     IN /\ sym' = [sym EXCEPT ![r.s] = e.h]
        /\ got' = Put(e.got, r.s)
        /\ rela' = rela \cup Appended(count, e.sec, e.es, r.s)
        /\ count' = [count EXCEPT ![e.sec] = @ + Len(e.es)]
        /\ value' = [value EXCEPT ![k] = e.v]
        /\ broken' = broken \cup e.bad
        /\ phase' = (IF e.err THEN "failed" ELSE phase)
  /\ k' = k + 1
  /\ UNCHANGED <<link, refs, size, last>>

---------------------------------------------------------------------------
(* elf_link_output_extsym calls riscv_elf_finish_dynamic_symbol; local       *)
(* ifuncs follow (riscv_elf_finish_local_dynamic_symbol).                    *)

Finishes(h) ==
  \/ IsIfunc(h)
  \/ /\ h.dyn \/ h.forced
     /\ (Pic /\ (h.vis = "default" \/ h.root # "undefweak")) \/ ~h.forced
     /\ DynSections

FinishPltFails(h) == h.plt # -1 /\ ~h.dyn /\ ~((h.forced \/ ~Dll) /\ IsIfunc(h))

FinishPlt(h, s) ==
  IF h.plt = -1 THEN {}
  ELSE {Entry(IfuncPlt, h.plt, <<"gotplt", h.plt>>,
              IF ~h.dyn \/ ((~Dll \/ h.vis # "default") /\ IsIfunc(h))
              THEN "IRELATIVE" ELSE "JUMP_SLOT", s)}

HasGot(h) == h.got # -1 /\ h.tls \cap {"GD", "IE"} = {} /\ ~UndefweakNoDyn(h)

(* The GOT entry of an ifunc with a PLT in a position dependent executable   *)
(* is the PLT entry; every other one gets a dynamic reloc.                   *)
GotIsPlt(h) == IsIfunc(h) /\ h.plt # -1 /\ ~Pic
GotReloc(h) ==
  IF IsIfunc(h) /\ h.plt = -1 /\ RefsLocal(h, FALSE) THEN "IRELATIVE"
  ELSE IF ~IsIfunc(h) /\ Pic /\ RefsLocal(h, FALSE) THEN "RELATIVE"
  ELSE "NN"
FromTheEnd(h) == IsIfunc(h) /\ h.plt = -1 /\ ~DynSections

(* The place of the reloc: .rela.iplt is filled from its end, since PLT      *)
(* entries are put into it by their index and do not raise reloc_count.      *)
GotIndex(h) == IF FromTheEnd(h) THEN last ELSE count["rela.got"]

GotBroken(h) ==
  IF GotIsPlt(h) THEN IF h.eq THEN {} ELSE {"abort"}
  ELSE CASE GotReloc(h) = "RELATIVE" -> IF h.done THEN {} ELSE {"not initialized"}
         [] GotReloc(h) = "NN" -> (IF h.done THEN {"initialized"} ELSE {})
                                    \cup (IF h.dyn THEN {} ELSE {"dynindx"})
         [] GotReloc(h) = "IRELATIVE" -> {}

FinishSymbol(s) ==
  LET h == sym[s]
      slot == <<"got", h.got>>
      viaRela == HasGot(h) /\ ~GotIsPlt(h)
      gotEntry == IF viaRela THEN {Entry(IF FromTheEnd(h) THEN "rela.iplt" ELSE "rela.got",
                                         GotIndex(h), slot, GotReloc(h), s)} ELSE {}
      copyEntry == IF h.copy THEN {Entry("rela.bss", count["rela.bss"], <<"bss", s>>, "COPY", s)}
                   ELSE {}
  IN /\ rela' = rela \cup FinishPlt(h, s) \cup gotEntry \cup copyEntry
     /\ got' = IF HasGot(h)
               THEN Put({Word(h.got, IF GotIsPlt(h) THEN "plt" ELSE "zero")}, s) ELSE got
     /\ last' = IF viaRela /\ FromTheEnd(h) THEN last - 1 ELSE last
     /\ count' = [count EXCEPT !["rela.got"] = @ + IF viaRela /\ ~FromTheEnd(h) THEN 1 ELSE 0,
                               !["rela.bss"] = @ + IF h.copy THEN 1 ELSE 0]
     /\ broken' = broken \cup (IF HasGot(h) THEN GotBroken(h) ELSE {})
                         \cup (IF h.copy /\ ~h.dyn THEN {"dynindx"} ELSE {})
                         \cup (IF FinishPltFails(h) THEN {"plt"} ELSE {})
     /\ phase' = IF FinishPltFails(h) THEN "failed" ELSE phase

FinishDynamicSymbol ==
  /\ phase \in {"finish", "finish_local"} /\ k <= Len(sym)
  /\ LET mine == IF phase = "finish" THEN Globals ELSE LocalIfuncs
     IN IF k \in mine /\ Finishes(sym[k]) THEN FinishSymbol(k)
        ELSE UNCHANGED <<rela, got, last, count, broken, phase>>
  /\ k' = k + 1
  /\ UNCHANGED <<link, refs, sym, size, value>>

NextWalk ==
  \/ /\ phase = "relocate" /\ k > Len(refs) /\ phase' = "finish"
  \/ /\ phase = "finish" /\ k > Len(sym) /\ phase' = "finish_local"
  \/ /\ phase = "finish_local" /\ k > Len(sym) /\ phase' = "done"

EnterWalk ==
  /\ NextWalk /\ k' = 1
  /\ UNCHANGED <<link, refs, sym, size, count, last, got, rela, value, broken>>

---------------------------------------------------------------------------
(* What can be linked without an undefined-symbol error: shared libraries    *)
(* only in dynamic links, undefined symbols only in shared libraries and     *)
(* with default visibility.                                                  *)
Linkable(kd, l) ==
  /\ kd.shared \/ kd.def = "dynamic" => l.mode # "static"
  /\ kd.def = "undefined" => l.mode \in {"dll", "symbolic"} /\ kd.vis = "default"

Init ==
  /\ link \in Links
  /\ \E us \in [1..Symbols -> Uses] :
       /\ Considered(link, us)
       /\ \A s \in DOMAIN us : Linkable(us[s].kd, link)
       /\ sym = [s \in DOMAIN us |-> NewSym(us[s].kd, link)]
       /\ refs = FlattenSeq([s \in DOMAIN us |-> [j \in DOMAIN us[s].xs |->
                   [s |-> s, t |-> us[s].xs[j][1], sec |-> us[s].xs[j][2]]]])
  /\ value = [r \in DOMAIN refs |-> "none"]
  /\ phase = "check" /\ k = 1
  /\ size = [x \in RelaSecs \cup {"got", "plt"} |-> IF x = "got" THEN 1 ELSE 0]
  /\ count = [x \in RelaSecs |-> 0] /\ last = -1
  /\ got = {} /\ rela = {} /\ broken = {}

Finished == phase \in {"done", "failed"} /\ UNCHANGED vars

Next ==
  \/ CheckReloc \/ RecordAssignments \/ AdjustDynamicSymbol
  \/ SizeLocal \/ AllocateDynrelocs \/ AllocateIfunc \/ EndSizing
  \/ RelocateReference \/ FinishDynamicSymbol \/ EnterWalk
  \/ Finished

Spec == Init /\ [][Next]_vars

---------------------------------------------------------------------------
(* Every .rela entry lies in the room that was reserved for its section, and  *)
(* every GOT word in .got.  riscv_elf_append_rela and bfd_put do not check.  *)
WritesFit ==
  /\ \A e \in rela : e.i >= 0 /\ e.i < size[e.sec]
  /\ \A w \in got : w.at >= 1 /\ w.at < size["got"]

(* No entry of a .rela section is written over, although three writers fill  *)
(* .rela.iplt: by PLT index, by reloc_count and from the end.                *)
EntriesKept == \A e, f \in rela : e.sec = f.sec /\ e.i = f.i => e = f

(* Two symbols never share a word of the GOT.                                *)
SlotsApart == \A w, x \in got : w.at = x.at => w.s = x.s

(* No BFD_ASSERT, abort or null pointer of the walks is met, and             *)
(* finish_dynamic_symbol does not give up: what it needs (dynindx, the       *)
(* initialized bit) was arranged by the walks before it.                     *)
NoInternalError == broken = {}

(* What a word holds when the dynamic linker has applied its relocs.         *)
Relocs(at) == {e \in rela : e.at = at}
Loaded(h, content, at) ==
  LET ts == {e.t : e \in Relocs(at)} \ {"NONE"}
  IN IF Cardinality(Relocs(at)) > 1 THEN "two relocs"
     ELSE IF ts = {} THEN
          CASE content = "addr" -> IF Pic /\ ~h.abs THEN "unbiased" ELSE "self"
            [] content \in {"module1", "tpoff"} -> IF Dll THEN "wrong" ELSE "self"
            [] content = "dtpoff" -> "self"
            [] OTHER -> content
     ELSE IF ts = {"RELATIVE"} THEN IF h.abs \/ ~h.regular THEN "biased" ELSE "self"
     ELSE IF ts \in {{"DTPMOD0"}, {"TPREL0"}} THEN "self"
     ELSE IF ts = {"IRELATIVE"} THEN "resolved"
     ELSE IF h.dyn THEN "lookup" ELSE "no symbol"

Preemptible(h) == Dll /\ ~Symbolic /\ h.dyn /\ ~h.forced /\ h.vis = "default"

(* What a reference to the symbol must amount to.  A position dependent      *)
(* executable may take an undefined weak symbol for absent, or for its PLT.  *)
(* One in thread local storage has no address to take.                       *)
Meant(h) ==
  CASE IsIfunc(h) -> IF Preemptible(h) THEN {"lookup"} ELSE {"resolved", "plt", "lookup"}
    [] ~IsIfunc(h) /\ (Preemptible(h) \/ h.root = "undefined") -> {"lookup"}
    [] ~IsIfunc(h) /\ h.regular /\ ~Preemptible(h) -> {"self", "lookup"}
    [] h.dynamic /\ ~h.regular /\ ~Dll -> {"lookup", "plt", "copy"}
    [] h.root = "undefweak" /\ ~Preemptible(h) ->
         IF h.dyn /\ Pic THEN {"lookup"} ELSE {"zero", "plt", "lookup"}
    [] OTHER -> {"lookup"}

GotContent(at) == (CHOOSE w \in got : w.at = at).v
Filled(at) == \E w \in got : w.at = at

Reached(r) ==
  LET h == sym[refs[r].s]
      v == value[r]
      weak == h.root = "undefweak" /\ h.type = "tls"
  IN CASE refs[r].t \in {"GOT", "IE"} /\ v[1] = "got" /\ ~weak ->
            Filled(v[2]) /\ Loaded(h, GotContent(v[2]), v) \in Meant(h)
       [] refs[r].t = "GD" /\ ~weak ->
            \A n \in 0..1 : LET w == <<"got", v[2] + n>>
                             IN Filled(w[2]) /\ Loaded(h, GotContent(w[2]), w) \in Meant(h)
       [] refs[r].t = "GOT" /\ v[1] = "gotplt" -> Loaded(h, "zero", v) \in Meant(h)
       [] refs[r].t = "W" -> Loaded(h, v, <<"ref", r>>) \in Meant(h)
       [] refs[r].t = "CALL" /\ v = "plt" -> Loaded(h, "zero", <<"gotplt", h.plt>>) \in Meant(h)
       [] refs[r].t = "CALL" /\ v # "plt" -> v \in {"addr", "zero"} /\ ~Preemptible(h)
       [] OTHER -> TRUE

(* A link without an error gives every word and call the symbol it means: a   *)
(* definition of the output itself with the load address added, or the one   *)
(* the dynamic linker finds when another module may define it.               *)
RunTimeRight == phase = "done" => \A r \in DOMAIN refs : Reached(r)
=============================================================================
