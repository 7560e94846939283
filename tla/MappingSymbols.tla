--------------------------- MODULE MappingSymbols ---------------------------
(***************************************************************************)
(* Mapping symbols of one text section (gas/config/tc-riscv.c).  $d marks  *)
(* data, $x code, $xrv... code of another architecture.  They are made     *)
(* while lines are parsed, when nobody knows the size of an alignment yet; *)
(* some are made, replaced or removed again when the sizes are known.  A   *)
(* disassembler sees only those that are left.                             *)
(***************************************************************************)
EXTENDS Integers, Sequences, FiniteSets

CONSTANTS
    Archs,      \* architectures that .option arch selects
    Rvc,        \* those with compressed instructions
    InsnSizes,  \* sizes of instructions
    DataSizes,  \* sizes of data directives
    Aligns,     \* alignments
    Skips,      \* largest padding of an alignment, 0 for any
    Relaxes,    \* values of .option relax that lines select
    FragRoom,   \* TRUE: a frag may be full at any frag_grow
    MaxLines    \* bound on the lines of the section

ASSUME MapAssumption ==
    /\ Rvc \subseteq Archs
    /\ Relaxes \subseteq BOOLEAN /\ Relaxes # {}
    /\ InsnSizes \subseteq Nat \ {0} /\ DataSizes \subseteq Nat
    /\ Aligns \subseteq Nat \ {0}
    /\ Skips \subseteq Nat /\ FragRoom \in BOOLEAN /\ MaxLines \in Nat

\* Names of mapping symbols, without the dollar sign: $x+arch is the arch.
Names == {"d", "x"} \cup Archs

VARIABLES
    frags,      \* the frags of the section; the last one is frag_now
    syms,       \* all mapping symbols made: name, frag and offset in it
    chain,      \* those of them in the symbol chain
    mapState,   \* tc_segment_info_data.map_state: "none", "d", "x"
    archMap,    \* arch of tc_segment_info_data.arch_map_symbol, or "none"
    arch,       \* riscv_rps_as.subset_list
    relax,      \* riscv_opts.relax
    recAlign,   \* recorded alignment of the section
    lines,      \* lines parsed
    step,       \* "parse", "size", "check", "done"
    place       \* frag of the loop in "size" and "check"

mapVars == <<frags, syms, chain, mapState, archMap, arch, relax, recAlign, lines, step, place>>

\* body: what stands at each byte of the fixed part (an architecture for a
\* byte of an instruction).  pad, skip: of rs_align_code, pad = 1 otherwise.
NewFrag == [body |-> << >>, pad |-> 1, skip |-> 0, first |-> 0, last |-> 0]

Fill(k, n) == [j \in 1 .. n |-> k]

MapInit ==
    /\ frags = <<NewFrag>> /\ syms = << >> /\ chain = {}
    /\ mapState = "none" /\ archMap = "none"
    /\ arch \in Archs /\ relax \in Relaxes
    /\ recAlign = 1 /\ lines = 0 /\ step = "parse" /\ place = 1

---------------------------------------------------------------------------
(* make_mapping_symbol, riscv_mapping_state *)

\* The symbol that a new one at offset v of a frag replaces, or 0.
Replaced(fs, ss, f, v) ==
    IF v = 0 THEN fs[f].first
    ELSE IF fs[f].last # 0 /\ ss[fs[f].last].val = v THEN fs[f].last ELSE 0

\* Symbol id is at offset v of frag f.
Marked(fs, f, v, id) == [fs EXCEPT ![f].first = IF v = 0 THEN id ELSE @, ![f].last = id]

\* The state m with a new mapping symbol at offset v of frag f.
Make(m, name, f, v) ==
    LET id == Len(m.syms) + 1
    IN [m EXCEPT !.syms = Append(@, [name |-> name, frag |-> f, val |-> v]),
                 !.chain = (@ \cup {id}) \ {Replaced(m.frags, m.syms, f, v)},
                 !.frags = Marked(@, f, v, id),
                 !.archMap = IF name \in Archs THEN name ELSE @]

Maps == [frags |-> frags, syms |-> syms, chain |-> chain, archMap |-> archMap]

Becomes(m) ==
    /\ frags' = m.frags /\ syms' = m.syms /\ chain' = m.chain /\ archMap' = m.archMap

\* $x gets the arch at the first instruction of the section and where the
\* arch has changed since the last $x+arch.
\* Mutant: a change of arch inside the section goes unnoticed.
NewArchFirst(to, align) == to = "x" /\ archMap = "none"
NewArch(to, align) ==
    to = "x" /\ (archMap = "none" \/ (~ align /\ archMap # arch))

\* riscv_mapping_state on the frags m.frags, for offset v of the last one.
MapTo(m, to, v, align) ==
    IF ~ NewArch(to, align) /\ mapState = to
      THEN m
      ELSE Make(m, IF NewArch(to, align) THEN arch ELSE to, Len(m.frags), v)

\* frag_more: the bytes go to the end of frag_now, or to a new frag if that
\* one has no room.
Grown(fs, new) == IF new THEN Append(fs, NewFrag) ELSE fs
Put(fs, b) == [fs EXCEPT ![Len(fs)].body = @ \o b]

Now(m) == Len(m.frags[Len(m.frags)].body)

\* The mapping symbol is made first: it may lie at the end of a full frag.
Emit(to, kinds, new) ==
    LET m == MapTo(Maps, to, Now(Maps), FALSE)
    IN /\ Becomes([m EXCEPT !.frags = Put(Grown(@, new), kinds)])
       /\ mapState' = to

---------------------------------------------------------------------------
(* Lines *)

Line == step = "parse" /\ lines < MaxLines /\ lines' = lines + 1

\* md_assemble
Instruction(n, new) ==
    /\ Line
    /\ Emit("x", Fill(arch, n), new)
    /\ UNCHANGED <<arch, relax, recAlign, step, place>>

\* cons, s_fill, ...: md_cons_align, then the bytes.  A directive of size 0
\* asks for no room.
Data(n, new) ==
    /\ Line
    /\ n = 0 => ~ new
    /\ Emit("d", Fill("d", n), new)
    /\ UNCHANGED <<arch, relax, recAlign, step, place>>

InsnAlign == IF arch \in Rvc THEN 2 ELSE 4

\* do_align of a text section, riscv_frag_align_code: without relaxation a
\* variable frag, with relaxation as many NOPs as may be needed.
Closed(fs, n, skip) == Append([fs EXCEPT ![Len(fs)].pad = n, ![Len(fs)].skip = skip], NewFrag)
AlignFrag(m, n, skip) ==
    [MapTo(m, "x", Now(m), TRUE) EXCEPT !.frags = Closed(@, n, skip)]

\* Mutant: the symbol lies in front of the bytes that are already there.
NopFragTwice(m, nops) ==
    LET p == [m EXCEPT !.frags = Put(@, Fill("nop", nops))]
    IN [MapTo(p, "x", Now(m) - nops, TRUE) EXCEPT !.frags = Append(@, NewFrag)]
NopFrag(m, nops) ==
    [MapTo([m EXCEPT !.frags = Put(@, Fill("nop", nops))], "x", Now(m), TRUE) EXCEPT
       !.frags = Append(@, NewFrag)]

Align(n, skip, new) ==
    LET m == [Maps EXCEPT !.frags = Grown(@, new)]
    IN /\ Line
       /\ IF n <= InsnAlign
            THEN ~ new /\ UNCHANGED <<frags, syms, chain, archMap, mapState>>
            ELSE /\ Becomes(IF relax THEN NopFrag(m, n - InsnAlign) ELSE AlignFrag(m, n, skip))
                 /\ mapState' = "x"
       /\ recAlign' = IF n > recAlign THEN n ELSE recAlign
       /\ UNCHANGED <<arch, relax, step, place>>

\* .option arch, .option relax
OptionArch(a) ==
    /\ Line /\ a # arch /\ arch' = a
    /\ UNCHANGED <<frags, syms, chain, mapState, archMap, relax, recAlign, step, place>>

OptionRelax(b) ==
    /\ Line /\ b # relax /\ relax' = b
    /\ UNCHANGED <<frags, syms, chain, mapState, archMap, arch, recAlign, step, place>>

\* subsegs_finish_section: alignment of the section, then an empty frag.
Finish(new) ==
    /\ step = "parse"
    /\ Becomes(AlignFrag([Maps EXCEPT !.frags = Grown(@, new)], recAlign, 0))
    /\ mapState' = "x"
    /\ step' = "size"
    /\ UNCHANGED <<arch, relax, recAlign, lines, place>>

---------------------------------------------------------------------------
(* relax_segment, cvt_frag_to_fill: sizes and padding *)

\* Padding of a frag whose variable part begins at address a.
PadOf(fr, a) ==
    LET p == (fr.pad - (a % fr.pad)) % fr.pad
    IN IF fr.skip # 0 /\ p > fr.skip THEN 0 ELSE p

\* fr_address of each frag, from the sizes found in relax_segment.  In
\* "check" padding is part of the body.
Addr(fs) ==
    LET a[f \in 1 .. Len(fs)] ==
            IF f = 1 THEN 0
            ELSE LET e == a[f - 1] + Len(fs[f - 1].body) IN e + PadOf(fs[f - 1], e)
    IN a

PaddingOf(f) == LET a == Addr(frags) IN a[f + 1] - a[f] - Len(frags[f].body)

\* riscv_make_nops: a zero byte makes an odd length even.
Nops(n) == Fill("zero", n % 2) \o Fill("nop", n - (n % 2))

\* riscv_add_odd_padding_symbol: $d for the zero byte, and the $x that it
\* replaces again behind it.
OddPadding(m, f) ==
    LET v == Len(m.frags[f].body)
        old == Replaced(m.frags, m.syms, f, v)
        d == Make(m, "d", f, v)
    IN IF old = 0 THEN d
       ELSE Make(d, IF m.syms[old].name \in Archs THEN m.syms[old].name ELSE "x", f, v + 1)

Padded(fs, f, pad) == [fs EXCEPT ![f].body = @ \o pad, ![f].pad = 1]

\* riscv_handle_align for one frag.  With .option relax at the end of the
\* file it does nothing, and the padding is filled with zeros.
HandleAlign ==
    /\ step = "size" /\ place < Len(frags)
    /\ LET n == PaddingOf(place)
           m == IF ~ relax /\ n % 2 = 1 THEN OddPadding(Maps, place) ELSE Maps
           pad == IF relax THEN Fill("fill", n) ELSE Nops(n)
       IN Becomes([m EXCEPT !.frags = Padded(@, place, pad)])
    /\ place' = place + 1
    /\ UNCHANGED <<mapState, arch, relax, recAlign, lines, step>>

Sized ==
    /\ step = "size" /\ place = Len(frags)
    /\ step' = "check" /\ place' = 1
    /\ UNCHANGED <<frags, syms, chain, mapState, archMap, arch, relax, recAlign, lines>>

---------------------------------------------------------------------------
(* riscv_check_mapping_symbols *)

SymAddr(s) == Addr(frags)[syms[s].frag] + syms[s].val

\* The frag in which the search behind frag f ends: it has a symbol at its
\* start, it is the last one, or it is not empty.
SearchEnd(f) ==
    CHOOSE g \in f + 1 .. Len(frags) :
        LET Ends(h) == \/ frags[h].first # 0
                       \/ h = Len(frags)
                       \/ Len(frags[h].body) > 0
        IN Ends(g) /\ \A h \in f + 1 .. g - 1 : ~ Ends(h)

\* What is removed: the last symbol of f or the first one of the next frag.
ExcessOf(f) ==
    LET last == frags[f].last
        g == SearchEnd(f)
        first == frags[g].first
    IN IF last = 0 \/ SymAddr(last) < Addr(frags)[f + 1] THEN {}
       ELSE IF first # 0
              THEN {IF syms[last].name \in Archs /\ syms[first].name = "x" THEN first ELSE last}
              ELSE IF g = Len(frags) THEN {last} ELSE {}
CheckFrag ==
    /\ step = "check" /\ place < Len(frags)
    /\ chain' = chain \ ExcessOf(place)
    /\ place' = place + 1
    /\ UNCHANGED <<frags, syms, mapState, archMap, arch, relax, recAlign, lines, step>>

Checked ==
    /\ step = "check" /\ place = Len(frags)
    /\ step' = "done"
    /\ UNCHANGED <<frags, syms, chain, mapState, archMap, arch, relax, recAlign, lines, place>>

MapStopped == step = "done" /\ UNCHANGED mapVars

News == IF FragRoom THEN BOOLEAN ELSE {FALSE}

\* A step of an assembly in which data directives have the sizes given and
\* .option relax the values given.
AsStep(sizes, relaxes) ==
    \/ \E new \in News :
          \/ \E n \in InsnSizes : Instruction(n, new)
          \/ \E n \in sizes : Data(n, new)
          \/ \E n \in Aligns, s \in Skips : Align(n, s, new)
          \/ Finish(new)
    \/ \E a \in Archs : OptionArch(a)
    \/ \E b \in relaxes : OptionRelax(b)
    \/ HandleAlign \/ Sized \/ CheckFrag \/ Checked
    \/ MapStopped

MapNext == AsStep(DataSizes, Relaxes)

MapSpec == MapInit /\ [][MapNext]_mapVars

---------------------------------------------------------------------------
(* The section that is written *)

\* What stands at each byte.
Bytes ==
    LET upto[f \in 0 .. Len(frags)] == IF f = 0 THEN << >> ELSE upto[f - 1] \o frags[f].body
    IN upto[Len(frags)]

\* Its mapping symbols.
Written == {[name |-> syms[s].name, off |-> SymAddr(s)] : s \in chain}

\* "RISC-V instructions cannot begin or end on odd addresses" (comment in
\* riscv_make_nops); the assembler accepts such lines.
EvenCode ==
    LET b == Bytes
        Code == Archs \cup {"nop"}
    IN \A i \in 1 .. Len(b) : b[i] \in Code /\ (i = 1 \/ b[i - 1] \notin Code) => i % 2 = 1

\* Without relaxation at the end of the file riscv_handle_align is too late for
\* the alignments of the lines before: zeroes, not NOPs, are left between them.
ZeroPadded ==
    \E f \in 1 .. Len(frags) - 2 : \E j \in 1 .. Len(frags[f].body) : frags[f].body[j] = "fill"

---------------------------------------------------------------------------
(* Properties *)

\* The mapping symbols are in offset order (the know() of make_mapping_symbol
\* and riscv_check_mapping_symbols), also those made while sizing.
OffsetOrder ==
    \A f \in 1 .. Len(frags) :
        /\ frags[f].first # 0 => syms[frags[f].first].val = 0
        /\ \A s \in chain : syms[s].frag = f => syms[s].val <= syms[frags[f].last].val

---------------------------------------------------------------------------
(* An inductive invariant *)

Kinds == Archs \cup {"d", "nop", "zero", "fill"}
MapFrags == [body : Seq(Kinds), pad : Nat \ {0}, skip : Nat, first : Nat, last : Nat]
Symbols == [name : Names, frag : Nat, val : Nat]

\* The symbols ss have places in the frags fs; first and last of a frag are
\* one at its start and the one furthest on.
MarksFit(fs, ss) ==
    /\ fs \in Seq(MapFrags) /\ fs # << >> /\ ss \in Seq(Symbols)
    /\ \A s \in 1 .. Len(ss) :
          LET f == ss[s].frag
          IN f \in 1 .. Len(fs) /\ fs[f].last # 0 /\ ss[s].val <= ss[fs[f].last].val
    /\ \A f \in 1 .. Len(fs) :
          /\ fs[f].first # 0 => fs[f].first \in 1 .. Len(ss) /\ ss[fs[f].first].val = 0
          /\ fs[f].last # 0 => fs[f].last \in 1 .. Len(ss)

\* No symbol lies behind the bytes of its frag.
Inside(fs, ss) ==
    \A f \in 1 .. Len(fs) : fs[f].last # 0 => ss[fs[f].last].val <= Len(fs[f].body)

MapInv ==
    /\ MarksFit(frags, syms) /\ Inside(frags, syms)
    /\ chain \subseteq 1 .. Len(syms) /\ archMap \in Archs \cup {"none"}
    /\ arch \in Archs /\ recAlign \in Nat \ {0} /\ place \in Nat \ {0}
=============================================================================
