---------------------------- MODULE RelaxLayout ----------------------------
(***************************************************************************)
(* Linker relaxation of a whole RISC-V link: which calls are shortened,    *)
(* which bytes are deleted, and where every input section ends up.         *)
(*                                                                         *)
(* Modelled: the loop of lang_relax_sections (ld/ldlang.c) over passes and *)
(* trips, the walk of lang_size_sections_1 over the output and the input   *)
(* sections (vma of the output section first, then for each of its input   *)
(* sections: relax it, then place it), and _bfd_riscv_relax_section with   *)
(* _bfd_riscv_relax_call, _bfd_riscv_relax_align, the piecewise deletion   *)
(* of pass 0 and the immediate deletion of pass 1 (bfd/elfnn-riscv.c).     *)
(*                                                                         *)
(* The hard part is that nothing here is computed from a finished layout.  *)
(* When section `cur' is relaxed, the sections before it are already at    *)
(* their new addresses, it and its successors are still at the addresses   *)
(* of the previous trip, and the vma of its output section is new while    *)
(* the output offsets inside it are old.  A call is shortened once, from   *)
(* such a mixed picture, and is never widened again.                       *)
(*                                                                         *)
(* Unit of length: the two-byte parcel, the instruction alignment of RVC.  *)
(* A call pair is 4 parcels, JAL and LUI 2, C.J and C.LUI 1.  The even     *)
(* offsets VALID_JTYPE_IMM asks for hold by the choice of the unit.        *)
(***************************************************************************)
EXTENDS Integers

CONSTANTS
    NSec,       \* input sections 1..NSec, in the order of the linker script
    OutSec,     \* OutSec[s]: the output section of input section s
    SecAlign,   \* SecAlign[s]: alignment of input section s
    OutAlign,   \* OutAlign[o]: alignment of output section o
    Rvc,        \* Rvc[s]: EF_RISCV_RVC is set in the object of section s
    Calls,      \* R_RISCV_CALL relocs that are paired with R_RISCV_RELAX
    His,        \* relaxable LUI / AUIPC / TPREL instructions
    Pads,       \* R_RISCV_ALIGN relocs, each standing for its run of NOPs
    PadTo,      \* PadTo[p]: the alignment the directive of pad p asks for
    Labels,     \* symbols
    SecOf,      \* the section of an item or label; 0 is *ABS* (labels only)
    Target,     \* Target[c]: the label call c refers to
    Rd,         \* Rd[c]: link register of the call, "x0", "ra" or "other"
    Objects,    \* the input objects: records [off, size, pad, vma, ooff]
    Starts,     \* Starts[r]: first address after the headers in round r
    Rounds,     \* rounds of ldelf_map_segments
    JReach, CJReach, IReach,   \* half the reach of JAL, C.J and an I immediate
    Rv32, Pic, NoRelax         \* ARCH_SIZE == 32, -shared/-pie, --no-relax

Secs    == 1 .. NSec
OutSecs == {OutSec[s] : s \in Secs}
Items   == Calls \cup His \cup Pads
Points  == Items \cup Labels

\* s is the first input section of its output section.
First(s) == s = 1 \/ OutSec[s] # OutSec[s - 1]

CallLen == 4
HiLen   == 2
FormLen(f) == CASE f = "call" -> 4 [] f = "jal" -> 2 [] f = "lo12" -> 2 [] f = "cj" -> 1

-----------------------------------------------------------------------------
(* Alignment arithmetic *)

Divides(a, b) == b % a = 0

\* align_power, BFD_ALIGN: the next multiple of a at or above x.
AlignUp(x, a) == ((x + a - 1) \div a) * a

Pow2 == {2^k : k \in 0 .. 16}

\* The loop `while (alignment <= rel->r_addend) alignment *= 2'.
PadAlign(addend) ==
    CHOOSE a \in Pow2 : a > addend /\ \A b \in Pow2 : b > addend => a <= b

\* _bfd_riscv_get_max_alignment (sec, 0): the largest output alignment.
MaxAlign ==
    CHOOSE m \in {OutAlign[o] : o \in OutSecs} : \A o \in OutSecs : OutAlign[o] <= m

-----------------------------------------------------------------------------
(* Assumptions on the input *)

ASSUME SectionAssumption ==
    /\ NSec \in Nat \ {0}
    /\ OutSec \in [Secs -> Nat \ {0}]
    /\ \A s, t \in Secs : s <= t => OutSec[s] <= OutSec[t]

ASSUME FirstAssumption ==
    \A o \in OutSecs : \E s \in Secs : OutSec[s] = o /\ First(s)

ASSUME AlignAssumption ==
    /\ SecAlign \in [Secs -> Nat \ {0}]
    /\ OutAlign \in [OutSecs -> Nat \ {0}]
    /\ \A s \in Secs : Divides(SecAlign[s], OutAlign[OutSec[s]])
    /\ \E o \in OutSecs : \A p \in OutSecs :
          OutAlign[p] <= OutAlign[o] /\ Divides(OutAlign[p], OutAlign[o])

ASSUME PointAssumption ==
    /\ Calls \cap His = {} /\ Calls \cap Pads = {} /\ His \cap Pads = {}
    /\ Items \cap Labels = {}
    /\ SecOf \in [Points -> 0 .. NSec]
    /\ \A x \in Items : SecOf[x] # 0
    /\ Target \in [Calls -> Labels]
    /\ Rd \in [Calls -> {"x0", "ra", "other"}]
    /\ Rvc \in [Secs -> BOOLEAN]
    /\ PadTo \in [Pads -> Nat \ {0}]

ASSUME ReachAssumption ==
    /\ JReach \in Nat /\ CJReach \in Nat /\ IReach \in Nat
    /\ CJReach <= JReach

ASSUME RoundAssumption ==
    /\ Rounds \in 1 .. 10
    /\ Starts \in [1 .. Rounds -> Nat]
    /\ Rv32 \in BOOLEAN /\ Pic \in BOOLEAN /\ NoRelax \in BOOLEAN

\* The address at which an output section with alignment OutAlign[OutSec[s]]
\* and then input section s go, when the location counter is at d.
OpenAt(s, d)  == IF First(s) THEN AlignUp(d, OutAlign[OutSec[s]]) ELSE d
PlaceAt(s, d) == AlignUp(OpenAt(s, d), SecAlign[s])

\* The layout lang_size_sections computes when it relaxes nothing.
Laid(vma, ooff, sz, start) ==
    \A s \in Secs :
       LET d == IF s = 1 THEN start ELSE vma[OutSec[s - 1]] + ooff[s - 1] + sz[s - 1]
       IN /\ First(s) => vma[OutSec[s]] = OpenAt(s, d)
          /\ vma[OutSec[s]] + ooff[s] = PlaceAt(s, d)

\* Items do not overlap, lie inside their section, and no label points into
\* the middle of one.
ItemLen(o, x) == IF x \in Calls THEN CallLen ELSE IF x \in His THEN HiLen ELSE o.pad[x]

WellFormed(o) ==
    /\ o.off \in [Points -> Nat]
    /\ o.size \in [Secs -> Nat]
    /\ o.pad \in [Pads -> Nat]
    /\ o.vma \in [OutSecs -> Nat]
    /\ o.ooff \in [Secs -> Nat]
    /\ Laid(o.vma, o.ooff, o.size, Starts[1])
    /\ \A i, k \in Secs : i < k =>
          o.vma[OutSec[i]] + o.ooff[i] + o.size[i] <= o.vma[OutSec[k]] + o.ooff[k]
    /\ \A x \in Points : SecOf[x] # 0 => o.off[x] <= o.size[SecOf[x]]
    /\ \A x \in Items : o.off[x] + ItemLen(o, x) <= o.size[SecOf[x]]
    /\ \A x, y \in Items : x # y /\ SecOf[x] = SecOf[y] =>
          \/ o.off[x] + ItemLen(o, x) <= o.off[y]
          \/ o.off[y] + ItemLen(o, y) <= o.off[x]
    /\ \A x \in Items, l \in Labels : SecOf[x] = SecOf[l] =>
          \/ o.off[l] <= o.off[x]
          \/ o.off[l] >= o.off[x] + ItemLen(o, x)

\* gas raises the alignment of a section to that of its alignment directives.
PadsFit(o) ==
    \A p \in Pads : /\ PadAlign(o.pad[p]) = PadTo[p]
                    /\ Divides(PadTo[p], SecAlign[SecOf[p]])

ASSUME ObjectAssumption == \A o \in Objects : WellFormed(o) /\ PadsFit(o)

-----------------------------------------------------------------------------
(* State *)

VARIABLES
    off,     \* r_offset of an item, st_value of a label
    len,     \* parcels an item occupies in its section's contents
    form,    \* what a call has become: "call", "jal", "cj" or "lo12"
    mark,    \* parcels at the end of an item marked R_RISCV_DELETE
    live,    \* live[p]: the R_RISCV_ALIGN reloc has not been handled
    size,    \* sec->size
    vma,     \* vma of the output sections
    ooff,    \* output_offset of the input sections
    flg0,    \* sec->sec_flg0: an R_RISCV_ALIGN of the section was handled
    pass,    \* link_info.relax_pass; 2 is the sizing after the last pass
    round,   \* iteration of ldelf_map_segments
    phase,   \* where the walk stands
    cur,     \* the input section the walk is at
    dot,     \* the location counter
    again,   \* some section of this trip asked for another one
    hist     \* hist[c]: the picture from which call c was shortened (history)

code == <<off, len, form, mark, live, size, flg0, hist>>
lay  == <<vma, ooff>>
ctl  == <<pass, round, phase, cur, dot, again>>
vars == <<code, lay, ctl>>

Phases == {"open", "relax", "resolve", "align", "place", "trip", "done", "error"}

sec_addr(s) == IF s = 0 THEN 0 ELSE vma[OutSec[s]] + ooff[s]
Addr(x)     == sec_addr(SecOf[x]) + off[x]
Here        == {x \in Items : SecOf[x] = cur}

Picture == [addr |-> [s \in Secs |-> sec_addr(s)], off |-> off, size |-> size]

Init ==
    \E o \in Objects :
       /\ off = o.off
       /\ len = [x \in Items |-> ItemLen(o, x)]
       /\ form = [c \in Calls |-> "call"]
       /\ mark = [x \in Items |-> 0]
       /\ live = [p \in Pads |-> TRUE]
       /\ size = o.size
       /\ vma = o.vma
       /\ ooff = o.ooff
       /\ flg0 = [s \in Secs |-> FALSE]
       /\ hist = [c \in Calls |-> [addr |-> [s \in Secs |-> o.vma[OutSec[s]] + o.ooff[s]],
                                   off |-> o.off, size |-> o.size]]
       /\ pass = 0 /\ round = 1 /\ phase = "open" /\ cur = 1
       /\ dot = Starts[1] /\ again = FALSE

-----------------------------------------------------------------------------
(* _bfd_riscv_relax_call *)

ValidJ(x)  == -JReach <= x /\ x < JReach       \* VALID_JTYPE_IMM
ValidCJ(x) == -CJReach <= x /\ x < CJReach     \* VALID_CJTYPE_IMM

Foff(c)      == Addr(Target[c]) - Addr(c)
near_zero(c) == -IReach <= Addr(Target[c]) /\ Addr(Target[c]) < IReach

\* Alignment between a call and its target may grow by less than this.
Margin(c) ==
    LET t == SecOf[Target[c]]
    IN IF t # 0 /\ OutSec[t] = OutSec[SecOf[c]] THEN OutAlign[OutSec[t]] ELSE MaxAlign

Widen(foff, margin) ==
    IF ~ValidJ(foff) THEN foff ELSE IF foff < 0 THEN foff - margin ELSE foff + margin

\* Mutant: no allowance for alignment.
UnpaddedFoff(c) == Foff(c)

PaddedFoff(c) == Widen(Foff(c), Margin(c))

UseRvc(c) == /\ Rvc[SecOf[c]]
             /\ ValidCJ(PaddedFoff(c))
             /\ Rd[c] = "x0" \/ (Rd[c] = "ra" /\ Rv32)

ShortForm(c) ==
    CASE ~ValidJ(PaddedFoff(c)) /\ ~(~Pic /\ near_zero(c)) -> "call"
      [] UseRvc(c)                                          -> "cj"
      [] ValidJ(PaddedFoff(c)) /\ ~UseRvc(c)                -> "jal"
      [] OTHER                                              -> "lo12"

\* The calls of the current section that this visit shortens.
Shortened == {c \in Calls \cap Here : form[c] = "call" /\ ShortForm(c) # "call"}

-----------------------------------------------------------------------------
(* Deletion *)

\* Mutant: only relocs are adjusted, symbols stay.
MovedRelocsOnly(y, x, n) ==
    IF y \in Items /\ SecOf[y] = SecOf[x] /\ off[y] > off[x] + len[x] - n
    THEN off[y] - n ELSE off[y]

\* Where a reloc or symbol y goes when the last n parcels of item x go.
Moved(y, x, n) ==
    IF SecOf[y] = SecOf[x] /\ off[y] > off[x] + len[x] - n THEN off[y] - n ELSE off[y]

\* _riscv_relax_delete_bytes for the last n parcels of item x: relocs and
\* symbols beyond the deleted place move down, the section shrinks.
DeleteTail(x, n) ==
    /\ off' = [y \in Points |-> Moved(y, x, n)]
    /\ len' = [len EXCEPT ![x] = @ - n]
    /\ size' = [size EXCEPT ![SecOf[x]] = @ - n]

-----------------------------------------------------------------------------
(* One trip: lang_size_sections_1 over the sections in script order *)

\* The output section of cur gets its address before its inputs are relaxed.
OpenOutput ==
    /\ phase = "open"
    /\ vma' = [vma EXCEPT ![OutSec[cur]] = OpenAt(cur, dot)]
    /\ dot' = OpenAt(cur, dot)
    /\ phase' = "relax"
    /\ UNCHANGED <<code, ooff, pass, round, cur, again>>

\* Mutant: a section whose alignments are done is relaxed again.
RelaxableAnyway == ~NoRelax

\* Early returns of _bfd_riscv_relax_section in pass 0.
Relaxable == ~flg0[cur] /\ ~NoRelax

\* Mutant: every visit asks for another trip.
AskAlways(cut) == TRUE

\* *again of this visit is or-ed into the trip's.
AskAgain(cut) == again \/ Shortened # {} \/ \E h \in His \cap Here : cut[h] # 0

\* _bfd_riscv_relax_section, pass 0: every reloc of the section is decided
\* on, with the section's offsets unchanged; bytes are only marked.  What
\* relax_lui, relax_pc and relax_tls_le decide is left open: each may delete
\* its instruction, and LUI may become C.LUI in an RVC object.
RelaxPass0 ==
    /\ phase = "relax" /\ pass = 0 /\ Relaxable
    /\ \E cut \in [His \cap Here -> {0, 1, HiLen}] :
          /\ \A h \in His \cap Here : /\ len[h] < HiLen => cut[h] = 0
                                      /\ cut[h] = 1 => Rvc[cur]
          /\ mark' = [x \in Items |->
                        IF x \in Shortened THEN CallLen - FormLen(ShortForm(x))
                        ELSE IF x \in His \cap Here THEN cut[x] ELSE 0]
          /\ again' = AskAgain(cut)
    /\ form' = [c \in Calls |-> IF c \in Shortened THEN ShortForm(c) ELSE form[c]]
    /\ hist' = [c \in Calls |-> IF c \in Shortened THEN Picture ELSE hist[c]]
    /\ phase' = "resolve"
    /\ UNCHANGED <<off, len, live, size, flg0, lay, pass, round, cur, dot>>

\* Mutant: a resolved R_RISCV_DELETE is not turned into R_RISCV_NONE.
KeepMark(x) == mark' = mark

ClearMark(x) == mark' = [mark EXCEPT ![x] = 0]

\* riscv_relax_resolve_delete_relocs, one R_RISCV_DELETE in reloc order.
ResolveDelete(x) ==
    /\ phase = "resolve" /\ x \in Here /\ mark[x] > 0
    /\ \A y \in Here : mark[y] > 0 => off[x] <= off[y]
    /\ DeleteTail(x, mark[x])
    /\ ClearMark(x)
    /\ UNCHANGED <<form, live, flg0, hist, lay, ctl>>

ResolveDone ==
    /\ phase = "resolve" /\ \A x \in Here : mark[x] = 0
    /\ phase' = "place"
    /\ UNCHANGED <<code, lay, pass, round, cur, dot, again>>

\* Early returns of _bfd_riscv_relax_section, and the sizing after the last
\* pass, which relaxes nothing.
SkipRelax ==
    /\ phase = "relax"
    /\ flg0[cur] \/ (pass = 0 /\ NoRelax) \/ pass = 2
    /\ phase' = "place"
    /\ UNCHANGED <<code, lay, pass, round, cur, dot, again>>

RelaxPass1 ==
    /\ phase = "relax" /\ pass = 1 /\ ~flg0[cur]
    /\ phase' = "align"
    /\ UNCHANGED <<code, lay, pass, round, cur, dot, again>>

LivePads == {p \in Pads \cap Here : live[p]}
NextPad(p) == p \in LivePads /\ \A q \in LivePads : off[p] <= off[q]

\* Mutant: an address that is already aligned is padded by a full unit.
NopLenTooMany(p) == AlignUp(Addr(p) + 1, PadAlign(len[p])) - Addr(p)

\* NOPs needed in front of what follows pad p.
NopLen(p) == AlignUp(Addr(p), PadAlign(len[p])) - Addr(p)

\* _bfd_riscv_relax_align with enough NOPs: the excess goes at once.
RelaxAlign(p) ==
    /\ phase = "align" /\ NextPad(p) /\ NopLen(p) <= len[p]
    /\ DeleteTail(p, len[p] - NopLen(p))
    /\ live' = [live EXCEPT ![p] = FALSE]
    /\ flg0' = [flg0 EXCEPT ![cur] = TRUE]
    /\ UNCHANGED <<form, mark, hist, lay, ctl>>

\* Too few NOPs: "%d bytes required for alignment", the link stops.
RelaxAlignError(p) ==
    /\ phase = "align" /\ NextPad(p) /\ NopLen(p) > len[p]
    /\ flg0' = [flg0 EXCEPT ![cur] = TRUE]
    /\ phase' = "error"
    /\ UNCHANGED <<off, len, form, mark, live, size, hist, lay, pass, round, cur, dot, again>>

AlignDone ==
    /\ phase = "align" /\ LivePads = {}
    /\ phase' = "place"
    /\ UNCHANGED <<code, lay, pass, round, cur, dot, again>>

\* Mutants: no alignment; a pad in front of every section.
PlaceUnaligned == dot
PlacePadded    == AlignUp(dot + 1, SecAlign[cur])

\* Where size_input_section puts the current section.
PlaceHere == AlignUp(dot, SecAlign[cur])

\* size_input_section
PlaceSection ==
    /\ phase = "place"
    /\ ooff' = [ooff EXCEPT ![cur] = PlaceHere - vma[OutSec[cur]]]
    /\ dot' = PlaceHere + size[cur]
    /\ cur' = cur + 1
    /\ phase' = IF cur = NSec THEN "trip"
                ELSE IF First(cur + 1) THEN "open" ELSE "relax"
    /\ UNCHANGED <<code, vma, pass, round, again>>

-----------------------------------------------------------------------------
(* lang_relax_sections and ldelf_map_segments *)

Restart(r) == /\ phase' = "open" /\ cur' = 1 /\ dot' = Starts[r] /\ again' = FALSE

\* Mutant: one trip for each pass.
NextTripOnce ==
    /\ phase = "trip" /\ (again \/ pass < 2)
    /\ pass' = pass + 1
    /\ Restart(round)
    /\ UNCHANGED <<code, lay, round>>

\* Another trip of the pass, the next pass, or the sizing after the last.
NextTrip ==
    /\ phase = "trip" /\ (again \/ pass < 2)
    /\ pass' = IF again THEN pass ELSE pass + 1
    /\ Restart(round)
    /\ UNCHANGED <<code, lay, round>>

LastTrip ==
    /\ phase = "trip" /\ ~again /\ pass = 2
    /\ phase' = "done"
    /\ UNCHANGED <<code, lay, pass, round, cur, dot, again>>

\* The program headers changed size: lang_relax_sections is called once more
\* and begins again at pass 0.
MapSegments ==
    /\ phase = "done" /\ round < Rounds
    /\ round' = round + 1
    /\ pass' = 0
    /\ Restart(round + 1)
    /\ UNCHANGED <<code, lay>>

\* ld goes on to write the output file, or has stopped with an error.
Finished ==
    /\ phase = "error" \/ (phase = "done" /\ round = Rounds)
    /\ UNCHANGED vars

Trip == \/ OpenOutput \/ RelaxPass0 \/ ResolveDone \/ SkipRelax \/ RelaxPass1
        \/ AlignDone \/ PlaceSection
        \/ \E x \in Items : ResolveDelete(x)
        \/ \E p \in Pads : RelaxAlign(p) \/ RelaxAlignError(p)

Next == Trip \/ NextTrip \/ LastTrip \/ MapSegments \/ Finished

\* ld is one sequential program: it never stops taking its next step.
Spec == Init /\ [][Next]_vars /\ WF_vars(Trip \/ NextTrip \/ LastTrip \/ MapSegments)

-----------------------------------------------------------------------------
(* Properties *)

\* The variables keep their types, and no marked parcel lies outside its item.
TypeOK ==
    /\ off \in [Points -> Nat]
    /\ len \in [Items -> Nat]
    /\ form \in [Calls -> {"call", "jal", "cj", "lo12"}]
    /\ mark \in [Items -> Nat]
    /\ live \in [Pads -> BOOLEAN]
    /\ size \in [Secs -> Nat]
    /\ vma \in [OutSecs -> Nat]
    /\ ooff \in [Secs -> Nat]
    /\ flg0 \in [Secs -> BOOLEAN]
    /\ hist \in [Calls -> [addr : [Secs -> Nat], off : [Points -> Nat], size : [Secs -> Nat]]]
    /\ pass \in 0 .. 2 /\ round \in 1 .. Rounds /\ phase \in Phases
    /\ cur \in 1 .. NSec + 1 /\ dot \in Nat /\ again \in BOOLEAN

\* Deleting bytes never makes two instructions overlap, never moves a label
\* into the middle of one, and never leaves one outside its section
\* (_riscv_relax_delete_bytes adjusts relocs, symbols and size alike).
Separated ==
    /\ \A x \in Points : SecOf[x] # 0 => off[x] <= size[SecOf[x]]
    /\ \A x \in Items : off[x] + len[x] <= size[SecOf[x]]
    /\ \A x, y \in Items : x # y /\ SecOf[x] = SecOf[y] =>
          off[x] + len[x] <= off[y] \/ off[y] + len[y] <= off[x]
    /\ \A x \in Items, l \in Labels : SecOf[x] = SecOf[l] =>
          off[l] <= off[x] \/ off[l] >= off[x] + len[x]

InRange(c) == CASE form[c] = "jal"  -> ValidJ(Foff(c))
                [] form[c] = "cj"   -> ValidCJ(Foff(c))
                [] form[c] = "lo12" -> near_zero(c)
                [] OTHER            -> TRUE

\* A call that _bfd_riscv_relax_call shortened reaches its target in the
\* finished layout, whatever moved after the decision: relocate_section never
\* meets a shortened call it has to truncate.
JumpsInRange ==
    phase = "done" => \A c \in Calls : SecOf[Target[c]] # 0 => InRange(c)

\* What follows an alignment directive is aligned in the finished layout,
\* although _bfd_riscv_relax_align measured with the section's old address
\* and sections before it moved afterwards.
PadsAligned ==
    phase = "done" => \A p \in Pads : Divides(PadTo[p], Addr(p) + len[p])

\* The link stops for want of NOPs only when an alignment assembled under
\* norvc sits in an object whose flags let the linker use 2-byte instructions.
AlignErrorOnlyIfMixed ==
    phase = "error" => \E p \in LivePads : Rvc[cur] /\ len[p] < PadTo[p] - 1

\* No step of the relaxation moves a section up, even while the addresses of
\* two trips are mixed (as long as the headers do not grow).
SectionsNeverMoveUp ==
    [][\A s \in Secs : sec_addr(s)' <= sec_addr(s)]_vars

\* Pass 0 ends at a fixpoint: in the layout with which pass 1 begins, no
\* remaining call passes the test of _bfd_riscv_relax_call.
NothingLeftToShorten ==
    phase = "open" /\ cur = 1 /\ pass = 1 /\ ~NoRelax =>
       \A c \in Calls : form[c] = "call" /\ ~flg0[SecOf[c]] => ShortForm(c) = "call"

\* The finished layout is the one a plain sizing of the relaxed sections
\* gives: nothing overlaps and no alignment between sections is lost.
FinalLayout ==
    phase = "done" => Laid(vma, ooff, size, Starts[round])

\* The relaxation comes to an end.
Terminates == <>[](phase = "error" \/ (phase = "done" /\ round = Rounds))

-----------------------------------------------------------------------------
(* The inductive invariant behind JumpsInRange *)

\* Where the location counter stands, or will stand, in front of section k.
Before(k) == IF k = 1 THEN Starts[round] ELSE sec_addr(k - 1) + size[k - 1]

\* Only the current section has marked parcels, never more than the item has,
\* and without them a call has the length of what it has become.
MarksOK ==
    /\ \A c \in Calls : len[c] = FormLen(form[c]) + mark[c]
    /\ \A x \in Items : mark[x] <= len[x]
    /\ \A x \in Items : mark[x] > 0 => phase = "resolve" /\ SecOf[x] = cur /\ x \notin Pads
    /\ \A p \in Pads : live[p] => PadAlign(len[p]) = PadTo[p]

\* The mixed picture is never tighter than a layout: each section lies at or
\* above the place the sections before it would now give it.
Loose ==
    /\ \A o \in OutSecs : Divides(OutAlign[o], vma[o])
    /\ \A k \in Secs : First(k) => ooff[k] = 0
    /\ \A k \in Secs : PlaceAt(k, Before(k)) <= sec_addr(k)
    /\ \A i, k \in Secs : i < k => sec_addr(i) + size[i] <= sec_addr(k)

\* What the walk has established when it stands at section cur.
WalkOK ==
    /\ phase \in {"open", "relax", "resolve", "align", "place"} => cur \in Secs
    /\ phase = "open" => First(cur) /\ dot = Before(cur)
    /\ phase \in {"relax", "resolve", "align", "place"} =>
          /\ dot = OpenAt(cur, Before(cur))
          /\ First(cur) => vma[OutSec[cur]] = dot
    /\ phase \in {"trip", "done"} => cur = NSec + 1

\* The picture H was itself loose.
LooseHist(H) ==
    /\ \A k \in Secs : k > 1 => PlaceAt(k, H.addr[k - 1] + H.size[k - 1]) <= H.addr[k]
    /\ \A i, k \in Secs : i < k => H.addr[i] + H.size[i] <= H.addr[k]
    /\ \A x \in Points : SecOf[x] # 0 => H.off[x] <= H.size[SecOf[x]]

\* Since H, sections moved down and shrank, and so did every distance inside
\* a section; no two points of a section changed their order.
ShrunkSince(H) ==
    /\ \A k \in Secs : sec_addr(k) <= H.addr[k] /\ size[k] <= H.size[k]
    /\ \A x \in Points : off[x] <= H.off[x]
    /\ \A x \in Points : SecOf[x] # 0 =>
          size[SecOf[x]] - off[x] <= H.size[SecOf[x]] - H.off[x]
    /\ \A x, y \in Points : SecOf[x] = SecOf[y] /\ SecOf[x] # 0 /\ H.off[x] <= H.off[y] =>
          off[x] <= off[y] /\ off[y] - off[x] <= H.off[y] - H.off[x]

HistAddr(c, x) == (IF SecOf[x] = 0 THEN 0 ELSE hist[c].addr[SecOf[x]]) + hist[c].off[x]
HistFoff(c)    == HistAddr(c, Target[c]) - HistAddr(c, c)

\* The test call c passed.
DecidedFrom(c) ==
    /\ form[c] = "jal"  => ValidJ(Widen(HistFoff(c), Margin(c)))
    /\ form[c] = "cj"   => ValidCJ(Widen(HistFoff(c), Margin(c)))
    /\ form[c] = "lo12" => HistAddr(c, Target[c]) < IReach

\* The largest multiple of the margin by which point x has moved down since
\* call c was shortened.  Every section the walk has placed between the call
\* and its target has moved down by at least as much.
Slip(c, x) == AlignUp(HistAddr(c, x) - Addr(x) - Margin(c) + 1, Margin(c))

FollowsDown(c) ==
    \A x \in {c, Target[c]}, y \in {c, Target[c]}, k \in Secs :
       0 < SecOf[x] /\ SecOf[x] < k /\ k <= SecOf[y] /\ k < cur =>
          sec_addr(k) <= hist[c].addr[k] - Slip(c, x)

HistOK ==
    \A c \in Calls : form[c] # "call" =>
       LooseHist(hist[c]) /\ ShrunkSince(hist[c]) /\ DecidedFrom(c) /\ FollowsDown(c)

\* Together: inductive when the headers do not grow from round to round, and
\* strong enough for JumpsInRange.
IInv == TypeOK /\ Separated /\ MarksOK /\ Loose /\ WalkOK /\ HistOK

HeadersShrink == \A r \in 1 .. Rounds - 1 : Starts[r + 1] <= Starts[r]

-----------------------------------------------------------------------------
(* What the other properties need besides IInv *)

HeadersFixed == \A r \in 1 .. Rounds - 1 : Starts[r + 1] = Starts[r]

\* Section k lies where the sections before it put it.
Placed(k) == /\ First(k) => vma[OutSec[k]] = OpenAt(k, Before(k))
             /\ sec_addr(k) = PlaceAt(k, Before(k))

\* The sections the walk has passed lie where it placed them.
PrefixLaid == \A k \in Secs : k < cur => Placed(k)

\* Which phases belong to which pass, and which pass may ask for a trip.
PassOK ==
    /\ phase = "resolve" => pass = 0 /\ ~flg0[cur] /\ ~NoRelax
    /\ phase \in {"align", "error"} => pass = 1
    /\ phase = "done" => pass = 2
    /\ pass # 0 => ~again

\* A handled directive is aligned inside its section, and stays so because
\* the section is not relaxed any more (sec_flg0) and the directives left in
\* it lie behind; a section keeps its alignment while it moves.
PadsOK ==
    /\ \A k \in Secs : Divides(SecAlign[k], ooff[k])
    /\ \A p \in Pads : Divides(PadTo[p], SecAlign[SecOf[p]])
    /\ \A p \in Pads : ~live[p] => flg0[SecOf[p]] /\ Divides(PadTo[p], off[p] + len[p])
    /\ \A p, q \in Pads : ~live[p] /\ live[q] /\ SecOf[p] = SecOf[q] => off[p] <= off[q]

\* No directive is left behind: what pass 1 has passed is handled.
PadsDone ==
    \A p \in Pads : live[p] =>
       /\ flg0[SecOf[p]] => SecOf[p] = cur /\ phase \in {"align", "error"}
       /\ pass # 2
       /\ pass = 1 => cur <= SecOf[p] /\ ~(SecOf[p] = cur /\ phase = "place")

\* As long as a trip of pass 0 has not changed anything, it walks over a
\* finished layout, and the calls it has passed stay as they are.
Unshortened(c) == form[c] = "call" /\ ~flg0[SecOf[c]] => ShortForm(c) = "call"

Quiet ==
    /\ pass = 0 /\ ~again =>
          /\ \A k \in Secs : Placed(k)
          /\ \A x \in Items : mark[x] = 0
          /\ ~NoRelax => \A c \in Calls :
                SecOf[c] < cur \/ (SecOf[c] = cur /\ phase \in {"resolve", "place"}) =>
                   Unshortened(c)
    /\ pass = 1 /\ phase = "open" /\ cur = 1 /\ ~NoRelax => \A c \in Calls : Unshortened(c)

\* Objects assembled without RVC have 4-byte instructions at 4-byte offsets;
\* their alignment directives leave out 4 bytes, those of the others at most 2
\* (riscv_frag_align_code), unless an object mixes the two.
Even(n) == Divides(2, n)

FourByteObject(o, s) ==
    /\ Even(SecAlign[s])
    /\ \A x \in Items : SecOf[x] = s => Even(o.off[x])
    /\ \A p \in Pads : SecOf[p] = s =>
          Even(o.pad[p]) /\ Even(PadTo[p]) /\ o.pad[p] >= PadTo[p] - 2

FourByteObjects == \A o \in Objects, s \in Secs : ~Rvc[s] => FourByteObject(o, s)

\* Relaxation keeps such an object so.
FourByteKept ==
    \A x \in Items : ~Rvc[SecOf[x]] =>
       /\ Even(SecAlign[SecOf[x]]) /\ Even(off[x]) /\ Even(len[x]) /\ Even(mark[x])
       /\ x \in Pads /\ live[x] => Even(PadTo[x]) /\ len[x] >= PadTo[x] - 2

=============================================================================
