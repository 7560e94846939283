----------------------------- MODULE RelaxHiLo -----------------------------
(***************************************************************************)
(* Relaxation of address pairs: LUI/LO12, AUIPC/PCREL_LO12 and TPREL.      *)
(*                                                                         *)
(* _bfd_riscv_relax_section (bfd/elfnn-riscv.c) looks at one reloc after   *)
(* the other.  The high part of a pair is deleted when the symbol is near  *)
(* x0 or gp, and each low part is turned into R_RISCV_GPREL by a decision  *)
(* of its own.  No step looks at the pair, so the pair survives only if    *)
(* all its decisions agree; and a decision is never taken back, although   *)
(* the symbol and gp both move until relocate_section reads them.          *)
(*                                                                         *)
(* What the decisions read is kept in places that outlive one reloc: the   *)
(* local reserve_size, the pcgp tables of the visit, and the cached        *)
(* max_alignment_for_gp of the link.  They are the state of this module.   *)
(*                                                                         *)
(* Each output section has one input section.  What relax_call and         *)
(* relax_align delete in the sections with code is left open up to a       *)
(* bound.  The unit of length is the two-byte parcel.                      *)
(*                                                                         *)
(* The layout is that of the default linker script: the data segment       *)
(* begins at DATA_SEGMENT_ALIGN, which one trip computes in two walks      *)
(* over the sections, and gp is computed from three addresses that move.   *)
(***************************************************************************)
EXTENDS Integers, Sequences

CONSTANTS
    NOut,       \* output sections 1..NOut in script order
    CodeOrMerge,\* output sections with SEC_CODE or SEC_MERGE
    DataFirst,  \* the section behind DATA_SEGMENT_ALIGN
    RelroLast,  \* the section before DATA_SEGMENT_RELRO_END
    DataSec, SdataSec,         \* sections of __DATA_BEGIN__ and __SDATA_BEGIN__
    Relocs,     \* the relocs of all links
    Type0,      \* the type of each reloc in the object
    Sym,        \* the symbol of each reloc
    Addend,     \* r_addend of each reloc
    Paired,     \* Paired[r]: an R_RISCV_RELAX follows at the same offset
    HiOf,       \* HiOf[r]: the high part a low part belongs to
    Symbols,    \* records [sec, val, size, func, tpoff]; sec 0: undefined weak
    Links,      \* what the command line and the objects fix: records as below
    CLuiMax,    \* pages C.LUI reaches
    RelaxGp, UseRvc, Pic       \* --relax-gp, EF_RISCV_RVC, -shared/-pie

VARIABLE link   \* the link of this behaviour, a member of DOMAIN Links

Align   == Links[link].align    \* alignment of each output section
Body    == Links[link].body     \* the relocs of each section, in order
Sizes   == Links[link].sizes    \* possible initial sizes
CallCut == Links[link].cut      \* parcels pass 0 may delete at calls of each section
Nops    == Links[link].nops     \* parcels of the R_RISCV_ALIGN NOPs, 0 for none
FixedRd == Links[link].fixedRd  \* LUIs that write x0 or sp, which C.LUI cannot
GpSec   == Links[link].gpSec    \* section of an object's __global_pointer$,
GpOff   == Links[link].gpOff    \*   and its offset; GpSec 0 if the script's
Starts  == Links[link].starts   \* as in RelaxLayout: one start for each round
IReach  == Links[link].reach    \* half the reach of an I immediate
Relro   == Links[link].relro    \* -z relro

Rounds == Len(Starts)
Outs  == 1 .. NOut
Page  == 2 * IReach            \* ELF_MAXPAGESIZE is the reach of the low part
Unset == -1
Sizing == -1                   \* value of pass in the sizing before relaxation
Final  == 2                    \* and in the one after it
HiLen == 2

AlignUp(x, a) == ((x + a - 1) \div a) * a

ValidI(x) == -IReach <= x /\ x < IReach                    \* VALID_ITYPE_IMM
HighPart(x) == ((x + IReach) \div Page) * Page             \* RISCV_CONST_HIGH_PART
ValidCLui(x) == x # 0 /\ -(CLuiMax + 1) * Page <= x /\ x <= CLuiMax * Page

HiTypes == {"HI20", "PCHI", "TPHI", "TPADD"}
LoTypes == {"LO12", "PCLO", "TPLO"}

ASSUME SectionsAssumption ==
    /\ NOut \in Nat \ {0} /\ CodeOrMerge \subseteq Outs
    /\ {DataFirst, RelroLast, DataSec, SdataSec} \subseteq Outs /\ DataFirst <= RelroLast
    /\ CLuiMax \in Nat /\ {RelaxGp, UseRvc, Pic} \subseteq BOOLEAN

\* A section holds its instructions, call parcels and NOPs.
ASSUME LinksAssumption ==
    \A l \in DOMAIN Links : LET k == Links[l] IN
       /\ k.gpSec \in 0 .. NOut /\ k.gpOff \in Nat /\ k.reach \in Nat \ {0}
       /\ k.align \in [Outs -> Nat \ {0}]
       /\ k.body \in [Outs -> Seq(Relocs)] /\ k.fixedRd \subseteq Relocs
       /\ k.cut \in [Outs -> Nat] /\ k.nops \in [Outs -> Nat]
       /\ k.starts \in Seq(Nat) \ {<< >>} /\ k.relro \in BOOLEAN
       /\ \A z \in k.sizes : z \in [Outs -> Nat]
       /\ \A z \in k.sizes, o \in Outs :
             HiLen * Len(k.body[o]) + k.cut[o] + k.nops[o] <= z[o]

\* Symbols are data, or labels in the code that only %pcrel_lo refers to; a
\* low part is marked for relaxation when its high part is.
ASSUME RelocsAssumption ==
    /\ Type0 \in [Relocs -> HiTypes \cup LoTypes] /\ Sym \in [Relocs -> DOMAIN Symbols]
    /\ \A s \in DOMAIN Symbols :
          Symbols[s] \in [sec : 0 .. NOut, val : Nat, size : Nat, func : BOOLEAN, tpoff : Nat]
    /\ Addend \in [Relocs -> Nat] /\ Paired \in [Relocs -> BOOLEAN]
    /\ \A r \in Relocs : Type0[r] \in LoTypes \cup {"TPADD"} =>
          HiOf[r] \in Relocs /\ Paired[r] = Paired[HiOf[r]]

\* The d parcels behind offset p of a section with alignment a lie in one block
\* that the section's alignment and the reach of the immediate respect.
InOneBlock(p, d, a, reach) ==
    \E n \in 1 .. reach : a % n = 0 /\ reach % n = 0 /\ (p % n) + d < n

\* What the compiler and the assembler see to: a relocation is in one place; the
\* low parts of a high part are in its section, name its symbol, read inside
\* it and do not carry into the high part; the low part of a function's address
\* follows directly; the label of a %pcrel_lo is a plain one.
ASSUME PairsAssumption ==
    \A l \in DOMAIN Links : LET k == Links[l] IN
       /\ \A o, p \in Outs : \A i \in DOMAIN k.body[o], j \in DOMAIN k.body[p] :
             k.body[o][i] = k.body[p][j] => o = p /\ i = j
       /\ \A o \in Outs : \A i \in DOMAIN k.body[o], r \in Relocs :
             Type0[r] \in LoTypes /\ k.body[o][i] = HiOf[r] =>
             LET h == HiOf[r]
                 s == Symbols[Sym[h]]
                 d == Addend[r] - Addend[h]
             IN /\ \E j \in DOMAIN k.body[o] :
                      k.body[o][j] = r /\ (Type0[r] = "LO12" /\ s.func => j = i + 1)
                /\ Type0[r] = "LO12" =>
                      /\ Type0[h] = "HI20" /\ Sym[r] = Sym[h]
                      /\ IF s.func THEN d = 0 ELSE d >= 0 /\ Addend[r] <= s.size
                      /\ s.sec # 0 => InOneBlock(s.val + Addend[h], d, k.align[s.sec], k.reach)
                /\ Type0[r] = "PCLO" =>
                      Type0[h] = "PCHI" /\ Symbols[Sym[r]].size = 0 /\ ~Symbols[Sym[r]].func
                /\ Type0[r] = "TPLO" =>
                      /\ Type0[h] = "TPHI" /\ Sym[r] = Sym[h]
                      /\ (s.tpoff + Addend[r] + k.reach) \div (2 * k.reach)
                           = (s.tpoff + Addend[h] + k.reach) \div (2 * k.reach)

VARIABLES
    typ,      \* what each reloc is now
    size,     \* sec->size of the input section of each output section
    osize,    \* size of the output section: 0 until the trip has placed it
    addr,     \* vma of the output sections
    cut,      \* parcels of calls that may still go
    nops,     \* parcels of NOPs that may still go
    mark,     \* parcels marked R_RISCV_DELETE in the current section
    flg0,     \* sec->sec_flg0
    reserve,  \* the local variable reserve_size
    hiTab,    \* pcgp_relocs.hi: function from high parts to [addr, sec, weak]
    loTab,    \* pcgp_relocs.lo: high parts whose low part came first
    maxGp,    \* htab->max_alignment_for_gp, Unset for -1
    first,    \* the static variable first_section, 0 for NULL
    gpabs,    \* __global_pointer$ as the script last computed it
    seg,      \* expld.dataseg.phase of this walk: "none", "adjust" or "relro"
    base,     \* expld.dataseg.base
    rend,     \* expld.dataseg.relro_end
    pass, round, phase, cur, idx, dot, again

code   == <<typ, size, cut, nops, mark, flg0>>
lay    == <<addr, osize, dot, gpabs, seg, base, rend>>
visit  == <<reserve, hiTab, loTab, idx>>
ctl    == <<pass, round, phase, cur, again>>
caches == <<maxGp, first>>
all    == <<code, lay, visit, ctl, caches>>
vars   == <<all, link>>

Least(a, b)    == IF a <= b THEN a ELSE b
Greatest(a, b) == IF a >= b THEN a ELSE b

\* Mutant: gp may reach below the data.
GpValueLow(at, end) == Least(at[SdataSec] + IReach, end - IReach)

\* __global_pointer$ of the default script: the middle of the reach from
\* .sdata, from the end of .bss, but never reaching below .data.  Its operands
\* are of different sections, so the value is absolute.
GpValue(at, end) ==
    Least(at[SdataSec] + IReach, Greatest(at[DataSec] + IReach, end - IReach))

\* riscv_global_pointer_value
gp == IF GpSec # 0 THEN addr[GpSec] + GpOff ELSE gpabs

\* symval: value and addend on top of sec_addr (sym_sec).
SymAddr(s, a) == (IF Symbols[s].sec = 0 THEN 0 ELSE addr[Symbols[s].sec] + Symbols[s].val) + a

Init ==
    /\ link \in DOMAIN Links
    /\ typ = Type0
    /\ size \in Sizes
    /\ addr = [o \in Outs |-> 0] /\ osize = [o \in Outs |-> 0]
    /\ gpabs = 0 /\ seg = "none" /\ base = 0 /\ rend = 0
    /\ cut = CallCut /\ nops = Nops /\ mark = 0
    /\ flg0 = [o \in Outs |-> FALSE]
    /\ reserve = 0 /\ hiTab = << >> /\ loTab = {}
    /\ maxGp = Unset /\ first = 0
    /\ pass = Sizing /\ round = 1 /\ phase = "open" /\ cur = 1 /\ idx = 1
    /\ dot = Starts[1] /\ again = FALSE

-----------------------------------------------------------------------------
(* The decisions *)

MaxOf(S) == CHOOSE m \in S : \A n \in S : n <= m

\* _bfd_riscv_get_max_alignment (sec, gp): output sections that begin or end
\* in the reach of gp.  Sections the trip has not placed yet have size 0.
GetMaxAlignment ==
    MaxOf({1} \cup {Align[o] : o \in {p \in Outs : \/ ValidI(addr[p] - gp)
                                                   \/ ValidI(addr[p] + osize[p] - gp)}})

\* The alignment allowance for a symbol of section sec, and the cache after it.
UsesCache(sec, weak) == ~weak /\ RelaxGp /\ sec # GpSec
CachedMax == IF maxGp = Unset THEN GetMaxAlignment ELSE maxGp
Allowance(sec, weak) ==
    IF UsesCache(sec, weak) THEN CachedMax
    ELSE IF ~weak /\ RelaxGp THEN Align[GpSec] ELSE MaxOf({Align[o] : o \in Outs})
FillCache(sec, weak) == maxGp' = IF UsesCache(sec, weak) THEN CachedMax ELSE maxGp

\* Mutant: no allowance for the rest of the object.
NearNoReserve(a, sec, weak, rsv) ==
    LET g == IF RelaxGp THEN gp ELSE 0
        m == Allowance(sec, weak)
    IN weak \/ ValidI(a) \/ (a >= g /\ ValidI(a - g + m)) \/ (a < g /\ ValidI(a - g - m))

\* Is address a of section sec in range of x0 or gp?
Near(a, sec, weak, rsv) ==
    LET g == IF RelaxGp THEN gp ELSE 0
        m == Allowance(sec, weak)
    IN \/ weak
       \/ ValidI(a)
       \/ a >= g /\ ValidI(a - g + m + rsv)
       \/ a < g /\ ValidI(a - g - m - rsv)

\* Mutant: no allowance for the section to move.
CLuiOkUnmoved(r, a) == UseRvc /\ ValidCLui(HighPart(a)) /\ r \notin FixedRd

\* Can LUI become C.LUI, allowing for the section to move by a page?
CLuiOk(r, a) ==
    /\ UseRvc
    /\ ValidCLui(HighPart(a))
    /\ ValidCLui(HighPart(a) + (IF Relro THEN 2 * Page ELSE Page))
    /\ r \notin FixedRd

Rel    == Body[cur][idx]
InLoop == phase = "relax" /\ pass = 0 /\ idx <= Len(Body[cur])

\* reserve_size after the symbol of a reloc has been looked up: what is left
\* of the object behind the addend.  A global STT_FUNC leaves it as it is.
ReserveFor(s, a) ==
    IF Symbols[s].func THEN reserve
    ELSE IF a <= Symbols[s].size THEN Symbols[s].size - a ELSE 0

Becomes(r, t) == typ' = [typ EXCEPT ![r] = t]
Delete(n)     == mark' = mark + n /\ again' = TRUE
Keep          == UNCHANGED <<typ, mark, again>>
NextReloc     == idx' = idx + 1 /\ UNCHANGED <<lay, size, cut, nops, flg0, pass, round, phase, cur, first>>

\* A reloc no relax function is for, or that no R_RISCV_RELAX follows.
SkipReloc ==
    /\ InLoop
    /\ \/ typ[Rel] \notin HiTypes \cup LoTypes
       \/ typ[Rel] \in {"PCHI", "PCLO"} /\ Pic
       \/ ~Paired[Rel]
    /\ Keep /\ NextReloc
    /\ UNCHANGED <<reserve, hiTab, loTab, maxGp>>

Relaxing(types) == InLoop /\ typ[Rel] \in types /\ Paired[Rel]

\* _bfd_riscv_relax_lui
RelaxLui ==
    LET s    == Sym[Rel]
        a    == SymAddr(s, Addend[Rel])
        sec  == Symbols[s].sec
        weak == sec = 0
        rsv  == ReserveFor(s, Addend[Rel])
        near == Near(a, sec, weak, rsv)
    IN /\ Relaxing({"HI20", "LO12"})
       /\ reserve' = rsv
       /\ FillCache(sec, weak)
       /\ \/ near /\ typ[Rel] = "LO12" /\ Becomes(Rel, "GPREL") /\ UNCHANGED <<mark, again>>
          \/ near /\ typ[Rel] = "HI20" /\ Becomes(Rel, "NONE") /\ Delete(HiLen)
          \/ ~near /\ typ[Rel] = "HI20" /\ CLuiOk(Rel, a) /\ Becomes(Rel, "RVCLUI") /\ Delete(1)
          \/ ~near /\ ~(typ[Rel] = "HI20" /\ CLuiOk(Rel, a)) /\ Keep
       /\ NextReloc
       /\ UNCHANGED <<hiTab, loTab>>

\* Mutant: the low parts met before their high part are forgotten.
LoNotSeen(h) == FALSE

\* riscv_find_pcgp_lo_reloc
LoSeen(h) == h \in loTab

\* riscv_record_pcgp_hi_reloc
RecordHi(h, rec) == hiTab' = [x \in DOMAIN hiTab \cup {h} |-> IF x = h THEN rec ELSE hiTab[x]]

\* _bfd_riscv_relax_pc for the high part.
RelaxPcHi ==
    LET s    == Sym[Rel]
        a    == SymAddr(s, Addend[Rel])
        sec  == Symbols[s].sec
        weak == sec = 0
        rsv  == ReserveFor(s, Addend[Rel])
        open == (weak \/ sec \notin CodeOrMerge) /\ ~LoSeen(Rel)
        near == open /\ Near(a, sec, weak, rsv)
    IN /\ Relaxing({"PCHI"}) /\ ~Pic
       /\ reserve' = rsv
       /\ IF open THEN FillCache(sec, weak) ELSE UNCHANGED maxGp
       /\ \/ near /\ RecordHi(Rel, [addr |-> a, sec |-> sec, weak |-> weak])
             /\ Becomes(Rel, "NONE") /\ Delete(HiLen)
          \/ ~near /\ Keep /\ UNCHANGED hiTab
       /\ NextReloc
       /\ UNCHANGED loTab

\* _bfd_riscv_relax_pc for a low part.  Its symbol is the label at the high
\* part: reserve_size is that label's, address and section are the high part's.
RelaxPcLo ==
    LET h   == HiOf[Rel]
        rsv == ReserveFor(Sym[Rel], Addend[Rel])
    IN /\ Relaxing({"PCLO"}) /\ ~Pic
       /\ reserve' = rsv
       /\ \/ /\ h \notin DOMAIN hiTab
             /\ loTab' = loTab \cup {h}
             /\ Keep /\ UNCHANGED maxGp
          \/ /\ h \in DOMAIN hiTab
             /\ LET near == Near(hiTab[h].addr, hiTab[h].sec, hiTab[h].weak, rsv)
                IN \/ near /\ Becomes(Rel, "GPREL") /\ UNCHANGED <<mark, again>>
                   \/ ~near /\ Keep
             /\ FillCache(hiTab[h].sec, hiTab[h].weak)
             /\ UNCHANGED loTab
       /\ NextReloc
       /\ UNCHANGED hiTab

\* tpoff does not move: all TLS sections move together.
TpNear(r) == HighPart(Symbols[Sym[r]].tpoff + Addend[r]) = 0

\* _bfd_riscv_relax_tls_le
RelaxTlsLe ==
    /\ Relaxing({"TPHI", "TPADD", "TPLO"})
    /\ reserve' = ReserveFor(Sym[Rel], Addend[Rel])
    /\ \/ TpNear(Rel) /\ typ[Rel] = "TPLO" /\ Becomes(Rel, "TPREL") /\ UNCHANGED <<mark, again>>
       \/ TpNear(Rel) /\ typ[Rel] # "TPLO" /\ Becomes(Rel, "NONE") /\ Delete(HiLen)
       \/ ~TpNear(Rel) /\ Keep
    /\ NextReloc
    /\ UNCHANGED <<hiTab, loTab, maxGp>>

-----------------------------------------------------------------------------
(* One visit of a section, one trip over the sections *)

\* DATA_SEGMENT_ALIGN (maxpage, maxpage), fold_segment_align.
SegmentAlign(d) ==
    CASE seg = "relro"  -> base
      [] seg = "adjust" -> AlignUp(d, Page)
      [] seg = "none"   -> AlignUp(d, Page) + (IF Relro THEN 0 ELSE d % Page)

\* lang_size_sections_1 gives the output section its address.
Open ==
    LET d == IF cur = DataFirst THEN SegmentAlign(dot) ELSE dot
    IN /\ phase = "open"
       /\ addr' = [addr EXCEPT ![cur] = AlignUp(d, Align[cur])]
       /\ dot' = AlignUp(d, Align[cur])
       /\ base' = IF cur = DataFirst /\ seg = "none" THEN d ELSE base
       /\ phase' = "enter"
       /\ UNCHANGED <<code, osize, gpabs, seg, rend, visit, caches, pass, round, cur, again>>

\* Mutant: sections are relaxed in the RELRO walk too.
EnteredAlways == Body[cur] # << >> /\ ~flg0[cur] /\ pass \in {0, 1}

\* The early returns of _bfd_riscv_relax_section, negated.
Entered == Body[cur] # << >> /\ ~flg0[cur] /\ pass \in {0, 1} /\ seg # "relro"

\* Mutant: the cache is never cleared.
EnterNoReset ==
    /\ phase = "enter" /\ Entered
    /\ first' = IF first = 0 THEN cur ELSE first
    /\ maxGp' = maxGp
    /\ reserve' = 0 /\ hiTab' = << >> /\ loTab' = {} /\ idx' = 1
    /\ phase' = "relax"
    /\ UNCHANGED <<code, lay, pass, round, cur, again>>

\* _bfd_riscv_relax_section up to the loop.
Enter ==
    /\ phase = "enter" /\ Entered
    /\ first' = IF first = 0 THEN cur ELSE first
    /\ maxGp' = IF first = cur THEN Unset ELSE maxGp
    /\ reserve' = 0 /\ hiTab' = << >> /\ loTab' = {} /\ idx' = 1
    /\ phase' = "relax"
    /\ UNCHANGED <<code, lay, pass, round, cur, again>>

\* Its early returns.
NoEnter ==
    /\ phase = "enter" /\ ~Entered
    /\ phase' = "place"
    /\ UNCHANGED <<code, lay, visit, caches, pass, round, cur, again>>

\* The relax_calls of the visit and riscv_relax_resolve_delete_relocs.
Resolve ==
    /\ phase = "relax" /\ pass = 0 /\ idx > Len(Body[cur])
    /\ \E k \in 0 .. cut[cur] :
          /\ size' = [size EXCEPT ![cur] = @ - mark - k]
          /\ cut' = [cut EXCEPT ![cur] = @ - k]
          /\ again' = (again \/ k > 0)
    /\ mark' = 0
    /\ phase' = "place"
    /\ UNCHANGED <<typ, nops, flg0, lay, visit, caches, pass, round, cur>>

\* Pass 1: each R_RISCV_ALIGN of the section is handled, once.
RelaxAligns ==
    /\ phase = "relax" /\ pass = 1
    /\ \E k \in 0 .. nops[cur] :
          /\ size' = [size EXCEPT ![cur] = @ - k]
          /\ nops' = [nops EXCEPT ![cur] = 0]
    /\ flg0' = [flg0 EXCEPT ![cur] = nops[cur] > 0]
    /\ phase' = "place"
    /\ UNCHANGED <<typ, cut, mark, lay, visit, caches, pass, round, cur, again>>

\* DATA_SEGMENT_RELRO_END, fold_segment_relro_end.
RelroEnd(d) == IF cur = RelroLast /\ seg = "relro" THEN AlignUp(d, Page) ELSE d

\* Behind the last section the script computes __global_pointer$.
Place ==
    LET d == dot + size[cur]
    IN /\ phase = "place"
       /\ dot' = RelroEnd(d)
       /\ osize' = [osize EXCEPT ![cur] = size[cur]]
       /\ rend' = IF cur = RelroLast /\ seg = "none" THEN d ELSE rend
       /\ gpabs' = IF cur = NOut THEN GpValue(addr, d) ELSE gpabs
       /\ cur' = cur + 1
       /\ phase' = IF cur = NOut THEN "walk" ELSE "open"
       /\ UNCHANGED <<code, addr, seg, base, visit, caches, pass, round, again>>

Rewalk(r) ==
    /\ phase' = "open" /\ cur' = 1 /\ dot' = Starts[r]
    /\ osize' = [o \in Outs |-> 0]

\* lang_size_segment: can a page of the data segment be saved?
SavesPage ==
    LET head == (-base) % Page
        tail == dot % Page
    IN /\ head # 0 /\ tail # 0 /\ head + tail <= Page
       /\ base \div Page # dot \div Page

SegmentWalk ==
    /\ phase = "walk" /\ seg = "none" /\ ~Relro /\ SavesPage
    /\ seg' = "adjust"
    /\ Rewalk(round)
    /\ UNCHANGED <<code, addr, gpabs, base, rend, visit, caches, pass, round, again>>

\* lang_size_relro_segment_1: from the page behind the RELRO sections back to
\* where the first of them has to begin.
RelroBase ==
    LET start[o \in DataFirst .. RelroLast + 1] ==
            IF o = RelroLast + 1 THEN AlignUp(rend, Page)
            ELSE ((start[o + 1] - size[o]) \div Align[o]) * Align[o]
    IN start[DataFirst]

RelroWalk ==
    /\ phase = "walk" /\ seg = "none" /\ Relro
    /\ seg' = "relro"
    /\ base' = RelroBase
    /\ Rewalk(round)
    /\ UNCHANGED <<code, addr, gpabs, rend, visit, caches, pass, round, again>>

TripOver == phase = "walk" /\ (seg # "none" \/ (~Relro /\ ~SavesPage))

NextTrip ==
    /\ TripOver /\ (again \/ pass < Final)
    /\ pass' = IF again THEN pass ELSE pass + 1
    /\ seg' = "none" /\ again' = FALSE
    /\ Rewalk(round)
    /\ UNCHANGED <<code, addr, gpabs, base, rend, visit, caches, round>>

LastTrip ==
    /\ TripOver /\ ~again /\ pass = Final
    /\ phase' = "done"
    /\ UNCHANGED <<code, lay, visit, caches, pass, round, cur, again>>

MapSegments ==
    /\ phase = "done" /\ round < Rounds
    /\ round' = round + 1
    /\ pass' = 0
    /\ seg' = "none" /\ again' = FALSE
    /\ Rewalk(round + 1)
    /\ UNCHANGED <<code, addr, gpabs, base, rend, visit, caches>>

Finished == phase = "done" /\ round = Rounds /\ UNCHANGED all

Step == \/ Open \/ Enter \/ NoEnter \/ SkipReloc \/ RelaxLui \/ RelaxPcHi \/ RelaxPcLo
        \/ RelaxTlsLe \/ Resolve \/ RelaxAligns \/ Place \/ SegmentWalk \/ RelroWalk
        \/ NextTrip \/ LastTrip \/ MapSegments \/ Finished

Next == Step /\ UNCHANGED link

Spec == Init /\ [][Next]_vars

-----------------------------------------------------------------------------
(* Properties *)

\* Where a relocated low part finally points.
FinalTarget(r) ==
    IF Type0[r] = "PCLO" THEN SymAddr(Sym[HiOf[r]], Addend[HiOf[r]] + Addend[r])
    ELSE SymAddr(Sym[r], Addend[r])

\* A deleted LUI, AUIPC or TPREL_HI20/TPREL_ADD leaves no low part behind that
\* still needs the register it would have set.
NoOrphanLow ==
    phase = "walk" => \A r \in Relocs :
       Type0[r] \in LoTypes /\ typ[r] = Type0[r] => typ[HiOf[r]] # "NONE"

\* Each R_RISCV_GPREL fits when relocate_section reads it: the symbol is in
\* reach of x0 or gp in the finished layout, wherever both have moved since
\* the decision.
GpReach ==
    phase = "done" => \A r \in Relocs : typ[r] = "GPREL" =>
       ValidI(FinalTarget(r)) \/ ValidI(FinalTarget(r) - gp)

\* Each C.LUI the relaxation made fits in the finished layout; a high part
\* that has become 0 is what perform_relocation turns into C.LI.
CLuiReach ==
    phase = "done" => \A r \in Relocs : typ[r] = "RVCLUI" =>
       HighPart(FinalTarget(r)) = 0 \/ ValidCLui(HighPart(FinalTarget(r)))

=============================================================================
