------------------------- MODULE AddressPairProofs -------------------------
(***************************************************************************)
(* Proofs about the instructions that make an address in two halves:       *)
(* RelaxHiLo, where the linker may delete the high half, for any number of *)
(* sections, relocations and symbols and any layout; GasFixups, where the  *)
(* assembler or the linker fills in the halves, for files of any length and*)
(* symbols at any distance.                                                *)
(***************************************************************************)
EXTENDS RelaxHiLo, GasFixups, FiniteSetTheorems, WellFoundedInduction, TLAPS

-----------------------------------------------------------------------------
(* Numbers *)

\* Every set of naturals that is not empty has a least member.
LEMMA LeastNumber ==
    ASSUME NEW S \in SUBSET Nat, S # {}
    PROVE  \E m \in S : \A k \in S : m <= k
<1> DEFINE T == {1 .. n : n \in S}
<1>1. IsWellFoundedOn(StrictSubsetOrdering(Nat), FiniteSubsetsOf(Nat))
  BY FS_StrictSubsetOrderingWellFounded
<1>2. T \subseteq FiniteSubsetsOf(Nat)
  <2>1. ASSUME NEW n \in S PROVE IsFiniteSet(1 .. n) /\ 1 .. n \in SUBSET Nat
    BY FS_Interval
  <2> QED BY <2>1 DEF FiniteSubsetsOf
<1>3. T # {}
  OBVIOUS
<1>4. \E x \in T : \A y \in T : ~ (<<y, x>> \in StrictSubsetOrdering(Nat))
  BY <1>1, <1>2, <1>3, WFMin
<1>5. PICK m \in S : \A y \in T : ~ (<<y, 1 .. m>> \in StrictSubsetOrdering(Nat))
  BY <1>4
<1>6. ASSUME NEW k \in S, k < m PROVE FALSE
  <2>1. 1 .. k \in T /\ 1 .. k \in SUBSET Nat /\ 1 .. m \in SUBSET Nat
    OBVIOUS
  <2>2. 1 .. k \subseteq 1 .. m /\ 1 .. k # 1 .. m
    <3>1. m \in 1 .. m /\ m \notin 1 .. k BY <1>6
    <3>2. ASSUME NEW z \in 1 .. k PROVE z \in 1 .. m BY <1>6
    <3> QED BY <3>1, <3>2
  <2>3. <<1 .. k, 1 .. m>> \in StrictSubsetOrdering(Nat)
    BY <2>1, <2>2 DEF StrictSubsetOrdering
  <2> QED BY <1>5, <2>1, <2>3
<1> QED BY <1>6

\* Induction up to N.
LEMMA UpToN ==
    ASSUME NEW N \in Nat, NEW S, 0 \in S, \A n \in 0 .. N : n \in S /\ n < N => n + 1 \in S
    PROVE  0 .. N \subseteq S
<1> DEFINE T == (0 .. N) \ S
<1> SUFFICES ASSUME T # {} PROVE FALSE
  OBVIOUS
<1>1. T \in SUBSET Nat
  OBVIOUS
<1>2. PICK m \in T : \A k \in T : m <= k
  BY <1>1, LeastNumber
<1>3. m \in 1 .. N /\ m - 1 \in 0 .. N /\ m - 1 < N /\ m - 1 + 1 = m
  OBVIOUS
<1>4. m - 1 \in S
  BY <1>2, <1>3
<1> QED
  BY <1>3, <1>4

\* The largest of some alignments is one of them.
LEMMA MaxOfFacts ==
    ASSUME NEW f \in [Outs -> Nat], NEW S \in SUBSET ({1} \cup {f[o] : o \in Outs}), S # {}
    PROVE  MaxOf(S) \in Nat
<1> USE SectionsAssumption DEF Outs
<1> DEFINE B == {n \in 0 .. NOut : \E b \in Nat : \A o \in 1 .. n : f[o] <= b}
<1>1. 0 \in B
  OBVIOUS
<1>2. ASSUME NEW n \in 0 .. NOut, n \in B, n < NOut PROVE n + 1 \in B
  <2>1. PICK b \in Nat : \A o \in 1 .. n : f[o] <= b
    BY <1>2
  <2>2. n + 1 \in Outs /\ f[n + 1] \in Nat
    BY <1>2
  <2> DEFINE c == b + f[n + 1]
  <2>3. c \in Nat /\ b <= c /\ f[n + 1] <= c
    BY <2>2
  <2>4. ASSUME NEW o \in 1 .. n + 1 PROVE f[o] <= c
    <3>1. CASE o = n + 1 BY <2>3, <3>1
    <3>2. CASE o # n + 1
      <4>1. o \in 1 .. n /\ f[o] \in Nat BY <1>2, <3>2
      <4>2. f[o] <= b BY <2>1, <4>1
      <4> HIDE DEF c
      <4> QED BY <2>3, <4>1, <4>2
    <3> QED BY <3>1, <3>2
  <2> HIDE DEF c
  <2>5. \E z \in Nat : \A o \in 1 .. n + 1 : f[o] <= z BY <2>3, <2>4
  <2>6. n + 1 \in 0 .. NOut BY <1>2
  <2> QED BY <2>5, <2>6
<1> HIDE DEF B
<1>3. NOut \in B
  <2>1. 0 .. NOut \subseteq B BY <1>1, <1>2, UpToN
  <2> QED BY <2>1
<1>4. PICK b \in Nat : \A o \in Outs : f[o] <= b
  BY <1>3 DEF B
<1>5. S \in SUBSET Nat
  OBVIOUS
<1> DEFINE U == {u \in Nat : \A x \in S : x <= u}
<1>6. b + 1 \in U
  BY <1>4, <1>5
<1>7. PICK m \in U : \A k \in U : m <= k
  BY <1>6, LeastNumber
<1>8. m \in S
  <2> SUFFICES ASSUME m \notin S PROVE FALSE OBVIOUS
  <2>1. PICK x \in S : TRUE OBVIOUS
  <2>2. x <= m /\ x # m /\ x \in Nat BY <1>5, <2>1
  <2>3. m - 1 \in Nat BY <2>2
  <2>4. \A y \in S : y <= m - 1 BY <1>5, <2>3
  <2>5. m - 1 \in U BY <2>3, <2>4
  <2> HIDE DEF U
  <2>6. m <= m - 1 BY <1>7, <2>5
  <2>7. m \in Nat BY DEF U
  <2> QED BY <2>3, <2>6, <2>7
<1>9. \E y \in S : \A n \in S : n <= y
  BY <1>7, <1>8
<1>10. MaxOf(S) \in S
  BY <1>9 DEF MaxOf
<1> QED
  BY <1>5, <1>10

\* Recursion over the integers: there is a function that goes on by step.
LEMMA Iterated ==
    ASSUME NEW N \in Nat, NEW x \in Int, NEW step \in [Int \X (1 .. N) -> Int]
    PROVE  \E g \in [0 .. N -> Int] : g[0] = x /\ \A n \in 1 .. N : g[n] = step[<<g[n - 1], n>>]
<1> DEFINE Good(g, k) == g[0] = x /\ \A n \in 1 .. N : n <= k => g[n] = step[<<g[n - 1], n>>]
           S == {k \in 0 .. N : \E g \in [0 .. N -> Int] : Good(g, k)}
<1>1. 0 \in S
  <2> DEFINE g == [n \in 0 .. N |-> x]
  <2>1. g \in [0 .. N -> Int] /\ g[0] = x OBVIOUS
  <2>2. \A n \in 1 .. N : ~(n <= 0) OBVIOUS
  <2> HIDE DEF g
  <2>3. Good(g, 0) BY <2>1, <2>2
  <2> QED BY <2>1, <2>3
<1>2. ASSUME NEW k \in 0 .. N, k \in S, k < N PROVE k + 1 \in S
  <2>1. PICK g \in [0 .. N -> Int] : Good(g, k)
    BY <1>2
  <2> DEFINE h == [n \in 0 .. N |-> IF n = k + 1 THEN step[<<g[k], k + 1>>] ELSE g[n]]
  <2>2. h \in [0 .. N -> Int]
    <3>1. k + 1 \in 1 .. N /\ g[k] \in Int BY <1>2
    <3>2. step[<<g[k], k + 1>>] \in Int BY <3>1
    <3> QED BY <3>2
  <2>3. h[0] = x BY <2>1, <1>2
  <2>4. ASSUME NEW n \in 1 .. N, n <= k + 1 PROVE h[n] = step[<<h[n - 1], n>>]
    <3>1. n - 1 \in 0 .. N /\ n - 1 # k + 1 /\ n \in 0 .. N BY <2>4
    <3>2. h[n - 1] = g[n - 1] BY <3>1
    <3>3. CASE n = k + 1 BY <3>1, <3>2, <3>3
    <3>4. CASE n # k + 1
      <4>1. n <= k /\ h[n] = g[n] BY <3>1, <3>4, <2>4
      <4> QED BY <4>1, <3>2, <2>1
    <3> QED BY <3>3, <3>4
  <2> HIDE DEF h
  <2>5. Good(h, k + 1) BY <2>3, <2>4
  <2>6. k + 1 \in 0 .. N BY <1>2
  <2> HIDE DEF Good
  <2> QED BY <2>2, <2>5, <2>6
<1> HIDE DEF S
<1>3. N \in S
  <2>1. 0 .. N \subseteq S BY <1>1, <1>2, UpToN
  <2> QED BY <2>1
<1>4. PICK g \in [0 .. N -> Int] : Good(g, N)
  BY <1>3 DEF S
<1> QED
  BY <1>4

\* The link's constants, as the proofs use them.
LEMMA LinkFacts ==
    ASSUME link \in DOMAIN Links
    PROVE  /\ IReach \in Nat \ {0} /\ Page \in Nat \ {0} /\ Page = 2 * IReach
           /\ Align \in [Outs -> Nat \ {0}] /\ Body \in [Outs -> Seq(Relocs)]
           /\ GpSec \in 0 .. NOut /\ GpOff \in Nat /\ Starts \in Seq(Nat) /\ Rounds \in Nat \ {0}
           /\ \A z \in Sizes : z \in [Outs -> Nat]
BY LinksAssumption DEF IReach, Page, Align, Body, GpSec, GpOff, Starts, Rounds, Sizes

\* What DATA_SEGMENT_ALIGN and the output sections round up to.
LEMMA AlignUpFacts ==
    ASSUME NEW x \in Int, NEW a \in Nat \ {0}
    PROVE  AlignUp(x, a) \in Int /\ \E q \in Int : AlignUp(x, a) = q * a
<1>1. (x + a - 1) \div a \in Int
  OBVIOUS
<1> QED
  BY <1>1 DEF AlignUp

\* lang_size_relro_segment_1 goes back section by section and ends at an address.
LEMMA RelroBaseInt ==
    ASSUME link \in DOMAIN Links, size \in [Outs -> Int], rend \in Int
    PROVE  RelroBase \in Int
<1> DEFINE L == RelroLast + 1
           N == L - DataFirst
           Back(y, o) == ((y - size[o]) \div Align[o]) * Align[o]
           x == AlignUp(rend, Page)
           IsStart(f) == f = [o \in DataFirst .. L |-> IF o = L THEN x ELSE Back(f[o + 1], o)]
<1>1. L \in Int /\ N \in Nat /\ {DataFirst, RelroLast} \subseteq Int /\ DataFirst .. RelroLast \subseteq Outs
  BY SectionsAssumption DEF Outs
<1>2. x \in Int
  BY LinkFacts, AlignUpFacts
<1>3. ASSUME NEW y \in Int, NEW o \in DataFirst .. RelroLast PROVE Back(y, o) \in Int
  <2>1. size[o] \in Int /\ Align[o] \in Nat \ {0} BY <1>1, LinkFacts
  <2>2. (y - size[o]) \div Align[o] \in Int BY <2>1
  <2> QED BY <2>1, <2>2
<1>4. \E f : IsStart(f)
  <2> DEFINE step == [yn \in Int \X (1 .. N) |-> Back(yn[1], L - yn[2])]
  <2>1. \A n \in 1 .. N : L - n \in DataFirst .. RelroLast BY <1>1
  <2>2. step \in [Int \X (1 .. N) -> Int]
    <3> HIDE DEF Back
    <3> QED BY <1>3, <2>1
  <2>3. PICK g \in [0 .. N -> Int] : g[0] = x /\ \A n \in 1 .. N : g[n] = step[<<g[n - 1], n>>]
    <3> HIDE DEF step, x, N
    <3> QED BY <1>1, <1>2, <2>2, Iterated
  <2> DEFINE f == [o \in DataFirst .. L |-> g[L - o]]
  <2>4. ASSUME NEW o \in DataFirst .. L PROVE f[o] = IF o = L THEN x ELSE Back(f[o + 1], o)
    <3>1. CASE o = L
      <4>1. L - o = 0 BY <1>1, <3>1
      <4> QED BY <2>3, <3>1, <4>1
    <3>2. CASE o # L
      <4> DEFINE n == L - o
      <4>1. n \in 1 .. N /\ n - 1 \in 0 .. N /\ o + 1 \in DataFirst .. L /\ L - n = o /\ L - (o + 1) = n - 1
        <5>1. o \in Int /\ DataFirst <= o /\ o < RelroLast + 1 BY <1>1, <3>2
        <5> QED BY <1>1, <5>1
      <4>2. f[o + 1] = g[n - 1] /\ f[o] = g[n] BY <4>1
      <4>3. g[n - 1] \in Int BY <2>3, <4>1
      <4>4. step[<<g[n - 1], n>>] = Back(g[n - 1], o)
        <5> HIDE DEF Back, n
        <5> QED BY <4>1, <4>3
      <4> HIDE DEF Back, n, f, step
      <4> QED BY <2>3, <3>2, <4>1, <4>2, <4>4
    <3> QED BY <3>1, <3>2
  <2>5. f = [o \in DataFirst .. L |-> IF o = L THEN x ELSE Back(f[o + 1], o)]
    <3> HIDE DEF Back, x
    <3>1. f = [o \in DataFirst .. L |-> f[o]] OBVIOUS
    <3> HIDE DEF f
    <3> QED BY <2>4, <3>1
  <2> HIDE DEF f
  <2> QED BY <2>5
<1> DEFINE F == CHOOSE f : IsStart(f)
<1>5. RelroBase = F[DataFirst]
  BY DEF RelroBase
<1>6. IsStart(F)
  <2> HIDE DEF IsStart
  <2> QED BY <1>4
<1> HIDE DEF F, Back, x
<1> DEFINE S == {n \in 0 .. N : F[L - n] \in Int}
<1>7. \A o \in DataFirst .. L : F[o] = IF o = L THEN x ELSE Back(F[o + 1], o)
  BY <1>6
<1>8. 0 \in S
  <2>1. L - 0 = L /\ L \in DataFirst .. L /\ 0 \in 0 .. N BY <1>1
  <2> QED BY <1>2, <1>7, <2>1
<1>9. ASSUME NEW n \in 0 .. N, n \in S, n < N PROVE n + 1 \in S
  <2> DEFINE o == L - (n + 1)
  <2>1. o \in DataFirst .. L /\ o # L /\ o + 1 = L - n /\ o \in DataFirst .. RelroLast /\ n + 1 \in 0 .. N
    BY <1>1, <1>9
  <2>2. F[o + 1] \in Int BY <1>9, <2>1
  <2>3. F[o] = Back(F[o + 1], o) BY <1>7, <2>1
  <2> QED BY <1>3, <2>1, <2>2, <2>3
<1> HIDE DEF S
<1>10. N \in S
  <2>1. 0 .. N \subseteq S
    <3> HIDE DEF N
    <3> QED BY <1>1, <1>8, <1>9, UpToN
  <2> QED BY <1>1, <2>1
<1>11. L - N = DataFirst
  BY <1>1
<1> QED
  BY <1>5, <1>10, <1>11 DEF S

-----------------------------------------------------------------------------
(***************************************************************************)
(* The inductive invariant.  All the decisions of one visit see the same   *)
(* layout, and the same allowance whether or not it was cached when they   *)
(* were made.  A low part whose high part is gone is therefore still in    *)
(* front of the loop, and the decision for it is bound to be the same; and *)
(* a high part whose low part was left as it is will be left too.          *)
(***************************************************************************)
Lows == {r \in Relocs : Type0[r] \in LoTypes}

Visiting == phase = "relax" /\ pass = 0

\* What is near x0 or gp in this layout: address, section and reserve_size.
InReach == {x \in Int \X (0 .. NOut) \X Nat : Near(x[1], x[2], x[2] = 0, x[3])}

Target == [r \in Relocs |-> SymAddr(Sym[r], Addend[r])]
SecOf(r) == Symbols[Sym[r]].sec

\* The decision for reloc r with reserve_size v.
Decides(r, v) == <<Target[r], SecOf(r), v>> \in InReach

\* reserve_size where it is not left over from the reloc before.
Behind(r) == LET z == Symbols[Sym[r]].size IN IF Addend[r] <= z THEN z - Addend[r] ELSE 0

\* Low part r will be rewritten when the loop comes to it.
WillGo(r) ==
    /\ Paired[r]
    /\ \E j \in idx .. Len(Body[cur]) : Body[cur][j] = r
    /\ Type0[r] = "LO12" =>
          IF Symbols[Sym[r]].func THEN Rel = r /\ Decides(r, reserve) ELSE Decides(r, Behind(r))
    /\ Type0[r] = "PCLO" =>
          /\ ~Pic /\ HiOf[r] \in DOMAIN hiTab
          /\ <<hiTab[HiOf[r]].addr, hiTab[HiOf[r]].sec, 0>> \in InReach
    /\ Type0[r] = "TPLO" => TpNear(r)

\* The high part of r will not be deleted in this visit.
HiStays(r) ==
    \/ ~Paired[r]
    \/ Type0[r] = "LO12" /\ ~Symbols[Sym[r]].func /\ ~Decides(HiOf[r], Behind(HiOf[r]))
    \/ Type0[r] = "PCLO" /\ (Pic \/ HiOf[r] \in loTab)
    \/ Type0[r] = "TPLO" /\ ~TpNear(HiOf[r])

Left(r) == typ[r] = Type0[r]
Done    == {"NONE", "GPREL", "RVCLUI", "TPREL"}

OrphansGo == \A r \in Lows : Left(r) /\ typ[HiOf[r]] = "NONE" => Visiting /\ WillGo(r)

PassedOver ==
    Visiting => \A r \in Lows : \A i \in idx .. Len(Body[cur]), j \in 1 .. idx - 1 :
       Body[cur][i] = HiOf[r] /\ Body[cur][j] = r /\ Left(r) => HiStays(r)

HiTabOK ==
    /\ \A h \in DOMAIN hiTab : /\ hiTab[h].addr \in Int /\ hiTab[h].sec \in 0 .. NOut
                               /\ hiTab[h].weak = (hiTab[h].sec = 0)
    /\ Visiting => \A h \in DOMAIN hiTab : \E j \in 1 .. idx - 1 : Body[cur][j] = h

LayoutOK ==
    /\ link \in DOMAIN Links
    /\ size \in [Outs -> Int] /\ addr \in [Outs -> Int]
    /\ \A o \in Outs : \E q \in Int : addr[o] = q * Align[o]
    /\ {gpabs, dot, base, rend, mark} \subseteq Int
    /\ seg \in {"none", "adjust", "relro"} /\ round \in 1 .. Rounds
    /\ phase \in {"open", "enter", "relax", "place", "walk", "done"}
    /\ phase \in {"open", "enter", "relax", "place"} => cur \in Outs
    /\ phase = "relax" => pass \in {0, 1}

VisitOK ==
    /\ maxGp \in Nat \cup {Unset} /\ reserve \in Nat
    /\ idx \in Nat \ {0} /\ (Visiting => idx <= Len(Body[cur]) + 1)
    /\ typ \in [Relocs -> HiTypes \cup LoTypes \cup Done]
    /\ \A r \in Relocs : Left(r) \/ typ[r] \in Done

IInv == LayoutOK /\ VisitOK /\ HiTabOK /\ OrphansGo /\ PassedOver

-----------------------------------------------------------------------------
(* The decisions *)

\* A section number that is not 0 is a section.
LEMMA SectionOf ==
    ASSUME NEW sec \in 0 .. NOut, sec # 0
    PROVE  sec \in Outs
<1>1. NOut \in Nat
  BY SectionsAssumption
<1> QED
  BY <1>1 DEF Outs

\* The allowance is a number of parcels, cached or not.
LEMMA AllowanceNat ==
    ASSUME LayoutOK, VisitOK, NEW sec \in 0 .. NOut
    PROVE  CachedMax \in Nat /\ Allowance(sec, sec = 0) \in Nat
<1> DEFINE A == {Align[o] : o \in Outs}
           N == {1} \cup {Align[o] : o \in {p \in Outs : \/ ValidI(addr[p] - gp)
                                                      \/ ValidI(addr[p] + osize[p] - gp)}}
<1>1. Align \in [Outs -> Nat] /\ \A o \in Outs : Align[o] \in Nat
  BY LinkFacts DEF LayoutOK
<1>2. A \in SUBSET ({1} \cup A) /\ N \in SUBSET ({1} \cup A) /\ N # {}
  OBVIOUS
<1>3. A # {}
  BY SectionsAssumption DEF Outs
<1>4. MaxOf(A) \in Nat /\ MaxOf(N) \in Nat
  BY <1>1, <1>2, <1>3, MaxOfFacts
<1>5. GetMaxAlignment \in Nat
  BY <1>4 DEF GetMaxAlignment
<1>6. CachedMax \in Nat
  BY <1>5 DEF CachedMax, VisitOK
<1>7. sec # 0 => Align[sec] \in Nat
  BY <1>1, SectionOf
<1>8. sec # 0 /\ sec = GpSec => Align[GpSec] \in Nat
  BY <1>7
<1> HIDE DEF A, N
<1>9. MaxOf({Align[o] : o \in Outs}) \in Nat
  BY <1>4 DEF A
<1>10. CASE sec = 0
  BY <1>6, <1>9, <1>10, Zenon DEF Allowance, UsesCache
<1>11. CASE sec # 0
  <2>1. CASE ~RelaxGp
    BY <1>6, <1>9, <2>1, Zenon DEF Allowance, UsesCache
  <2>2. CASE RelaxGp /\ sec # GpSec
    BY <1>6, <1>11, <2>2, Zenon DEF Allowance, UsesCache
  <2>3. CASE RelaxGp /\ sec = GpSec
    BY <1>6, <1>8, <1>11, <2>3, Zenon DEF Allowance, UsesCache
  <2> QED BY <2>1, <2>2, <2>3
<1> QED
  BY <1>10, <1>11

\* Where gp and a symbol are.
LEMMA AddressesInt ==
    ASSUME LayoutOK
    PROVE  /\ gp \in Int
           /\ \A r \in Relocs : SymAddr(Sym[r], Addend[r]) \in Int /\ Symbols[Sym[r]].sec \in 0 .. NOut
<1>1. gp \in Int
  <2>1. CASE GpSec = 0
    BY <2>1 DEF gp, LayoutOK
  <2>2. CASE GpSec # 0
    <3>1. GpSec \in 0 .. NOut /\ GpOff \in Nat
      BY LinkFacts DEF LayoutOK
    <3>2. GpSec \in Outs
      BY <2>2, <3>1, SectionOf
    <3>3. addr[GpSec] \in Int
      BY <3>2 DEF LayoutOK
    <3> QED BY <2>2, <3>1, <3>3 DEF gp
  <2> QED BY <2>1, <2>2
<1>2. ASSUME NEW r \in Relocs
      PROVE SymAddr(Sym[r], Addend[r]) \in Int /\ Symbols[Sym[r]].sec \in 0 .. NOut
  <2> DEFINE s == Symbols[Sym[r]]
  <2>1. s.sec \in 0 .. NOut /\ s.val \in Nat /\ Addend[r] \in Nat
    BY RelocsAssumption
  <2> HIDE DEF s
  <2>2. s.sec # 0 => addr[s.sec] \in Int
    BY <2>1, SectionOf DEF LayoutOK
  <2>3. (IF s.sec = 0 THEN 0 ELSE addr[s.sec] + s.val) + Addend[r] \in Int
    BY <2>1, <2>2
  <2> QED BY <2>1, <2>3 DEF SymAddr, s
<1> QED
  BY <1>1, <1>2

\* Membership in InReach, in numbers.
LEMMA InReachFacts ==
    ASSUME LayoutOK, VisitOK, NEW sec \in 0 .. NOut
    PROVE  \E g \in Int, m \in Nat : \A a \in Int, v \in Nat :
              <<a, sec, v>> \in InReach <=>
                 \/ sec = 0
                 \/ -IReach <= a /\ a < IReach
                 \/ a >= g /\ -IReach <= a - g + m + v /\ a - g + m + v < IReach
                 \/ a < g /\ -IReach <= a - g - m - v /\ a - g - m - v < IReach
<1> DEFINE g == IF RelaxGp THEN gp ELSE 0
           m == Allowance(sec, sec = 0)
<1>1. g \in Int /\ m \in Nat
  <2>1. gp \in Int /\ 0 \in Int BY AddressesInt
  <2>2. g \in Int BY <2>1, Zenon
  <2>3. m \in Nat BY AllowanceNat, Zenon
  <2> QED BY <2>2, <2>3
<1>2. ASSUME NEW a \in Int, NEW v \in Nat
      PROVE  <<a, sec, v>> \in InReach <=>
                 \/ sec = 0
                 \/ -IReach <= a /\ a < IReach
                 \/ a >= g /\ -IReach <= a - g + m + v /\ a - g + m + v < IReach
                 \/ a < g /\ -IReach <= a - g - m - v /\ a - g - m - v < IReach
  <2> DEFINE x == <<a, sec, v>>
  <2>1. x \in Int \X (0 .. NOut) \X Nat /\ x[1] = a /\ x[2] = sec /\ x[3] = v
    OBVIOUS
  <2> HIDE DEF x
  <2>2. x \in InReach <=> Near(x[1], x[2], x[2] = 0, x[3])
    BY <2>1 DEF InReach
  <2>3. Near(a, sec, sec = 0, v) <=>
          sec = 0 \/ ValidI(a) \/ (a >= g /\ ValidI(a - g + m + v)) \/ (a < g /\ ValidI(a - g - m - v))
    BY DEF Near
  <2>4. x \in InReach <=> Near(a, sec, sec = 0, v)
    BY <2>1, <2>2
  <2> HIDE DEF g, m
  <2>5. x \in InReach <=>
          sec = 0 \/ ValidI(a) \/ (a >= g /\ ValidI(a - g + m + v)) \/ (a < g /\ ValidI(a - g - m - v))
    BY <2>3, <2>4
  <2> QED BY <2>5 DEF x, ValidI
<1> HIDE DEF g, m
<1> QED
  BY <1>1, <1>2

\* What is near with some reserve is near with less.
LEMMA InReachWithLess ==
    ASSUME LayoutOK, VisitOK, NEW a \in Int, NEW sec \in 0 .. NOut, NEW v \in Nat,
           <<a, sec, v>> \in InReach
    PROVE  <<a, sec, 0>> \in InReach
<1>1. PICK g \in Int, m \in Nat : \A b \in Int, u \in Nat :
              <<b, sec, u>> \in InReach <=>
                 \/ sec = 0
                 \/ -IReach <= b /\ b < IReach
                 \/ b >= g /\ -IReach <= b - g + m + u /\ b - g + m + u < IReach
                 \/ b < g /\ -IReach <= b - g - m - u /\ b - g - m - u < IReach
  BY InReachFacts
<1>2. IReach \in Nat
  BY LinkFacts DEF LayoutOK
<1>3. \/ sec = 0
      \/ -IReach <= a /\ a < IReach
      \/ a >= g /\ -IReach <= a - g + m + v /\ a - g + m + v < IReach
      \/ a < g /\ -IReach <= a - g - m - v /\ a - g - m - v < IReach
  BY <1>1
<1>4. \/ sec = 0
      \/ -IReach <= a /\ a < IReach
      \/ a >= g /\ -IReach <= a - g + m + 0 /\ a - g + m + 0 < IReach
      \/ a < g /\ -IReach <= a - g - m - 0 /\ a - g - m - 0 < IReach
  BY <1>2, <1>3
<1> QED
  BY <1>1, <1>4

\* A number below a multiple of n, and all of its block of n, are below it.
LEMMA BelowMultiple ==
    ASSUME NEW n \in Nat \ {0}, NEW u \in Int, NEW w \in Int, NEW t \in Nat, n * u + t < n * w
    PROVE  n * u + n <= n * w
<1>1. n * u \in Int /\ n * w \in Int
  OBVIOUS
<1>2. u < w
  <2> SUFFICES ASSUME w <= u PROVE FALSE OBVIOUS
  <2> DEFINE k == u - w
  <2>0. k \in Nat OBVIOUS
  <2>1. n * k >= 0
    <3> HIDE DEF k
    <3> QED BY <2>0
  <2>2. n * (u - w) = n * u - n * w OBVIOUS
  <2> QED BY <1>1, <2>1, <2>2
<1>3. n * (w - u - 1) >= 0
  BY <1>2
<1>4. n * (w - u - 1) = n * w - n * u - n
  OBVIOUS
<1> QED
  BY <1>1, <1>3, <1>4

\* The bytes of an aligned block are all in reach of x0 or all out of it.
LEMMA BlockInReach ==
    ASSUME NEW x \in Int, NEW p \in Nat, NEW d \in Nat, NEW al \in Nat \ {0}, NEW reach \in Nat \ {0},
           \E q \in Int : x = q * al, InOneBlock(p, d, al, reach), x + p < reach
    PROVE  x + p + d < reach
<1>1. PICK n \in 1 .. reach : al % n = 0 /\ reach % n = 0 /\ (p % n) + d < n
  BY DEF InOneBlock
<1>2. n \in Nat \ {0}
  OBVIOUS
<1> DEFINE t == p % n
           y == p \div n
           b == al \div n
           w == reach \div n
<1>3. p = n * y + t /\ t \in Nat /\ y \in Int
  BY <1>2
<1>4. al = n * b /\ b \in Int
  <2>1. al = n * (al \div n) + (al % n) /\ al \div n \in Int BY <1>2
  <2> QED BY <1>1, <2>1
<1>5. reach = n * w /\ w \in Int
  <2>1. reach = n * (reach \div n) + (reach % n) /\ reach \div n \in Int BY <1>2
  <2> QED BY <1>1, <2>1
<1> HIDE DEF t, y, b, w
<1>6. t + d < n
  BY <1>1 DEF t
<1>7. PICK q \in Int : x = q * al
  OBVIOUS
<1> DEFINE u == q * b + y
<1>8. u \in Int /\ n * u = x + n * y
  <2>1. q * al = q * (n * b) BY <1>4
  <2>2. q * (n * b) = n * (q * b) BY <1>2, <1>4
  <2>3. q * b \in Int BY <1>4
  <2>4. n * (q * b + y) = n * (q * b) + n * y BY <1>2, <1>3, <2>3
  <2> QED BY <1>3, <1>7, <2>1, <2>2, <2>3, <2>4
<1> HIDE DEF u
<1>9. n * y \in Int
  BY <1>2, <1>3
<1>10. n * u + t < n * w
  BY <1>3, <1>5, <1>8, <1>9
<1>11. n * u + n <= n * w
  BY <1>2, <1>3, <1>5, <1>8, <1>10, BelowMultiple
<1> QED
  BY <1>2, <1>3, <1>5, <1>6, <1>8, <1>9, <1>11
-----------------------------------------------------------------------------
(* The pairs *)

\* A relocation is in one place.
LEMMA OnePlace ==
    ASSUME link \in DOMAIN Links, NEW o \in Outs,
           NEW i \in DOMAIN Body[o], NEW j \in DOMAIN Body[o], Body[o][i] = Body[o][j]
    PROVE  i = j
BY PairsAssumption DEF Body

\* What is known of a low part r whose high part is the i-th reloc of section o.
LEMMA PairFacts ==
    ASSUME link \in DOMAIN Links, NEW r \in Lows, NEW o \in Outs,
           NEW i \in DOMAIN Body[o], Body[o][i] = HiOf[r]
    PROVE  /\ HiOf[r] \in Relocs /\ Paired[r] = Paired[HiOf[r]]
           /\ \E j \in DOMAIN Body[o] :
                 Body[o][j] = r /\ (Type0[r] = "LO12" /\ Symbols[Sym[r]].func => j = i + 1)
           /\ Type0[r] = "LO12" =>
                 /\ Type0[HiOf[r]] = "HI20" /\ Sym[r] = Sym[HiOf[r]]
                 /\ Symbols[Sym[r]].func => Addend[r] = Addend[HiOf[r]]
                 /\ ~Symbols[Sym[r]].func =>
                       Addend[HiOf[r]] <= Addend[r] /\ Addend[r] <= Symbols[Sym[r]].size
                 /\ SecOf(r) # 0 =>
                       InOneBlock(Symbols[Sym[r]].val + Addend[HiOf[r]],
                                  Addend[r] - Addend[HiOf[r]], Align[SecOf(r)], IReach)
           /\ Type0[r] = "PCLO" =>
                 Type0[HiOf[r]] = "PCHI" /\ Symbols[Sym[r]].size = 0 /\ ~Symbols[Sym[r]].func
           /\ Type0[r] = "TPLO" =>
                 Type0[HiOf[r]] = "TPHI" /\ (TpNear(r) <=> TpNear(HiOf[r]))
<1>1. r \in Relocs /\ Type0[r] \in LoTypes
  BY DEF Lows
<1>2. HiOf[r] \in Relocs /\ Paired[r] = Paired[HiOf[r]]
  BY <1>1, RelocsAssumption
<1> DEFINE h == HiOf[r]
           s == Symbols[Sym[h]]
           d == Addend[r] - Addend[h]
<1>3. /\ \E j \in DOMAIN Body[o] :
            Body[o][j] = r /\ (Type0[r] = "LO12" /\ s.func => j = i + 1)
      /\ Type0[r] = "LO12" =>
            /\ Type0[h] = "HI20" /\ Sym[r] = Sym[h]
            /\ IF s.func THEN d = 0 ELSE d >= 0 /\ Addend[r] <= s.size
            /\ s.sec # 0 => InOneBlock(s.val + Addend[h], d, Align[s.sec], IReach)
      /\ Type0[r] = "PCLO" =>
            Type0[h] = "PCHI" /\ Symbols[Sym[r]].size = 0 /\ ~Symbols[Sym[r]].func
      /\ Type0[r] = "TPLO" =>
            /\ Type0[h] = "TPHI" /\ Sym[r] = Sym[h]
            /\ (s.tpoff + Addend[r] + IReach) \div (2 * IReach)
                 = (s.tpoff + Addend[h] + IReach) \div (2 * IReach)
  BY <1>1, PairsAssumption DEF Body, Align, IReach
<1>4. Addend[r] \in Nat /\ Addend[h] \in Nat
  BY <1>1, <1>2, RelocsAssumption
<1>5. ASSUME Type0[r] = "LO12"
      PROVE  /\ Type0[h] = "HI20" /\ Sym[r] = Sym[h]
             /\ Symbols[Sym[r]].func => Addend[r] = Addend[h]
             /\ ~Symbols[Sym[r]].func => Addend[h] <= Addend[r] /\ Addend[r] <= Symbols[Sym[r]].size
             /\ SecOf(r) # 0 =>
                   InOneBlock(Symbols[Sym[r]].val + Addend[h], Addend[r] - Addend[h], Align[SecOf(r)], IReach)
  <2>1. Type0[h] = "HI20" /\ Sym[r] = Sym[h] BY <1>3, <1>5
  <2>2. IF s.func THEN d = 0 ELSE d >= 0 /\ Addend[r] <= s.size BY <1>3, <1>5
  <2>3. s.sec # 0 => InOneBlock(s.val + Addend[h], d, Align[s.sec], IReach) BY <1>3, <1>5
  <2>4. Symbols[Sym[r]] = s BY <2>1
  <2> HIDE DEF s
  <2>5. s.func => Addend[r] = Addend[h] BY <2>2, <1>4
  <2>6. ~s.func => Addend[h] <= Addend[r] /\ Addend[r] <= s.size BY <2>2, <1>4
  <2> QED BY <2>1, <2>3, <2>4, <2>5, <2>6, Zenon DEF SecOf
<1>6. \E j \in DOMAIN Body[o] :
         Body[o][j] = r /\ (Type0[r] = "LO12" /\ Symbols[Sym[r]].func => j = i + 1)
  BY <1>3, <1>5
<1>7. Type0[r] = "TPLO" => Type0[h] = "TPHI" /\ (TpNear(r) <=> TpNear(h))
  BY <1>3 DEF TpNear, HighPart, Page
<1>8. Type0[r] = "PCLO" =>
         Type0[h] = "PCHI" /\ Symbols[Sym[r]].size = 0 /\ ~Symbols[Sym[r]].func
  BY <1>3
<1> QED
  BY <1>2, <1>5, <1>6, <1>7, <1>8, Zenon

\* A low part is in the section of its high part, a function's directly behind it.
LEMMA LowBehind ==
    ASSUME link \in DOMAIN Links, NEW r \in Lows, NEW o \in Outs,
           NEW i \in DOMAIN Body[o], Body[o][i] = HiOf[r]
    PROVE  \E j \in DOMAIN Body[o] :
              Body[o][j] = r /\ (Type0[r] = "LO12" /\ Symbols[Sym[r]].func => j = i + 1)
BY PairFacts

\* The high part decides for its low parts too: the low part reads inside the
\* object, so what is left behind it and its distance from gp add up to the same.
LEMMA PairDecides ==
    ASSUME LayoutOK, VisitOK, NEW r \in Lows, Type0[r] = "LO12", ~Symbols[Sym[r]].func,
           NEW o \in Outs, NEW i \in DOMAIN Body[o], Body[o][i] = HiOf[r],
           Decides(HiOf[r], Behind(HiOf[r]))
    PROVE  Decides(r, Behind(r))
<1> DEFINE h == HiOf[r]
           s == Symbols[Sym[r]]
           d == Addend[r] - Addend[h]
           a == Target[h]
           v == s.size - Addend[h]
<1>0. r \in Relocs /\ link \in DOMAIN Links
  BY DEF Lows, LayoutOK
<1>1. /\ h \in Relocs /\ Sym[r] = Sym[h] /\ Addend[h] <= Addend[r] /\ Addend[r] <= s.size
      /\ s.sec # 0 => InOneBlock(s.val + Addend[h], d, Align[s.sec], IReach)
  BY <1>0, PairFacts, Zenon DEF SecOf
<1>2. s.sec \in 0 .. NOut /\ s.val \in Nat /\ s.size \in Nat /\ Addend[r] \in Nat /\ Addend[h] \in Nat
  BY <1>0, <1>1, RelocsAssumption
<1>3. Behind(h) = v /\ Behind(r) = v - d /\ v \in Nat /\ v - d \in Nat /\ d \in Nat
  <2>1. Symbols[Sym[h]] = s BY <1>1
  <2> HIDE DEF s
  <2>2. Addend[h] <= s.size BY <1>1, <1>2
  <2>3. Behind(h) = v BY <2>1, <2>2, Zenon DEF Behind
  <2>4. Behind(r) = s.size - Addend[r] BY <1>1, Zenon DEF Behind, s
  <2>5. s.size - Addend[r] = v - d BY <1>2
  <2> QED BY <1>1, <1>2, <2>2, <2>3, <2>4, <2>5
<1>4. a \in Int /\ Target[r] = a + d /\ (s.sec # 0 => a = addr[s.sec] + (s.val + Addend[h]))
  <2>1. a = (IF s.sec = 0 THEN 0 ELSE addr[s.sec] + s.val) + Addend[h]
    BY <1>1 DEF Target, SymAddr
  <2>2. Target[r] = (IF s.sec = 0 THEN 0 ELSE addr[s.sec] + s.val) + Addend[r]
    BY <1>0 DEF Target, SymAddr
  <2>3. s.sec # 0 => addr[s.sec] \in Int
    BY <1>2, SectionOf DEF LayoutOK
  <2> HIDE DEF s, a
  <2> QED BY <1>2, <2>1, <2>2, <2>3
<1>5. SecOf(r) = s.sec /\ SecOf(h) = s.sec
  BY <1>1 DEF SecOf
<1>6. <<a, s.sec, v>> \in InReach
  BY <1>3, <1>5 DEF Decides
<1>7. PICK g \in Int, m \in Nat : \A b \in Int, u \in Nat :
              <<b, s.sec, u>> \in InReach <=>
                 \/ s.sec = 0
                 \/ -IReach <= b /\ b < IReach
                 \/ b >= g /\ -IReach <= b - g + m + u /\ b - g + m + u < IReach
                 \/ b < g /\ -IReach <= b - g - m - u /\ b - g - m - u < IReach
  <2> HIDE DEF s
  <2> QED BY <1>2, InReachFacts
<1>8. IReach \in Nat \ {0}
  BY <1>0, LinkFacts
<1>9. ASSUME s.sec # 0, -IReach <= a, a < IReach PROVE -IReach <= a + d /\ a + d < IReach
  <2> DEFINE p == s.val + Addend[h]
             x == addr[s.sec]
             al == Align[s.sec]
  <2>1. s.sec \in Outs BY <1>2, <1>9, SectionOf
  <2>2. x \in Int /\ al \in Nat \ {0} /\ \E q \in Int : x = q * al
    BY <1>0, <2>1, LinkFacts DEF LayoutOK
  <2>3. p \in Nat /\ a = x + p /\ InOneBlock(p, d, al, IReach)
    BY <1>1, <1>2, <1>4, <1>9
  <2> HIDE DEF p, x, al, d, s, a
  <2>4. x + p + d < IReach
    BY <1>3, <1>8, <1>9, <2>2, <2>3, BlockInReach
  <2> QED BY <1>3, <1>4, <1>8, <1>9, <2>2, <2>3, <2>4
<1> HIDE DEF d, s, a, v
<1>10. \/ s.sec = 0
       \/ -IReach <= a /\ a < IReach
       \/ a >= g /\ -IReach <= a - g + m + v /\ a - g + m + v < IReach
       \/ a < g /\ -IReach <= a - g - m - v /\ a - g - m - v < IReach
  BY <1>3, <1>4, <1>6, <1>7
<1> DEFINE b == a + d
           u == v - d
<1>11. \/ s.sec = 0
       \/ -IReach <= b /\ b < IReach
       \/ b >= g /\ -IReach <= b - g + m + u /\ b - g + m + u < IReach
       \/ b < g /\ -IReach <= b - g - m - u /\ b - g - m - u < IReach
  <2>1. CASE s.sec = 0 BY <2>1
  <2>2. CASE s.sec # 0 /\ -IReach <= a /\ a < IReach BY <1>9, <2>2
  <2>3. CASE a >= g /\ -IReach <= a - g + m + v /\ a - g + m + v < IReach
    BY <1>3, <1>4, <1>8, <2>3
  <2>4. CASE a < g /\ -IReach <= a - g - m - v /\ a - g - m - v < IReach
    BY <1>3, <1>4, <1>8, <2>4
  <2> QED BY <1>10, <2>1, <2>2, <2>3, <2>4
<1>12. b \in Int /\ u \in Nat
  BY <1>3, <1>4
<1> HIDE DEF b, u
<1>13. <<b, s.sec, u>> \in InReach
  BY <1>7, <1>11, <1>12
<1> QED
  BY <1>3, <1>4, <1>5, <1>13 DEF Decides, b, u
-----------------------------------------------------------------------------
(* The steps of one visit *)

\* The decisions of a visit all see the same layout and the same allowance,
\* whether it is cached yet or not.
LEMMA SameReach ==
    ASSUME LayoutOK, VisitOK, UNCHANGED <<link, addr, osize, gpabs>>, maxGp' \in {maxGp, CachedMax}
    PROVE  InReach' = InReach /\ Target' = Target
<1>1. /\ IReach' = IReach /\ Align' = Align /\ GpSec' = GpSec /\ GpOff' = GpOff /\ Body' = Body
      /\ addr' = addr /\ osize' = osize /\ gpabs' = gpabs
  BY DEF IReach, Align, GpSec, GpOff, Body
<1>2. gp' = gp
  BY <1>1 DEF gp
<1>3. GetMaxAlignment' = GetMaxAlignment
  <2> DEFINE near == {p \in Outs : \/ ValidI(addr[p] - gp)
                                   \/ ValidI(addr[p] + osize[p] - gp)}
             als  == {1} \cup {Align[o] : o \in near}
  <2>1. near' = near BY <1>1, <1>2 DEF ValidI
  <2> HIDE DEF near
  <2>2. als' = als BY <1>1, <2>1
  <2> HIDE DEF als
  <2> QED BY <2>2 DEF GetMaxAlignment, als, near
<1>4. CachedMax \in Nat
  <2>1. 0 \in 0 .. NOut BY SectionsAssumption
  <2> QED BY <2>1, AllowanceNat
<1>5. CachedMax' = CachedMax
  <2>1. CachedMax # Unset BY <1>4 DEF Unset
  <2>2. CASE maxGp' = maxGp BY <1>3, <2>2 DEF CachedMax
  <2>3. CASE maxGp' = CachedMax
    <3>1. CachedMax' = IF maxGp' = Unset THEN GetMaxAlignment' ELSE maxGp' BY DEF CachedMax, Unset
    <3> QED BY <2>1, <2>3, <3>1
  <2> QED BY <2>2, <2>3
<1>6. ASSUME NEW x \in Int \X (0 .. NOut) \X Nat
      PROVE  Near(x[1], x[2], x[2] = 0, x[3])' <=> Near(x[1], x[2], x[2] = 0, x[3])
  <2> HIDE DEF gp
  <2> QED BY <1>1, <1>2, <1>5 DEF Near, Allowance, UsesCache, ValidI
<1>7. InReach' = InReach
  BY <1>6 DEF InReach
<1>8. Target' = Target
  BY <1>1 DEF Target, SymAddr
<1> QED
  BY <1>7, <1>8
\* What a step of the loop does: the reloc it looks at becomes t or stays, and
\* the tables grow.
VisitFrame(t) ==
    /\ InLoop /\ typ' = [typ EXCEPT ![Rel] = t] /\ (t = typ[Rel] \/ t \in Done)
    /\ idx' = idx + 1 /\ UNCHANGED <<link, addr, osize, dot, gpabs, seg, base, rend>>
    /\ UNCHANGED <<size, pass, round, phase, cur>>
    /\ maxGp' \in {maxGp, CachedMax} /\ reserve' \in Nat /\ mark' \in Int
    /\ loTab \subseteq loTab' /\ DOMAIN hiTab \subseteq DOMAIN hiTab'
    /\ \A h \in DOMAIN hiTab' :
          \/ h \in DOMAIN hiTab /\ hiTab'[h] = hiTab[h]
          \/ h = Rel /\ hiTab'[h].addr \in Int /\ hiTab'[h].sec \in 0 .. NOut
                     /\ hiTab'[h].weak = (hiTab'[h].sec = 0)

\* A low part is left as it is only if that agrees with its high part.
LeavesLow(t) ==
    \A r \in Lows : r = Rel /\ Left(r) /\ t = typ[Rel] =>
       /\ ~WillGo(r)
       /\ \A i \in idx + 1 .. Len(Body[cur]) : Body[cur][i] = HiOf[r] => HiStays(r)'

\* A high part is deleted only if that agrees with its low parts.
TakesHigh(t) ==
    \A r \in Lows : HiOf[r] = Rel /\ t = "NONE" /\ typ[Rel] # "NONE" =>
       /\ ~HiStays(r)
       /\ \A j \in idx + 1 .. Len(Body[cur]) : Body[cur][j] = r => WillGo(r)'

LEMMA InBody ==
    ASSUME LayoutOK, VisitOK, InLoop
    PROVE  /\ cur \in Outs /\ link \in DOMAIN Links /\ Len(Body[cur]) \in Nat
           /\ DOMAIN Body[cur] = 1 .. Len(Body[cur]) /\ idx \in DOMAIN Body[cur]
           /\ Rel \in Relocs /\ Rel = Body[cur][idx] /\ Visiting
<1>1. cur \in Outs /\ link \in DOMAIN Links /\ idx \in Nat \ {0} /\ idx <= Len(Body[cur])
  BY DEF LayoutOK, VisitOK, InLoop
<1>2. Body[cur] \in Seq(Relocs)
  BY <1>1, LinkFacts
<1> QED
  BY <1>1, <1>2 DEF Rel, InLoop, Visiting

LEMMA VisitKeeps ==
    ASSUME IInv, NEW t, VisitFrame(t), LeavesLow(t), TakesHigh(t)
    PROVE  IInv'
<1> DEFINE n == Len(Body[cur])
<1>0. LayoutOK /\ VisitOK /\ HiTabOK /\ OrphansGo /\ PassedOver /\ InLoop
  BY DEF IInv, VisitFrame
<1>1. /\ cur \in Outs /\ link \in DOMAIN Links /\ n \in Nat
      /\ DOMAIN Body[cur] = 1 .. n /\ idx \in 1 .. n
      /\ Rel \in Relocs /\ Rel = Body[cur][idx] /\ Visiting
  BY <1>0, InBody
<1>2. Body' = Body /\ cur' = cur /\ idx' = idx + 1 /\ Visiting' /\ Align' = Align /\ Rounds' = Rounds
  BY <1>1 DEF VisitFrame, Body, Visiting, Align, Rounds, Starts
<1>3. InReach' = InReach /\ Target' = Target
  BY <1>0, SameReach DEF VisitFrame
<1>4. \A i, j \in 1 .. n : Body[cur][i] = Body[cur][j] => i = j
  BY <1>1, OnePlace
<1>5. \A r \in Relocs : typ'[r] = IF r = Rel THEN t ELSE typ[r]
  BY <1>0, <1>1 DEF VisitFrame, VisitOK
<1>6. \A r \in Relocs : Type0[r] \notin Done /\ Type0[r] \in HiTypes \cup LoTypes
  BY RelocsAssumption DEF Done, HiTypes, LoTypes
<1>7. Rel \notin DOMAIN hiTab
  <2> SUFFICES ASSUME Rel \in DOMAIN hiTab PROVE FALSE OBVIOUS
  <2>1. PICK j \in 1 .. idx - 1 : Body[cur][j] = Rel BY <1>0, <1>1 DEF HiTabOK
  <2>2. j \in 1 .. n /\ j # idx BY <1>1
  <2> QED BY <1>1, <1>4, <2>1, <2>2
<1>8. LayoutOK'
  <2>1. \A o \in Outs : \E q \in Int : addr'[o] = q * Align'[o]
    BY <1>0, <1>2 DEF LayoutOK, VisitFrame
  <2> QED BY <1>0, <1>2, <2>1 DEF LayoutOK, VisitFrame
<1>9. VisitOK'
  <2>1. CachedMax \in Nat
    <3>1. 0 \in 0 .. NOut BY SectionsAssumption
    <3> QED BY <1>0, <3>1, AllowanceNat
  <2>2. maxGp' \in Nat \cup {Unset} /\ reserve' \in Nat
    BY <1>0, <2>1 DEF VisitFrame, VisitOK
  <2>3. idx' \in Nat \ {0} /\ idx' <= Len(Body'[cur']) + 1
    BY <1>1, <1>2
  <2>4. t \in HiTypes \cup LoTypes \cup Done
    BY <1>0, <1>1 DEF VisitFrame, VisitOK
  <2>5. typ' \in [Relocs -> HiTypes \cup LoTypes \cup Done]
    BY <1>0, <2>4 DEF VisitFrame, VisitOK
  <2>6. \A r \in Relocs : Left(r)' \/ typ'[r] \in Done
    BY <1>0, <1>5 DEF Left, VisitOK, VisitFrame
  <2> QED BY <2>2, <2>3, <2>5, <2>6 DEF VisitOK, Unset
<1>10. HiTabOK'
  <2> SUFFICES ASSUME NEW h \in DOMAIN hiTab'
               PROVE  /\ hiTab'[h].addr \in Int /\ hiTab'[h].sec \in 0 .. NOut
                      /\ hiTab'[h].weak = (hiTab'[h].sec = 0)
                      /\ \E j \in 1 .. idx' - 1 : Body'[cur'][j] = h
    BY DEF HiTabOK
  <2>1. CASE h \in DOMAIN hiTab /\ hiTab'[h] = hiTab[h]
    <3>1. PICK j \in 1 .. idx - 1 : Body[cur][j] = h BY <1>0, <1>1, <2>1 DEF HiTabOK
    <3>2. j \in 1 .. idx' - 1 BY <1>1, <1>2
    <3> QED BY <1>0, <1>2, <2>1, <3>1, <3>2 DEF HiTabOK
  <2>2. CASE h = Rel /\ hiTab'[h].addr \in Int /\ hiTab'[h].sec \in 0 .. NOut
                     /\ hiTab'[h].weak = (hiTab'[h].sec = 0)
    <3>1. idx \in 1 .. idx' - 1 BY <1>1, <1>2
    <3> QED BY <1>1, <1>2, <2>2, <3>1
  <2> QED BY <2>1, <2>2 DEF VisitFrame
<1>11. ASSUME NEW r \in Lows, r # Rel, WillGo(r) PROVE WillGo(r)'
  <2>1. PICK j \in idx .. n : Body[cur][j] = r BY <1>11 DEF WillGo
  <2>2. j \in idx' .. Len(Body'[cur']) /\ Body'[cur'][j] = r
    BY <1>1, <1>2, <1>11, <2>1
  <2>3. Paired[r] BY <1>11 DEF WillGo
  <2>4. Type0[r] = "LO12" => ~Symbols[Sym[r]].func /\ Decides(r, Behind(r))'
    BY <1>3, <1>11 DEF WillGo, Decides, Behind, SecOf
  <2>5. Type0[r] = "PCLO" => /\ ~Pic /\ HiOf[r] \in DOMAIN hiTab'
                             /\ (<<hiTab[HiOf[r]].addr, hiTab[HiOf[r]].sec, 0>> \in InReach)'
    <3> SUFFICES ASSUME Type0[r] = "PCLO"
                 PROVE  /\ ~Pic /\ HiOf[r] \in DOMAIN hiTab'
                        /\ <<hiTab'[HiOf[r]].addr, hiTab'[HiOf[r]].sec, 0>> \in InReach'
      OBVIOUS
    <3>1. ~Pic /\ HiOf[r] \in DOMAIN hiTab /\ <<hiTab[HiOf[r]].addr, hiTab[HiOf[r]].sec, 0>> \in InReach
      BY <1>11 DEF WillGo
    <3>2. HiOf[r] # Rel /\ HiOf[r] \in DOMAIN hiTab' BY <1>7, <3>1 DEF VisitFrame
    <3>3. hiTab'[HiOf[r]] = hiTab[HiOf[r]] BY <3>2 DEF VisitFrame
    <3> QED BY <1>3, <3>1, <3>2, <3>3
  <2>6. Type0[r] = "TPLO" => TpNear(r)'
    <3>1. TpNear(r)' <=> TpNear(r) BY DEF TpNear, HighPart, Page, IReach, VisitFrame
    <3> QED BY <1>11, <3>1 DEF WillGo
  <2> QED BY <2>2, <2>3, <2>4, <2>5, <2>6, Zenon DEF WillGo
<1>12. ASSUME NEW r \in Lows, HiStays(r) PROVE HiStays(r)'
  <2>1. TpNear(HiOf[r])' <=> TpNear(HiOf[r]) BY DEF TpNear, HighPart, Page, IReach, VisitFrame
  <2>2. Decides(HiOf[r], Behind(HiOf[r]))' <=> Decides(HiOf[r], Behind(HiOf[r]))
    BY <1>3 DEF Decides, Behind, SecOf
  <2>3. loTab \subseteq loTab' BY DEF VisitFrame
  <2> QED BY <1>12, <2>1, <2>2, <2>3 DEF HiStays
<1>13. OrphansGo'
  <2> SUFFICES ASSUME NEW r \in Lows, typ'[r] = Type0[r], typ'[HiOf[r]] = "NONE"
               PROVE  WillGo(r)'
    BY <1>2 DEF OrphansGo, Left
  <2>1. r \in Relocs /\ Type0[r] \in LoTypes /\ HiOf[r] \in Relocs
    BY RelocsAssumption DEF Lows
  <2>2. CASE HiOf[r] = Rel /\ typ[Rel] # "NONE"
    <3>1. t = "NONE" BY <1>5, <2>1, <2>2
    <3>2. PICK j \in 1 .. n : Body[cur][j] = r
      BY <1>1, <2>2, PairFacts
    <3>3. r # Rel
      <4>1. Type0[HiOf[r]] \in HiTypes
        <5>1. Body[cur][idx] = HiOf[r] BY <1>1, <2>2
        <5> QED BY <1>1, <2>1, <5>1, PairFacts DEF LoTypes, HiTypes
      <4> QED BY <2>1, <2>2, <4>1 DEF LoTypes, HiTypes
    <3>4. j # idx BY <1>1, <3>2, <3>3
    <3>5. typ[r] = Type0[r] BY <1>5, <2>1, <3>3
    <3>6. ~HiStays(r) /\ \A k \in idx + 1 .. n : Body[cur][k] = r => WillGo(r)'
      BY <2>2, <3>1 DEF TakesHigh
    <3>7. ~(j <= idx - 1)
      <4> SUFFICES ASSUME j <= idx - 1 PROVE FALSE OBVIOUS
      <4>1. j \in 1 .. idx - 1 /\ idx \in idx .. n BY <1>1
      <4>2. HiStays(r)
        BY <1>0, <1>1, <2>2, <3>2, <3>5, <4>1 DEF PassedOver, Left
      <4> QED BY <3>6, <4>2
    <3>8. j \in idx + 1 .. n BY <1>1, <3>4, <3>7
    <3> QED BY <3>2, <3>6, <3>8
  <2>3. CASE typ[HiOf[r]] = "NONE"
    <3>1. typ[r] = Type0[r] /\ (r = Rel => t = typ[Rel])
      BY <1>5, <1>6, <2>1 DEF VisitFrame
    <3>2. WillGo(r) BY <1>0, <2>3, <3>1 DEF OrphansGo, Left
    <3>3. r # Rel BY <3>1, <3>2 DEF LeavesLow, Left
    <3> QED BY <1>11, <3>2, <3>3
  <2> QED BY <1>5, <2>1, <2>2, <2>3
<1>14. PassedOver'
  <2> SUFFICES ASSUME NEW r \in Lows, NEW i \in idx' .. Len(Body'[cur']), NEW j \in 1 .. idx' - 1,
                      Body'[cur'][i] = HiOf[r], Body'[cur'][j] = r, typ'[r] = Type0[r]
               PROVE  HiStays(r)'
    BY DEF PassedOver, Left
  <2>1. i \in idx + 1 .. n /\ j \in 1 .. idx /\ Body[cur][i] = HiOf[r] /\ Body[cur][j] = r
    BY <1>1, <1>2
  <2>2. r \in Relocs BY DEF Lows
  <2>3. CASE j = idx
    <3>1. r = Rel /\ typ[r] = Type0[r] /\ t = typ[Rel]
      BY <1>1, <1>5, <1>6, <2>1, <2>2, <2>3 DEF VisitFrame
    <3> QED BY <2>1, <3>1 DEF LeavesLow, Left
  <2>4. CASE j # idx
    <3>1. j \in 1 .. idx - 1 /\ i \in idx .. n /\ j \in 1 .. n
      <4>1. idx \in Int /\ n \in Int /\ 1 <= idx /\ idx <= n BY <1>1
      <4> HIDE DEF n
      <4>2. j \in Int /\ 1 <= j /\ j < idx BY <2>1, <2>4, <4>1
      <4>3. i \in Int /\ idx <= i /\ i <= n BY <2>1, <4>1
      <4> QED BY <4>1, <4>2, <4>3
    <3>2. r # Rel BY <1>1, <1>4, <2>1, <2>4, <3>1
    <3>3. typ[r] = Type0[r] BY <1>5, <2>2, <3>2
    <3>4. HiStays(r) BY <1>0, <1>1, <2>1, <3>1, <3>3 DEF PassedOver, Left
    <3> QED BY <1>12, <3>4
  <2> QED BY <2>3, <2>4
<1> QED
  BY <1>8, <1>9, <1>10, <1>13, <1>14 DEF IInv
\* The frame that all steps of the loop share.
LEMMA NextRelocFrame ==
    ASSUME InLoop, NextReloc, UNCHANGED link
    PROVE  /\ idx' = idx + 1 /\ UNCHANGED <<link, addr, osize, dot, gpabs, seg, base, rend>>
           /\ UNCHANGED <<size, pass, round, phase, cur>>
BY DEF NextReloc, lay

\* A reloc left as it is is no deleted one, and typ stays a function.
LEMMA KeepFrame ==
    ASSUME LayoutOK, VisitOK, InLoop
    PROVE  /\ typ = [typ EXCEPT ![Rel] = typ[Rel]]
           /\ typ[Rel] \in HiTypes \cup LoTypes => typ[Rel] = Type0[Rel]
           /\ reserve \in Nat /\ mark \in Int
<1>1. Rel \in Relocs
  BY InBody
<1>2. typ \in [Relocs -> HiTypes \cup LoTypes \cup Done]
  BY DEF VisitOK
<1>3. Left(Rel) \/ typ[Rel] \in Done
  BY <1>1 DEF VisitOK
<1>4. Done \cap (HiTypes \cup LoTypes) = {}
  BY DEF Done, HiTypes, LoTypes
<1> QED
  BY <1>1, <1>2, <1>3, <1>4 DEF Left, VisitOK, LayoutOK

\* reserve_size stays a number; where the symbol is no function it is Behind.
LEMMA ReserveNat ==
    ASSUME VisitOK, NEW r \in Relocs
    PROVE  /\ ReserveFor(Sym[r], Addend[r]) \in Nat /\ Behind(r) \in Nat
           /\ Symbols[Sym[r]].func => ReserveFor(Sym[r], Addend[r]) = reserve
           /\ ~Symbols[Sym[r]].func => ReserveFor(Sym[r], Addend[r]) = Behind(r)
<1> DEFINE s == Symbols[Sym[r]]
<1>1. s.size \in Nat /\ Addend[r] \in Nat /\ s.func \in BOOLEAN /\ reserve \in Nat
  BY RelocsAssumption DEF VisitOK
<1> HIDE DEF s
<1>2. (IF Addend[r] <= s.size THEN s.size - Addend[r] ELSE 0) \in Nat
  BY <1>1
<1>3. Behind(r) = IF Addend[r] <= s.size THEN s.size - Addend[r] ELSE 0
  BY DEF Behind, s
<1>4. s.func => ReserveFor(Sym[r], Addend[r]) = reserve
  BY Zenon DEF ReserveFor, s
<1>5. ~s.func => ReserveFor(Sym[r], Addend[r]) = Behind(r)
  BY Zenon DEF ReserveFor, Behind, s
<1> QED
  BY <1>1, <1>2, <1>3, <1>4, <1>5 DEF s

\* A reloc that is skipped is in no pair, or neither part of its pair is relaxed.
LEMMA SkipKeeps ==
    ASSUME IInv, SkipReloc, UNCHANGED link
    PROVE  IInv'
<1>0. LayoutOK /\ VisitOK /\ InLoop /\ NextReloc
  BY DEF IInv, SkipReloc
<1>1. UNCHANGED <<typ, mark, reserve, hiTab, loTab, maxGp>>
  BY DEF SkipReloc, Keep
<1>2. VisitFrame(typ[Rel])
  BY <1>0, <1>1, NextRelocFrame, KeepFrame DEF VisitFrame
<1>3. LeavesLow(typ[Rel])
  <2> SUFFICES ASSUME NEW r \in Lows, r = Rel, typ[r] = Type0[r]
               PROVE  ~WillGo(r) /\ HiStays(r)'
    BY DEF LeavesLow, Left
  <2>1. Type0[r] \in LoTypes /\ typ[Rel] = Type0[r]
    BY DEF Lows
  <2>2. CASE ~Paired[r]
    BY <2>2 DEF WillGo, HiStays
  <2>3. CASE Type0[r] \in {"PCHI", "PCLO"} /\ Pic
    <3>1. Type0[r] = "PCLO" BY <2>1, <2>3 DEF LoTypes
    <3> QED BY <2>3, <3>1 DEF WillGo, HiStays
  <2>4. typ[Rel] \in HiTypes \cup LoTypes BY <2>1
  <2> QED BY <2>1, <2>2, <2>3, <2>4 DEF SkipReloc
<1>4. TakesHigh(typ[Rel])
  BY DEF TakesHigh
<1> QED
  BY <1>2, <1>3, <1>4, VisitKeeps
\* Decides is the decision that the code takes.
LEMMA DecidesNear ==
    ASSUME LayoutOK, NEW r \in Relocs, NEW v \in Nat
    PROVE  /\ Near(SymAddr(Sym[r], Addend[r]), SecOf(r), SecOf(r) = 0, v) <=> Decides(r, v)
           /\ Target[r] \in Int /\ Target[r] = SymAddr(Sym[r], Addend[r]) /\ SecOf(r) \in 0 .. NOut
<1>1. Target[r] = SymAddr(Sym[r], Addend[r])
  BY DEF Target
<1>2. Target[r] \in Int /\ SecOf(r) \in 0 .. NOut
  BY <1>1, AddressesInt DEF SecOf
<1> DEFINE x == <<Target[r], SecOf(r), v>>
<1>3. x \in Int \X (0 .. NOut) \X Nat /\ x[1] = Target[r] /\ x[2] = SecOf(r) /\ x[3] = v
  BY <1>2
<1> HIDE DEF x
<1>4. x \in InReach <=> Near(x[1], x[2], x[2] = 0, x[3])
  BY <1>3 DEF InReach
<1>5. x \in InReach <=> Near(Target[r], SecOf(r), SecOf(r) = 0, v)
  BY <1>3, <1>4
<1> QED
  BY <1>1, <1>2, <1>5 DEF Decides, x

LEMMA LuiKeeps ==
    ASSUME IInv, RelaxLui, UNCHANGED link
    PROVE  IInv'
<1> DEFINE rsv  == ReserveFor(Sym[Rel], Addend[Rel])
           a    == SymAddr(Sym[Rel], Addend[Rel])
           near == Near(a, SecOf(Rel), SecOf(Rel) = 0, rsv)
<1>0. LayoutOK /\ VisitOK /\ InLoop /\ NextReloc /\ typ[Rel] \in {"HI20", "LO12"} /\ Paired[Rel]
  BY DEF IInv, RelaxLui, Relaxing
<1>1. Rel \in Relocs /\ cur \in Outs /\ idx \in DOMAIN Body[cur] /\ Rel = Body[cur][idx]
      /\ link \in DOMAIN Links /\ Visiting /\ DOMAIN Body[cur] = 1 .. Len(Body[cur])
      /\ Len(Body[cur]) \in Nat
  BY <1>0, InBody
<1>2. rsv \in Nat
  BY <1>0, <1>1, ReserveNat
<1>3. near <=> Decides(Rel, rsv)
  BY <1>0, <1>1, <1>2, DecidesNear
<1>4. /\ reserve' = rsv /\ UNCHANGED <<hiTab, loTab>> /\ maxGp' \in {maxGp, CachedMax}
      /\ \/ near /\ typ[Rel] = "LO12" /\ Becomes(Rel, "GPREL") /\ UNCHANGED <<mark, again>>
         \/ near /\ typ[Rel] = "HI20" /\ Becomes(Rel, "NONE") /\ Delete(HiLen)
         \/ ~near /\ typ[Rel] = "HI20" /\ CLuiOk(Rel, a) /\ Becomes(Rel, "RVCLUI") /\ Delete(1)
         \/ ~near /\ ~(typ[Rel] = "HI20" /\ CLuiOk(Rel, a)) /\ Keep
  BY Zenon DEF RelaxLui, FillCache, SecOf
<1> HIDE DEF near, a, rsv
<1>5. PICK t : /\ typ' = [typ EXCEPT ![Rel] = t] /\ mark' \in Int
               /\ \/ Decides(Rel, rsv) /\ typ[Rel] = "LO12" /\ t = "GPREL"
                  \/ Decides(Rel, rsv) /\ typ[Rel] = "HI20" /\ t = "NONE"
                  \/ ~Decides(Rel, rsv) /\ typ[Rel] = "HI20" /\ t = "RVCLUI"
                  \/ ~Decides(Rel, rsv) /\ t = typ[Rel]
  <2>1. mark \in Int /\ typ = [typ EXCEPT ![Rel] = typ[Rel]] BY <1>0, KeepFrame
  <2>2. CASE near /\ typ[Rel] = "LO12" /\ Becomes(Rel, "GPREL") /\ UNCHANGED <<mark, again>>
    BY <1>3, <2>1, <2>2 DEF Becomes
  <2>3. CASE near /\ typ[Rel] = "HI20" /\ Becomes(Rel, "NONE") /\ Delete(HiLen)
    <3>1. mark' \in Int BY <2>1, <2>3 DEF Delete, HiLen
    <3>2. typ' = [typ EXCEPT ![Rel] = "NONE"] BY <2>3 DEF Becomes
    <3> QED BY <1>3, <2>3, <3>1, <3>2, Zenon
  <2>4. CASE ~near /\ typ[Rel] = "HI20" /\ CLuiOk(Rel, a) /\ Becomes(Rel, "RVCLUI") /\ Delete(1)
    <3>1. mark' \in Int BY <2>1, <2>4 DEF Delete
    <3>2. typ' = [typ EXCEPT ![Rel] = "RVCLUI"] BY <2>4 DEF Becomes
    <3> QED BY <1>3, <2>4, <3>1, <3>2, Zenon
  <2>5. CASE ~near /\ Keep
    BY <1>3, <2>1, <2>5 DEF Keep
  <2> QED BY <1>4, <2>2, <2>3, <2>4, <2>5
<1>6. VisitFrame(t)
  BY <1>0, <1>2, <1>4, <1>5, NextRelocFrame DEF VisitFrame, Done
<1>7. InReach' = InReach /\ Target' = Target
  BY <1>0, <1>6, SameReach DEF VisitFrame
<1>8. typ[Rel] = Type0[Rel]
  BY <1>0, KeepFrame DEF HiTypes, LoTypes
<1>9. LeavesLow(t)
  <2> SUFFICES ASSUME NEW r \in Lows, r = Rel, t = typ[r]
               PROVE  /\ ~WillGo(r)
                      /\ \A i \in idx + 1 .. Len(Body[cur]) : Body[cur][i] = HiOf[r] => HiStays(r)'
    BY DEF LeavesLow
  <2>1. r \in Relocs /\ Type0[r] = "LO12"
    BY <1>0, <1>8 DEF Lows, LoTypes
  <2>2. ~Decides(r, rsv)
    BY <1>5, <1>8, <2>1
  <2>3. CASE Symbols[Sym[r]].func
    <3>1. rsv = reserve BY <1>0, <2>1, <2>3, ReserveNat DEF rsv
    <3>2. ~WillGo(r) BY <2>1, <2>2, <2>3, <3>1 DEF WillGo
    <3>3. ASSUME NEW i \in idx + 1 .. Len(Body[cur]), Body[cur][i] = HiOf[r] PROVE FALSE
      <4>1. i \in DOMAIN Body[cur] /\ i # idx - 1 BY <1>1
      <4>2. PICK j \in DOMAIN Body[cur] : Body[cur][j] = r /\ j = i + 1
        BY <1>1, <2>1, <2>3, <3>3, <4>1, PairFacts
      <4>3. j = idx BY <1>1, <4>2, OnePlace
      <4> QED BY <1>1, <4>1, <4>2, <4>3
    <3> QED BY <3>2, <3>3
  <2>4. CASE ~Symbols[Sym[r]].func
    <3>1. rsv = Behind(r) BY <1>0, <2>1, <2>4, ReserveNat DEF rsv
    <3>2. ~WillGo(r) BY <2>1, <2>2, <2>4, <3>1 DEF WillGo
    <3>3. ASSUME NEW i \in idx + 1 .. Len(Body[cur]), Body[cur][i] = HiOf[r] PROVE HiStays(r)'
      <4>1. i \in DOMAIN Body[cur] BY <1>1
      <4>2. ~Decides(HiOf[r], Behind(HiOf[r]))
        BY <1>0, <1>1, <2>1, <2>2, <2>4, <3>1, <3>3, <4>1, PairDecides
      <4>3. ~Decides(HiOf[r], Behind(HiOf[r]))'
        BY <1>7, <4>2 DEF Decides, Behind, SecOf
      <4> QED BY <2>1, <2>4, <4>3 DEF HiStays
    <3> QED BY <3>2, <3>3
  <2> QED BY <2>3, <2>4
<1>10. TakesHigh(t)
  <2> SUFFICES ASSUME NEW r \in Lows, HiOf[r] = Rel, t = "NONE", typ[Rel] # "NONE"
               PROVE  /\ ~HiStays(r)
                      /\ \A j \in idx + 1 .. Len(Body[cur]) : Body[cur][j] = r => WillGo(r)'
    BY DEF TakesHigh
  <2>1. Decides(HiOf[r], rsv) /\ Type0[HiOf[r]] = "HI20" /\ HiOf[r] \in Relocs
    BY <1>1, <1>5, <1>8
  <2>2. /\ Type0[r] = "LO12" /\ Sym[r] = Sym[HiOf[r]] /\ Paired[r] /\ r \in Relocs
        /\ Symbols[Sym[r]].func => Addend[r] = Addend[HiOf[r]]
        /\ \E j \in DOMAIN Body[cur] :
              Body[cur][j] = r /\ (Symbols[Sym[r]].func => j = idx + 1)
    <3>1. Body[cur][idx] = HiOf[r] BY <1>1
    <3>2. r \in Relocs /\ Type0[r] \in {"LO12", "PCLO", "TPLO"} BY DEF Lows, LoTypes
    <3>3. Type0[r] = "LO12"
      <4>1. /\ Type0[r] = "PCLO" => Type0[HiOf[r]] = "PCHI"
            /\ Type0[r] = "TPLO" => Type0[HiOf[r]] = "TPHI"
        BY <1>1, <3>1, PairFacts
      <4> QED BY <2>1, <3>2, <4>1
    <3>4. Paired[r] = Paired[HiOf[r]] /\ Sym[r] = Sym[HiOf[r]]
          /\ (Symbols[Sym[r]].func => Addend[r] = Addend[HiOf[r]])
      BY <1>1, <3>1, <3>3, PairFacts
    <3>5. \E j \in DOMAIN Body[cur] :
             Body[cur][j] = r /\ (Type0[r] = "LO12" /\ Symbols[Sym[r]].func => j = idx + 1)
      <4>1. cur \in Outs /\ idx \in DOMAIN Body[cur] /\ link \in DOMAIN Links
        BY <1>1
      <4> QED BY <3>1, <4>1, LowBehind, Zenon
    <3>6. Paired[r] BY <1>0, <3>4
    <3> QED BY <3>2, <3>3, <3>4, <3>5, <3>6, Zenon
  <2>3. Body' = Body /\ cur' = cur /\ idx' = idx + 1
    BY <1>6 DEF VisitFrame, Body
  <2>4. CASE Symbols[Sym[r]].func
    <3>1. rsv = reserve
      <4>1. Symbols[Sym[Rel]].func BY <2>2, <2>4
      <4> QED BY <1>0, <1>1, <4>1, ReserveNat DEF rsv
    <3>2. ~HiStays(r) BY <2>2, <2>4 DEF HiStays
    <3>3. ASSUME NEW j \in idx + 1 .. Len(Body[cur]), Body[cur][j] = r PROVE WillGo(r)'
      <4>1. j \in DOMAIN Body[cur] BY <1>1
      <4>2. j = idx + 1 BY <1>1, <2>2, <2>4, <3>3, <4>1, OnePlace
      <4>3. Rel' = r BY <2>3, <3>3, <4>2 DEF Rel
      <4>4. Target[r] = Target[HiOf[r]] /\ SecOf(r) = SecOf(HiOf[r])
        BY <2>1, <2>2, <2>4 DEF Target, SecOf
      <4>5. Decides(r, reserve) BY <2>1, <3>1, <4>4 DEF Decides
      <4>6. reserve' = reserve BY <1>4, <3>1
      <4>7. Decides(r, reserve)' BY <1>7, <4>5, <4>6 DEF Decides, SecOf
      <4>8. \E k \in idx' .. Len(Body'[cur']) : Body'[cur'][k] = r BY <2>3, <3>3
      <4> QED BY <2>2, <2>4, <4>3, <4>7, <4>8, Zenon DEF WillGo
    <3> QED BY <3>2, <3>3
  <2>5. CASE ~Symbols[Sym[r]].func
    <3>1. rsv = Behind(HiOf[r])
      <4>1. ~Symbols[Sym[Rel]].func BY <2>2, <2>5
      <4> QED BY <1>0, <1>1, <4>1, ReserveNat DEF rsv
    <3>2. ~HiStays(r) BY <2>1, <2>2, <2>5, <3>1 DEF HiStays
    <3>3. ASSUME NEW j \in idx + 1 .. Len(Body[cur]), Body[cur][j] = r PROVE WillGo(r)'
      <4>1. Decides(r, Behind(r))
        BY <1>0, <1>1, <2>1, <2>2, <2>5, <3>1, PairDecides
      <4>2. Decides(r, Behind(r))' BY <1>7, <4>1 DEF Decides, SecOf, Behind
      <4>3. \E k \in idx' .. Len(Body'[cur']) : Body'[cur'][k] = r BY <2>3, <3>3
      <4> QED BY <2>2, <2>5, <4>2, <4>3, Zenon DEF WillGo
    <3> QED BY <3>2, <3>3
  <2> QED BY <2>4, <2>5
<1> QED
  BY <1>6, <1>9, <1>10, VisitKeeps
\* The type of a low part tells that of its high part, and the other way round.
LEMMA PairTypes ==
    ASSUME link \in DOMAIN Links, NEW r \in Lows, NEW o \in Outs,
           NEW i \in DOMAIN Body[o], Body[o][i] = HiOf[r]
    PROVE  /\ r \in Relocs /\ HiOf[r] \in Relocs /\ Paired[r] = Paired[HiOf[r]]
           /\ \/ Type0[r] = "LO12" /\ Type0[HiOf[r]] = "HI20"
              \/ Type0[r] = "PCLO" /\ Type0[HiOf[r]] = "PCHI"
              \/ Type0[r] = "TPLO" /\ Type0[HiOf[r]] = "TPHI" /\ (TpNear(r) <=> TpNear(HiOf[r]))
<1>1. r \in Relocs /\ Type0[r] \in {"LO12", "PCLO", "TPLO"}
  BY DEF Lows, LoTypes
<1>2. HiOf[r] \in Relocs /\ Paired[r] = Paired[HiOf[r]]
  BY PairFacts
<1>3. Type0[r] = "LO12" => Type0[HiOf[r]] = "HI20"
  BY PairFacts
<1>4. Type0[r] = "PCLO" => Type0[HiOf[r]] = "PCHI"
  BY PairFacts
<1>5. Type0[r] = "TPLO" => Type0[HiOf[r]] = "TPHI" /\ (TpNear(r) <=> TpNear(HiOf[r]))
  BY PairFacts
<1> QED
  BY <1>1, <1>2, <1>3, <1>4, <1>5

LEMMA PcHiKeeps ==
    ASSUME IInv, RelaxPcHi, UNCHANGED link
    PROVE  IInv'
<1> DEFINE rsv  == ReserveFor(Sym[Rel], Addend[Rel])
           a    == SymAddr(Sym[Rel], Addend[Rel])
           sec  == SecOf(Rel)
           open == (sec = 0 \/ sec \notin CodeOrMerge) /\ ~LoSeen(Rel)
           near == open /\ Near(a, sec, sec = 0, rsv)
           rec  == [addr |-> a, sec |-> sec, weak |-> (sec = 0)]
<1>0. LayoutOK /\ VisitOK /\ InLoop /\ NextReloc /\ typ[Rel] = "PCHI" /\ Paired[Rel] /\ ~Pic
  BY DEF IInv, RelaxPcHi, Relaxing
<1>1. Rel \in Relocs /\ cur \in Outs /\ idx \in DOMAIN Body[cur] /\ Rel = Body[cur][idx]
      /\ link \in DOMAIN Links
  BY <1>0, InBody
<1>2. rsv \in Nat
  BY <1>0, <1>1, ReserveNat
<1>3. /\ Near(a, sec, sec = 0, rsv) <=> Decides(Rel, rsv)
      /\ Target[Rel] = a /\ a \in Int /\ sec \in 0 .. NOut
  BY <1>0, <1>1, <1>2, DecidesNear
<1>4. /\ reserve' = rsv /\ loTab' = loTab /\ maxGp' \in {maxGp, CachedMax}
      /\ \/ near /\ RecordHi(Rel, rec) /\ Becomes(Rel, "NONE") /\ Delete(HiLen)
         \/ Keep /\ UNCHANGED hiTab
  BY Zenon DEF RelaxPcHi, FillCache, SecOf
<1> HIDE DEF a, sec, rsv
<1>5. rec.addr = a /\ rec.sec = sec /\ rec.weak = (sec = 0)
  OBVIOUS
<1> HIDE DEF rec
<1>6. typ[Rel] = Type0[Rel] /\ mark \in Int /\ typ = [typ EXCEPT ![Rel] = typ[Rel]]
  BY <1>0, KeepFrame DEF HiTypes
<1>7. ASSUME NEW t, VisitFrame(t) PROVE LeavesLow(t)
  BY <1>0, <1>6 DEF LeavesLow, Lows, LoTypes
<1>8. CASE Keep /\ UNCHANGED hiTab
  <2>1. typ' = [typ EXCEPT ![Rel] = typ[Rel]] /\ mark' \in Int
    BY <1>6, <1>8 DEF Keep
  <2>2. VisitFrame(typ[Rel])
    BY <1>0, <1>2, <1>4, <1>8, <2>1, NextRelocFrame DEF VisitFrame
  <2>3. TakesHigh(typ[Rel]) BY DEF TakesHigh
  <2> QED BY <1>7, <2>2, <2>3, VisitKeeps
<1>9. CASE near /\ RecordHi(Rel, rec) /\ Becomes(Rel, "NONE") /\ Delete(HiLen)
  <2>1. typ' = [typ EXCEPT ![Rel] = "NONE"] BY <1>9 DEF Becomes
  <2>2. mark' \in Int BY <1>6, <1>9 DEF Delete, HiLen
  <2>3. hiTab' = [x \in DOMAIN hiTab \cup {Rel} |-> IF x = Rel THEN rec ELSE hiTab[x]]
    BY <1>9 DEF RecordHi
  <2>4. /\ DOMAIN hiTab \subseteq DOMAIN hiTab' /\ hiTab'[Rel] = rec /\ Rel \in DOMAIN hiTab'
        /\ \A h \in DOMAIN hiTab' : h # Rel => h \in DOMAIN hiTab /\ hiTab'[h] = hiTab[h]
    BY <2>3
  <2>5. VisitFrame("NONE")
    <3>1. \A h \in DOMAIN hiTab' :
             \/ h \in DOMAIN hiTab /\ hiTab'[h] = hiTab[h]
             \/ h = Rel /\ hiTab'[h].addr \in Int /\ hiTab'[h].sec \in 0 .. NOut
                        /\ hiTab'[h].weak = (hiTab'[h].sec = 0)
      <4> SUFFICES ASSUME NEW h \in DOMAIN hiTab', h = Rel
                   PROVE  /\ hiTab'[h].addr \in Int /\ hiTab'[h].sec \in 0 .. NOut
                          /\ hiTab'[h].weak = (hiTab'[h].sec = 0)
        BY <2>4
      <4>1. hiTab'[h] = rec BY <2>4
      <4> QED BY <1>3, <1>5, <4>1
    <3> QED BY <1>0, <1>2, <1>4, <2>1, <2>2, <2>4, <3>1, NextRelocFrame DEF VisitFrame, Done
  <2>6. InReach' = InReach
    BY <1>0, <2>5, SameReach DEF VisitFrame
  <2>7. <<a, sec, 0>> \in InReach
    <3>1. <<a, sec, rsv>> \in InReach BY <1>3, <1>9 DEF Decides, sec
    <3> QED BY <1>0, <1>2, <1>3, <3>1, InReachWithLess
  <2>8. TakesHigh("NONE")
    <3> SUFFICES ASSUME NEW r \in Lows, HiOf[r] = Rel
                 PROVE  /\ ~HiStays(r)
                        /\ \A j \in idx + 1 .. Len(Body[cur]) : Body[cur][j] = r => WillGo(r)'
      BY DEF TakesHigh
    <3>1. Body[cur][idx] = HiOf[r] BY <1>1
    <3>2. Type0[r] = "PCLO" /\ Paired[r]
      BY <1>0, <1>1, <1>6, <3>1, PairTypes
    <3>3. ~HiStays(r)
      <4>1. HiOf[r] \notin loTab BY <1>9 DEF LoSeen
      <4> QED BY <1>0, <3>2, <4>1 DEF HiStays
    <3>4. ASSUME NEW j \in idx + 1 .. Len(Body[cur]), Body[cur][j] = r PROVE WillGo(r)'
      <4>1. Body' = Body /\ cur' = cur /\ idx' = idx + 1
        BY <2>5 DEF VisitFrame, Body
      <4>2. \E k \in idx' .. Len(Body'[cur']) : Body'[cur'][k] = r BY <3>4, <4>1
      <4>3. HiOf[r] \in DOMAIN hiTab' /\ hiTab'[HiOf[r]] = rec BY <2>4
      <4>4. <<hiTab'[HiOf[r]].addr, hiTab'[HiOf[r]].sec, 0>> \in InReach'
        BY <1>5, <2>6, <2>7, <4>3
      <4> QED BY <1>0, <3>2, <4>2, <4>3, <4>4 DEF WillGo
    <3> QED BY <3>3, <3>4
  <2> QED BY <1>7, <2>5, <2>8, VisitKeeps
<1> QED
  BY <1>4, <1>8, <1>9

LEMMA PcLoKeeps ==
    ASSUME IInv, RelaxPcLo, UNCHANGED link
    PROVE  IInv'
<1> DEFINE h    == HiOf[Rel]
           rsv  == ReserveFor(Sym[Rel], Addend[Rel])
           near == Near(hiTab[h].addr, hiTab[h].sec, hiTab[h].weak, rsv)
           n    == Len(Body[cur])
<1>0. LayoutOK /\ VisitOK /\ HiTabOK /\ InLoop /\ NextReloc /\ typ[Rel] = "PCLO" /\ Paired[Rel] /\ ~Pic
  BY DEF IInv, RelaxPcLo, Relaxing
<1>1. Rel \in Relocs /\ cur \in Outs /\ idx \in DOMAIN Body[cur] /\ Rel = Body[cur][idx]
      /\ link \in DOMAIN Links /\ Visiting /\ DOMAIN Body[cur] = 1 .. n /\ n \in Nat
  BY <1>0, InBody
<1>2. rsv \in Nat
  BY <1>0, <1>1, ReserveNat
<1>3. /\ reserve' = rsv /\ hiTab' = hiTab
      /\ \/ h \notin DOMAIN hiTab /\ loTab' = loTab \cup {h} /\ Keep /\ UNCHANGED maxGp
         \/ /\ h \in DOMAIN hiTab /\ loTab' = loTab /\ maxGp' \in {maxGp, CachedMax}
            /\ \/ near /\ Becomes(Rel, "GPREL") /\ UNCHANGED <<mark, again>>
               \/ ~near /\ Keep
  BY Zenon DEF RelaxPcLo, FillCache
<1>4. typ[Rel] = Type0[Rel] /\ mark \in Int /\ typ = [typ EXCEPT ![Rel] = typ[Rel]]
  BY <1>0, KeepFrame DEF LoTypes
<1>5. Rel \in Lows
  BY <1>0, <1>1, <1>4 DEF Lows, LoTypes
<1>6. ASSUME NEW t, t \in {typ[Rel], "GPREL"}, VisitFrame(t), LeavesLow(t) PROVE IInv'
  <2>1. TakesHigh(t) BY <1>0, <1>6 DEF TakesHigh
  <2> QED BY <1>6, <2>1, VisitKeeps
<1>7. CASE h \notin DOMAIN hiTab /\ loTab' = loTab \cup {h} /\ Keep /\ UNCHANGED maxGp
  <2>1. typ' = [typ EXCEPT ![Rel] = typ[Rel]] /\ mark' \in Int
    BY <1>4, <1>7 DEF Keep
  <2>2. VisitFrame(typ[Rel])
    BY <1>0, <1>2, <1>3, <1>7, <2>1, NextRelocFrame DEF VisitFrame
  <2>3. LeavesLow(typ[Rel])
    <3> SUFFICES ASSUME NEW r \in Lows, r = Rel PROVE ~WillGo(r) /\ HiStays(r)'
      BY DEF LeavesLow
    <3>1. Type0[r] = "PCLO" /\ HiOf[r] \notin DOMAIN hiTab /\ HiOf[r] \in loTab'
      BY <1>0, <1>4, <1>7
    <3> QED BY <3>1 DEF WillGo, HiStays
  <2> QED BY <1>6, <2>2, <2>3
<1>8. CASE h \in DOMAIN hiTab /\ loTab' = loTab /\ maxGp' \in {maxGp, CachedMax}
  <2>1. PICK j \in 1 .. idx - 1 : Body[cur][j] = h
    BY <1>0, <1>1, <1>8 DEF HiTabOK
  <2>2. j \in DOMAIN Body[cur] /\ idx \in Nat /\ j < idx
    BY <1>1
  <2>3. rsv = 0
    <3>1. Symbols[Sym[Rel]].size = 0 /\ ~Symbols[Sym[Rel]].func
      BY <1>0, <1>1, <1>4, <1>5, <2>1, <2>2, PairFacts
    <3>2. rsv = Behind(Rel) BY <1>0, <1>1, <3>1, ReserveNat
    <3>3. Addend[Rel] \in Nat BY <1>1, RelocsAssumption
    <3> QED BY <3>1, <3>2, <3>3 DEF Behind
  <2>4. near <=> <<hiTab[h].addr, hiTab[h].sec, 0>> \in InReach
    <3> DEFINE x == <<hiTab[h].addr, hiTab[h].sec, 0>>
    <3>1. hiTab[h].addr \in Int /\ hiTab[h].sec \in 0 .. NOut /\ hiTab[h].weak = (hiTab[h].sec = 0)
      BY <1>0, <1>8 DEF HiTabOK
    <3>2. x \in Int \X (0 .. NOut) \X Nat /\ x[1] = hiTab[h].addr /\ x[2] = hiTab[h].sec /\ x[3] = 0
      BY <3>1
    <3> HIDE DEF x
    <3>3. x \in InReach <=> Near(x[1], x[2], x[2] = 0, x[3])
      BY <3>2 DEF InReach
    <3>4. x \in InReach <=> Near(hiTab[h].addr, hiTab[h].sec, hiTab[h].sec = 0, 0)
      BY <3>2, <3>3
    <3>5. near <=> Near(hiTab[h].addr, hiTab[h].sec, hiTab[h].sec = 0, 0)
      BY <2>3, <3>1
    <3> QED BY <3>4, <3>5 DEF x
  <2>5. CASE near /\ Becomes(Rel, "GPREL") /\ UNCHANGED <<mark, again>>
    <3>1. typ' = [typ EXCEPT ![Rel] = "GPREL"] /\ mark' \in Int
      BY <1>4, <2>5 DEF Becomes
    <3>2. VisitFrame("GPREL")
      BY <1>0, <1>2, <1>3, <1>8, <3>1, NextRelocFrame DEF VisitFrame, Done
    <3>3. LeavesLow("GPREL") BY <1>0 DEF LeavesLow
    <3> QED BY <1>6, <3>2, <3>3
  <2>6. CASE ~near /\ Keep
    <3>1. typ' = [typ EXCEPT ![Rel] = typ[Rel]] /\ mark' \in Int
      BY <1>4, <2>6 DEF Keep
    <3>2. VisitFrame(typ[Rel])
      BY <1>0, <1>2, <1>3, <1>8, <3>1, NextRelocFrame DEF VisitFrame
    <3>3. LeavesLow(typ[Rel])
      <4> SUFFICES ASSUME NEW r \in Lows, r = Rel
                   PROVE  /\ ~WillGo(r)
                          /\ \A i \in idx + 1 .. Len(Body[cur]) : Body[cur][i] # HiOf[r]
        BY DEF LeavesLow
      <4>1. ~WillGo(r) BY <1>0, <1>4, <2>4, <2>6 DEF WillGo
      <4>2. ASSUME NEW i \in idx + 1 .. n, Body[cur][i] = HiOf[r] PROVE FALSE
        <5>1. i \in DOMAIN Body[cur] /\ i # j BY <1>1, <2>2
        <5>2. Body[cur][i] = Body[cur][j] BY <2>1, <4>2
        <5> QED BY <1>1, <2>2, <5>1, <5>2, OnePlace
      <4> QED BY <4>1, <4>2
    <3> QED BY <1>6, <3>2, <3>3
  <2> QED BY <1>3, <1>8, <2>5, <2>6
<1> QED
  BY <1>3, <1>7, <1>8

LEMMA TlsLeKeeps ==
    ASSUME IInv, RelaxTlsLe, UNCHANGED link
    PROVE  IInv'
<1>0. /\ LayoutOK /\ VisitOK /\ InLoop /\ NextReloc /\ Paired[Rel]
      /\ typ[Rel] \in {"TPHI", "TPADD", "TPLO"}
  BY DEF IInv, RelaxTlsLe, Relaxing
<1>1. Rel \in Relocs /\ cur \in Outs /\ idx \in DOMAIN Body[cur] /\ Rel = Body[cur][idx]
      /\ link \in DOMAIN Links /\ DOMAIN Body[cur] = 1 .. Len(Body[cur]) /\ Len(Body[cur]) \in Nat
  BY <1>0, InBody
<1>2. reserve' \in Nat
  BY <1>0, <1>1, ReserveNat DEF RelaxTlsLe
<1>3. UNCHANGED <<hiTab, loTab, maxGp>>
  BY DEF RelaxTlsLe
<1>4. typ[Rel] = Type0[Rel] /\ mark \in Int /\ typ = [typ EXCEPT ![Rel] = typ[Rel]]
  BY <1>0, KeepFrame DEF HiTypes, LoTypes
<1>5. PICK t : /\ typ' = [typ EXCEPT ![Rel] = t] /\ mark' \in Int
               /\ \/ TpNear(Rel) /\ typ[Rel] = "TPLO" /\ t = "TPREL"
                  \/ TpNear(Rel) /\ typ[Rel] # "TPLO" /\ t = "NONE"
                  \/ ~TpNear(Rel) /\ t = typ[Rel]
  <2>1. CASE TpNear(Rel) /\ typ[Rel] = "TPLO" /\ Becomes(Rel, "TPREL") /\ UNCHANGED <<mark, again>>
    BY <1>4, <2>1 DEF Becomes
  <2>2. CASE TpNear(Rel) /\ typ[Rel] # "TPLO" /\ Becomes(Rel, "NONE") /\ Delete(HiLen)
    <3>1. mark' \in Int BY <1>4, <2>2 DEF Delete, HiLen
    <3>2. typ' = [typ EXCEPT ![Rel] = "NONE"] BY <2>2 DEF Becomes
    <3> QED BY <2>2, <3>1, <3>2, Zenon
  <2>3. CASE ~TpNear(Rel) /\ Keep
    BY <1>4, <2>3 DEF Keep
  <2> QED BY <2>1, <2>2, <2>3 DEF RelaxTlsLe
<1>6. VisitFrame(t)
  BY <1>0, <1>2, <1>3, <1>5, NextRelocFrame DEF VisitFrame, Done
<1>7. ASSUME NEW r \in Relocs PROVE TpNear(r)' <=> TpNear(r)
  BY <1>6 DEF TpNear, HighPart, Page, IReach, VisitFrame
<1>8. LeavesLow(t)
  <2> SUFFICES ASSUME NEW r \in Lows, r = Rel, t = typ[r]
               PROVE  /\ ~WillGo(r)
                      /\ \A i \in idx + 1 .. Len(Body[cur]) : Body[cur][i] = HiOf[r] => HiStays(r)'
    BY DEF LeavesLow
  <2>1. r \in Relocs /\ Type0[r] = "TPLO"
    BY <1>0, <1>4 DEF Lows, LoTypes
  <2>2. ~TpNear(r) BY <1>4, <1>5, <2>1
  <2>3. ~WillGo(r) BY <2>1, <2>2 DEF WillGo
  <2>4. ASSUME NEW i \in idx + 1 .. Len(Body[cur]), Body[cur][i] = HiOf[r] PROVE HiStays(r)'
    <3>1. i \in DOMAIN Body[cur] BY <1>1
    <3>2. HiOf[r] \in Relocs /\ ~TpNear(HiOf[r])
      BY <1>1, <2>1, <2>2, <2>4, <3>1, PairTypes
    <3>3. ~TpNear(HiOf[r])' BY <1>7, <3>2
    <3> QED BY <2>1, <3>3 DEF HiStays
  <2> QED BY <2>3, <2>4
<1>9. TakesHigh(t)
  <2> SUFFICES ASSUME NEW r \in Lows, HiOf[r] = Rel, t = "NONE", typ[Rel] # "NONE"
               PROVE  /\ ~HiStays(r)
                      /\ \A j \in idx + 1 .. Len(Body[cur]) : Body[cur][j] = r => WillGo(r)'
    BY DEF TakesHigh
  <2>1. Body[cur][idx] = HiOf[r] BY <1>1
  <2>2. TpNear(HiOf[r]) BY <1>5
  <2>3. Type0[r] = "TPLO" /\ Paired[r] /\ TpNear(r) /\ r \in Relocs
    BY <1>0, <1>1, <1>4, <2>1, <2>2, PairTypes
  <2>4. ~HiStays(r) BY <2>2, <2>3 DEF HiStays
  <2>5. ASSUME NEW j \in idx + 1 .. Len(Body[cur]), Body[cur][j] = r PROVE WillGo(r)'
    <3>1. Body' = Body /\ cur' = cur /\ idx' = idx + 1
      BY <1>6 DEF VisitFrame, Body
    <3>2. \E k \in idx' .. Len(Body'[cur']) : Body'[cur'][k] = r BY <2>5, <3>1
    <3>3. TpNear(r)' BY <1>7, <2>3
    <3> QED BY <2>3, <3>2, <3>3 DEF WillGo
  <2> QED BY <2>4, <2>5
<1> QED
  BY <1>6, <1>8, <1>9, VisitKeeps
-----------------------------------------------------------------------------
(* The steps between the visits *)

\* Outside the loop, and behind its last reloc, no low part is without its high part.
NoOrphans == \A r \in Lows : Left(r) => typ[HiOf[r]] # "NONE"

LEMMA QuietHasNone ==
    ASSUME IInv, ~Visiting \/ idx > Len(Body[cur])
    PROVE  NoOrphans
<1> SUFFICES ASSUME NEW r \in Lows, Left(r), typ[HiOf[r]] = "NONE" PROVE FALSE
  BY DEF NoOrphans
<1>1. Visiting /\ WillGo(r)
  BY DEF IInv, OrphansGo
<1>2. cur \in Outs /\ link \in DOMAIN Links /\ idx \in Nat
  BY <1>1 DEF IInv, LayoutOK, VisitOK, Visiting
<1>3. Len(Body[cur]) \in Nat
  BY <1>2, LinkFacts
<1>4. PICK j \in idx .. Len(Body[cur]) : TRUE
  BY <1>1 DEF WillGo
<1> QED
  BY <1>1, <1>2, <1>3, <1>4

LEMMA QuietKeeps ==
    ASSUME IInv, ~Visiting \/ idx > Len(Body[cur]),
           UNCHANGED <<typ, hiTab, maxGp, reserve, idx>>, ~Visiting', LayoutOK'
    PROVE  IInv'
<1>1. NoOrphans
  BY QuietHasNone
<1>2. VisitOK'
  BY DEF IInv, VisitOK, Left, Unset
<1>3. HiTabOK'
  BY DEF IInv, HiTabOK
<1>4. OrphansGo'
  BY <1>1 DEF NoOrphans, OrphansGo, Left
<1>5. PassedOver'
  BY DEF PassedOver
<1> QED
  BY <1>2, <1>3, <1>4, <1>5 DEF IInv

LEMMA EnterKeeps ==
    ASSUME IInv, Enter, UNCHANGED link
    PROVE  IInv'
<1>0. LayoutOK /\ VisitOK /\ phase = "enter" /\ ~Visiting /\ cur \in Outs /\ link \in DOMAIN Links
  BY DEF IInv, Enter, Visiting, LayoutOK
<1>1. NoOrphans
  BY <1>0, QuietHasNone
<1>2. /\ UNCHANGED <<typ, size, mark, addr, osize, dot, gpabs, seg, base, rend, pass, round, cur, link>>
      /\ hiTab' = << >> /\ idx' = 1 /\ reserve' = 0 /\ phase' = "relax" /\ pass \in {0, 1}
      /\ maxGp' \in {Unset, maxGp}
  BY DEF Enter, Entered, code, lay
<1>3. Body' = Body /\ Align' = Align /\ Rounds' = Rounds
  BY <1>2 DEF Body, Align, Rounds, Starts
<1>4. LayoutOK'
  <2>1. \A o \in Outs : \E q \in Int : addr'[o] = q * Align'[o]
    BY <1>0, <1>2, <1>3 DEF LayoutOK
  <2> QED BY <1>0, <1>2, <1>3, <2>1 DEF LayoutOK
<1>5. Len(Body[cur]) \in Nat
  BY <1>0, LinkFacts
<1>6. VisitOK'
  BY <1>0, <1>2, <1>3, <1>5 DEF VisitOK, Left, Unset
<1>7. HiTabOK'
  BY <1>2 DEF HiTabOK
<1>8. OrphansGo'
  BY <1>1, <1>2 DEF NoOrphans, OrphansGo, Left
<1>9. PassedOver'
  <2>1. 1 .. idx' - 1 = {} BY <1>2
  <2> QED BY <2>1 DEF PassedOver
<1> QED
  BY <1>4, <1>6, <1>7, <1>8, <1>9 DEF IInv

\* The starts of the walks are addresses.
LEMMA StartsInt ==
    ASSUME link \in DOMAIN Links, NEW n \in 1 .. Rounds
    PROVE  Starts[n] \in Int
BY LinkFacts DEF Rounds

\* An address section o gets is a multiple of its alignment.
LEMMA PlacedAligned ==
    ASSUME LayoutOK, cur \in Outs, NEW d \in Int, addr' = [addr EXCEPT ![cur] = AlignUp(d, Align[cur])]
    PROVE  /\ AlignUp(d, Align[cur]) \in Int /\ addr' \in [Outs -> Int]
           /\ \A o \in Outs : \E q \in Int : addr'[o] = q * Align[o]
<1>1. Align[cur] \in Nat \ {0}
  BY LinkFacts DEF LayoutOK
<1>2. AlignUp(d, Align[cur]) \in Int /\ \E q \in Int : AlignUp(d, Align[cur]) = q * Align[cur]
  BY <1>1, AlignUpFacts
<1>3. addr' \in [Outs -> Int]
  BY <1>2 DEF LayoutOK
<1>4. ASSUME NEW o \in Outs PROVE \E q \in Int : addr'[o] = q * Align[o]
  <2>1. CASE o = cur BY <1>2, <2>1 DEF LayoutOK
  <2>2. CASE o # cur
    <3>1. addr'[o] = addr[o] BY <2>2 DEF LayoutOK
    <3> QED BY <3>1 DEF LayoutOK
  <2> QED BY <2>1, <2>2
<1> QED
  BY <1>2, <1>3, <1>4

\* The sections keep their places.
LEMMA SamePlaces ==
    ASSUME LayoutOK, UNCHANGED <<link, addr>>
    PROVE  /\ link' \in DOMAIN Links /\ addr' \in [Outs -> Int] /\ Rounds' = Rounds /\ Starts' = Starts
           /\ \A o \in Outs : \E q \in Int : addr'[o] = q * Align'[o]
<1>1. Align' = Align /\ Rounds' = Rounds /\ Starts' = Starts
  BY DEF Align, Rounds, Starts
<1> QED
  BY <1>1 DEF LayoutOK

LEMMA OpenLayout ==
    ASSUME LayoutOK, Open, UNCHANGED link
    PROVE  LayoutOK'
<1> DEFINE d == IF cur = DataFirst THEN SegmentAlign(dot) ELSE dot
<1>0. link \in DOMAIN Links /\ {dot, base} \subseteq Int /\ seg \in {"none", "adjust", "relro"}
      /\ phase = "open" /\ cur \in Outs
  BY DEF LayoutOK, Open
<1>1. SegmentAlign(dot) \in Int
  <2>1. Page \in Nat \ {0} /\ AlignUp(dot, Page) \in Int
    BY <1>0, LinkFacts, AlignUpFacts
  <2>2. dot % Page \in Int
    BY <1>0, <2>1
  <2>3. CASE seg = "relro" BY <1>0, <2>3 DEF SegmentAlign
  <2>4. CASE seg = "adjust" BY <2>1, <2>4 DEF SegmentAlign
  <2>5. CASE seg = "none"
    <3>1. SegmentAlign(dot) = AlignUp(dot, Page) + (IF Relro THEN 0 ELSE dot % Page)
      BY <2>5 DEF SegmentAlign
    <3>2. (IF Relro THEN 0 ELSE dot % Page) \in Int BY <2>2
    <3> QED BY <2>1, <3>1, <3>2
  <2> QED BY <1>0, <2>3, <2>4, <2>5
<1>2. d \in Int
  BY <1>0, <1>1
<1>3. /\ addr' = [addr EXCEPT ![cur] = AlignUp(d, Align[cur])] /\ dot' = AlignUp(d, Align[cur])
      /\ base' \in {d, base} /\ phase' = "enter"
      /\ UNCHANGED <<size, mark, osize, gpabs, seg, rend, pass, round, cur, link>>
  BY DEF Open, code
<1> HIDE DEF d
<1>4. /\ AlignUp(d, Align[cur]) \in Int /\ addr' \in [Outs -> Int]
      /\ \A o \in Outs : \E q \in Int : addr'[o] = q * Align[o]
  BY <1>0, <1>2, <1>3, PlacedAligned
<1>5. Align' = Align /\ Rounds' = Rounds
  BY <1>3 DEF Align, Rounds, Starts
<1> QED
  BY <1>0, <1>2, <1>3, <1>4, <1>5 DEF LayoutOK

LEMMA PlaceLayout ==
    ASSUME LayoutOK, Place, UNCHANGED link
    PROVE  LayoutOK'
<1> DEFINE d == dot + size[cur]
<1>0. link \in DOMAIN Links /\ {dot, gpabs, rend} \subseteq Int /\ phase = "place" /\ cur \in Outs
      /\ addr \in [Outs -> Int] /\ size \in [Outs -> Int]
  BY DEF LayoutOK, Place
<1>1. d \in Int
  BY <1>0
<1>2. /\ dot' = RelroEnd(d) /\ rend' \in {d, rend} /\ gpabs' \in {GpValue(addr, d), gpabs}
      /\ cur' = cur + 1 /\ phase' = (IF cur = NOut THEN "walk" ELSE "open")
      /\ UNCHANGED <<size, mark, addr, seg, base, pass, round, link>>
  BY DEF Place, code
<1> HIDE DEF d
<1>3. RelroEnd(d) \in Int
  <2>1. AlignUp(d, Page) \in Int BY <1>0, <1>1, LinkFacts, AlignUpFacts
  <2> QED BY <1>1, <2>1 DEF RelroEnd
<1>4. GpValue(addr, d) \in Int
  <2>1. SdataSec \in Outs /\ DataSec \in Outs BY SectionsAssumption
  <2>2. addr[SdataSec] \in Int /\ addr[DataSec] \in Int /\ IReach \in Int BY <1>0, <2>1, LinkFacts
  <2> QED BY <1>1, <2>2 DEF GpValue, Least, Greatest
<1>5. cur # NOut => cur' \in Outs
  <2>1. NOut \in Nat BY SectionsAssumption
  <2>2. cur' = cur + 1 BY <1>2
  <2> QED BY <1>0, <2>1, <2>2 DEF Outs
<1>6. /\ link' \in DOMAIN Links /\ addr' \in [Outs -> Int] /\ Rounds' = Rounds
      /\ \A o \in Outs : \E q \in Int : addr'[o] = q * Align'[o]
  BY <1>2, SamePlaces
<1>7. phase' \in {"walk", "open"} /\ (phase' = "open" => cur' \in Outs)
  BY <1>2, <1>5
<1> QED
  BY <1>0, <1>1, <1>2, <1>3, <1>4, <1>6, <1>7 DEF LayoutOK

LEMMA WalkLayout ==
    ASSUME LayoutOK, UNCHANGED link, SegmentWalk \/ RelroWalk \/ NextTrip \/ MapSegments
    PROVE  LayoutOK'
<1>0. link \in DOMAIN Links /\ round \in 1 .. Rounds
  BY DEF LayoutOK
<1>1. /\ UNCHANGED <<size, mark, addr, gpabs, rend>> /\ phase' = "open" /\ cur' = 1
      /\ dot' = Starts[round'] /\ base' \in {base, RelroBase} /\ seg' \in {"none", "adjust", "relro"}
      /\ round' = round \/ (round < Rounds /\ round' = round + 1)
  BY DEF SegmentWalk, RelroWalk, NextTrip, MapSegments, Rewalk, code
<1>2. Rounds \in Nat
  BY <1>0, LinkFacts
<1>3. round' \in 1 .. Rounds
  BY <1>0, <1>1, <1>2
<1>4. Starts[round'] \in Int
  BY <1>0, <1>3, StartsInt
<1>5. RelroBase \in Int
  BY <1>0, RelroBaseInt DEF LayoutOK
<1>6. 1 \in Outs
  BY SectionsAssumption DEF Outs
<1>7. /\ link' \in DOMAIN Links /\ addr' \in [Outs -> Int] /\ Rounds' = Rounds
      /\ \A o \in Outs : \E q \in Int : addr'[o] = q * Align'[o]
  BY <1>1, SamePlaces
<1> QED
  BY <1>1, <1>3, <1>4, <1>5, <1>6, <1>7 DEF LayoutOK

\* The visit ends: the section shrinks by what was marked.
LEMMA ShrinkLayout ==
    ASSUME LayoutOK, UNCHANGED link, Resolve \/ RelaxAligns
    PROVE  LayoutOK'
<1>0. /\ cur \in Outs /\ phase' = "place" /\ UNCHANGED <<addr, gpabs, dot, base, rend, seg, round, cur, pass>>
      /\ mark' \in {mark, 0} /\ mark \in Int /\ size \in [Outs -> Int]
  BY DEF Resolve, RelaxAligns, LayoutOK, lay
<1>1. \E k \in Int : size' = [size EXCEPT ![cur] = k]
  <2>1. CASE Resolve
    <3>1. PICK k \in 0 .. cut[cur] : size' = [size EXCEPT ![cur] = @ - mark - k] BY <2>1 DEF Resolve
    <3>2. size[cur] - mark - k \in Int BY <1>0
    <3> QED BY <3>1, <3>2
  <2>2. CASE RelaxAligns
    <3>1. PICK k \in 0 .. nops[cur] : size' = [size EXCEPT ![cur] = @ - k] BY <2>2 DEF RelaxAligns
    <3>2. size[cur] - k \in Int BY <1>0
    <3> QED BY <3>1, <3>2
  <2> QED BY <2>1, <2>2
<1>2. size' \in [Outs -> Int]
  BY <1>0, <1>1
<1>3. /\ link' \in DOMAIN Links /\ addr' \in [Outs -> Int] /\ Rounds' = Rounds
      /\ \A o \in Outs : \E q \in Int : addr'[o] = q * Align'[o]
  BY <1>0, SamePlaces
<1> QED
  BY <1>0, <1>2, <1>3 DEF LayoutOK
-----------------------------------------------------------------------------
(* The theorems *)

LEMMA InitIInv ==
    ASSUME Init
    PROVE  IInv
<1>0. link \in DOMAIN Links /\ size \in Sizes
  BY DEF Init
<1>1. size \in [Outs -> Int]
  <2>1. size \in [Outs -> Nat] BY <1>0, LinkFacts
  <2> QED BY <2>1
<1>2. \A o \in Outs : \E q \in Int : addr[o] = q * Align[o]
  <2> SUFFICES ASSUME NEW o \in Outs PROVE addr[o] = 0 * Align[o]
    OBVIOUS
  <2>1. Align[o] \in Nat BY <1>0, LinkFacts
  <2>2. addr[o] = 0 BY DEF Init
  <2> QED BY <2>1, <2>2
<1>3. 1 \in 1 .. Rounds /\ Starts[1] \in Int
  <2>1. 1 \in 1 .. Rounds BY <1>0, LinkFacts
  <2> QED BY <1>0, <2>1, StartsInt
<1>4. 1 \in Outs
  BY SectionsAssumption DEF Outs
<1>5. LayoutOK
  BY <1>0, <1>1, <1>2, <1>3, <1>4 DEF Init, LayoutOK
<1>6. ~Visiting
  BY DEF Init, Visiting
<1>7. VisitOK
  <2>1. Type0 \in [Relocs -> HiTypes \cup LoTypes] BY RelocsAssumption
  <2>2. typ \in [Relocs -> HiTypes \cup LoTypes \cup Done] BY <2>1 DEF Init
  <2> QED BY <1>6, <2>2 DEF Init, VisitOK, Left
<1>8. HiTabOK
  BY <1>6 DEF Init, HiTabOK
<1>9. OrphansGo
  <2>1. ASSUME NEW r \in Lows PROVE typ[HiOf[r]] # "NONE"
    <3>1. HiOf[r] \in Relocs BY RelocsAssumption DEF Lows
    <3>2. typ[HiOf[r]] \in HiTypes \cup LoTypes BY <3>1, RelocsAssumption DEF Init
    <3> QED BY <3>2 DEF HiTypes, LoTypes
  <2> QED BY <2>1 DEF OrphansGo
<1>10. PassedOver
  BY <1>6 DEF PassedOver
<1> QED
  BY <1>5, <1>7, <1>8, <1>9, <1>10 DEF IInv

LEMMA NextIInv ==
    ASSUME IInv, [Next]_vars
    PROVE  IInv'
<1>0. LayoutOK /\ VisitOK
  BY DEF IInv
<1>1. CASE UNCHANGED vars
  <2>1. UNCHANGED <<typ, size, osize, addr, mark, reserve, hiTab, loTab, maxGp, gpabs, seg, base,
                    rend, pass, round, phase, cur, idx, dot, link>>
    BY <1>1 DEF vars, all, code, lay, visit, ctl, caches
  <2>2. Visiting' <=> Visiting
    BY <2>1 DEF Visiting
  <2>3. maxGp' \in {maxGp, CachedMax}
    BY <2>1
  <2>4. InReach' = InReach /\ Target' = Target
    BY <1>0, <2>1, <2>3, SameReach
  <2>5. LayoutOK'
    <3>1. /\ link' \in DOMAIN Links /\ addr' \in [Outs -> Int] /\ Rounds' = Rounds
          /\ \A o \in Outs : \E q \in Int : addr'[o] = q * Align'[o]
      BY <1>0, <2>1, SamePlaces
    <3> QED BY <1>0, <2>1, <3>1 DEF LayoutOK
  <2>6. Body' = Body /\ Rel' = Rel
    BY <2>1 DEF Body, Rel
  <2>7. VisitOK'
    BY <1>0, <2>1, <2>2, <2>6 DEF VisitOK, Left, Unset
  <2>8. HiTabOK'
    BY <2>1, <2>2, <2>6 DEF IInv, HiTabOK
  <2>9. ASSUME NEW r \in Relocs PROVE TpNear(r)' <=> TpNear(r)
    BY <2>1 DEF TpNear, HighPart, Page, IReach
  <2>10. OrphansGo'
    <3> SUFFICES ASSUME NEW r \in Lows, typ[r] = Type0[r], typ[HiOf[r]] = "NONE"
                 PROVE  Visiting' /\ WillGo(r)'
      BY <2>1 DEF OrphansGo, Left
    <3>1. Visiting /\ WillGo(r) BY DEF IInv, OrphansGo, Left
    <3>2. r \in Relocs BY DEF Lows
    <3>3. Decides(r, reserve)' <=> Decides(r, reserve) BY <2>1, <2>4 DEF Decides, SecOf
    <3>4. Decides(r, Behind(r))' <=> Decides(r, Behind(r)) BY <2>4 DEF Decides, SecOf, Behind
    <3>5. (<<hiTab[HiOf[r]].addr, hiTab[HiOf[r]].sec, 0>> \in InReach)'
            <=> <<hiTab[HiOf[r]].addr, hiTab[HiOf[r]].sec, 0>> \in InReach
      BY <2>1, <2>4
    <3>6. \E j \in idx' .. Len(Body'[cur']) : Body'[cur'][j] = r
      BY <2>1, <2>6, <3>1 DEF WillGo
    <3>7. TpNear(r)' <=> TpNear(r) BY <2>9, <3>2
    <3> QED BY <2>1, <2>2, <2>6, <3>1, <3>3, <3>4, <3>5, <3>6, <3>7 DEF WillGo
  <2>11. PassedOver'
    <3> SUFFICES ASSUME Visiting', NEW r \in Lows, NEW i \in idx .. Len(Body[cur]), NEW j \in 1 .. idx - 1,
                        Body[cur][i] = HiOf[r], Body[cur][j] = r, typ[r] = Type0[r]
                 PROVE  HiStays(r)'
      BY <2>1, <2>6 DEF PassedOver, Left
    <3>1. HiStays(r) BY <2>2 DEF IInv, PassedOver, Left
    <3>2. Decides(HiOf[r], Behind(HiOf[r]))' <=> Decides(HiOf[r], Behind(HiOf[r]))
      BY <2>4 DEF Decides, SecOf, Behind
    <3>3. HiOf[r] \in Relocs BY RelocsAssumption DEF Lows
    <3>4. TpNear(HiOf[r])' <=> TpNear(HiOf[r]) BY <2>9, <3>3
    <3> QED BY <2>1, <3>1, <3>2, <3>4 DEF HiStays
  <2> QED BY <2>5, <2>7, <2>8, <2>10, <2>11 DEF IInv
<1>2. CASE Next
  <2>0. Step /\ UNCHANGED link
    BY <1>2 DEF Next
  <2>1. CASE SkipReloc BY <2>0, <2>1, SkipKeeps
  <2>2. CASE RelaxLui BY <2>0, <2>2, LuiKeeps
  <2>3. CASE RelaxPcHi BY <2>0, <2>3, PcHiKeeps
  <2>4. CASE RelaxPcLo BY <2>0, <2>4, PcLoKeeps
  <2>5. CASE RelaxTlsLe BY <2>0, <2>5, TlsLeKeeps
  <2>6. CASE Enter BY <2>0, <2>6, EnterKeeps
  <2>7. CASE Open
    <3>1. LayoutOK' BY <1>0, <2>0, <2>7, OpenLayout
    <3>2. UNCHANGED <<typ, hiTab, maxGp, reserve, idx>> /\ ~Visiting /\ ~Visiting'
      BY <2>7 DEF Open, code, visit, caches, Visiting
    <3> QED BY <3>1, <3>2, QuietKeeps
  <2>8. CASE NoEnter
    <3>1. UNCHANGED <<typ, hiTab, maxGp, reserve, idx>> /\ ~Visiting /\ ~Visiting'
          /\ UNCHANGED <<size, mark, addr, gpabs, dot, base, rend, seg, round, cur>> /\ phase' = "place"
          /\ phase = "enter"
      BY <2>8 DEF NoEnter, code, lay, visit, caches, Visiting
    <3>2. /\ link' \in DOMAIN Links /\ addr' \in [Outs -> Int] /\ Rounds' = Rounds
          /\ \A o \in Outs : \E q \in Int : addr'[o] = q * Align'[o]
      BY <1>0, <2>0, <3>1, SamePlaces
    <3>3. LayoutOK' BY <1>0, <3>1, <3>2 DEF LayoutOK
    <3> QED BY <3>1, <3>3, QuietKeeps
  <2>9. CASE Resolve \/ RelaxAligns
    <3>1. LayoutOK' BY <1>0, <2>0, <2>9, ShrinkLayout
    <3>2. /\ UNCHANGED <<typ, hiTab, maxGp, reserve, idx>> /\ ~Visiting'
          /\ ~Visiting \/ idx > Len(Body[cur])
      BY <2>9 DEF Resolve, RelaxAligns, visit, caches, Visiting
    <3> QED BY <3>1, <3>2, QuietKeeps
  <2>10. CASE Place
    <3>1. LayoutOK' BY <1>0, <2>0, <2>10, PlaceLayout
    <3>2. UNCHANGED <<typ, hiTab, maxGp, reserve, idx>> /\ ~Visiting /\ ~Visiting'
      BY <2>10 DEF Place, code, visit, caches, Visiting
    <3> QED BY <3>1, <3>2, QuietKeeps
  <2>11. CASE SegmentWalk \/ RelroWalk \/ NextTrip \/ MapSegments
    <3>1. LayoutOK' BY <1>0, <2>0, <2>11, WalkLayout
    <3>2. UNCHANGED <<typ, hiTab, maxGp, reserve, idx>> /\ ~Visiting /\ ~Visiting'
      BY <2>11 DEF SegmentWalk, RelroWalk, NextTrip, MapSegments, TripOver, Rewalk, code, visit, caches, Visiting
    <3> QED BY <3>1, <3>2, QuietKeeps
  <2>12. CASE LastTrip \/ Finished
    <3>1. UNCHANGED <<typ, hiTab, maxGp, reserve, idx>> /\ ~Visiting /\ ~Visiting'
          /\ UNCHANGED <<size, mark, addr, gpabs, dot, base, rend, seg, round, cur>> /\ phase' = "done"
      BY <2>12 DEF LastTrip, Finished, TripOver, all, code, lay, visit, ctl, caches, Visiting
    <3>2. /\ link' \in DOMAIN Links /\ addr' \in [Outs -> Int] /\ Rounds' = Rounds
          /\ \A o \in Outs : \E q \in Int : addr'[o] = q * Align'[o]
      BY <1>0, <2>0, <3>1, SamePlaces
    <3>3. LayoutOK' BY <1>0, <3>1, <3>2 DEF LayoutOK
    <3> QED BY <3>1, <3>3, QuietKeeps
  <2> QED
    BY <2>0, <2>1, <2>2, <2>3, <2>4, <2>5, <2>6, <2>7, <2>8, <2>9, <2>10, <2>11, <2>12 DEF Step
<1> QED
  BY <1>1, <1>2

\* All the decisions of a visit agree: a low part whose LUI, AUIPC or TPREL_HI20
\* is already deleted is still ahead of the loop of _bfd_riscv_relax_section,
\* and will be rewritten when the loop comes to it.
THEOREM PairsStayInStep == Spec => []IInv
<1>1. Init => IInv
  BY InitIInv
<1>2. IInv /\ [Next]_vars => IInv'
  BY NextIInv
<1> QED
  BY <1>1, <1>2, PTL DEF Spec

\* No relaxation of _bfd_riscv_relax_section deletes a LUI, an AUIPC or a
\* TPREL_HI20 and leaves a low part behind that needs the register it set.
THEOREM PairsSurvive == Spec => []NoOrphanLow
<1>1. IInv => NoOrphanLow
  <2> SUFFICES ASSUME IInv, phase = "walk", NEW r \in Relocs, Type0[r] \in LoTypes, typ[r] = Type0[r]
               PROVE  typ[HiOf[r]] # "NONE"
    BY DEF NoOrphanLow
  <2>1. ~Visiting BY DEF Visiting
  <2>2. NoOrphans BY <2>1, QuietHasNone
  <2> QED BY <2>2 DEF NoOrphans, Lows, Left
<1> QED
  BY <1>1, PairsStayInStep, PTL

\* A number is known by its quotient and its remainder, and by them alone.
LEMMA Division ==
  ASSUME NEW x \in Int, NEW m \in Nat \ {0}
  PROVE  /\ x \div m \in Int /\ x % m \in 0 .. m - 1
         /\ x = m * (x \div m) + (x % m)
<1>1. m \in Int /\ m > 0 OBVIOUS
<1>2. x \div m \in Int /\ x % m \in 0 .. m - 1 BY <1>1
<1>3. x = m * (x \div m) + (x % m) BY <1>1
<1> QED BY <1>2, <1>3

LEMMA Remainder ==
  ASSUME NEW m \in Nat \ {0}, NEW q \in Int, NEW r \in 0 .. m - 1
  PROVE  (m * q + r) % m = r
<1> DEFINE x == m * q + r
<1>1. x \in Int OBVIOUS
<1>2. PICK p \in Int, s \in 0 .. m - 1 : p = x \div m /\ s = x % m /\ x = m * p + s
  BY <1>1, Division
<1>3. m * (q - p) = s - r BY <1>2
<1>4. q - p < 1
  <2>1. SUFFICES ASSUME q - p >= 1 PROVE FALSE OBVIOUS
  <2>2. m * (q - p) >= m BY <2>1
  <2> QED BY <1>3, <2>2
<1>5. q - p > -1
  <2>1. SUFFICES ASSUME q - p <= -1 PROVE FALSE OBVIOUS
  <2>2. m * (q - p) <= -m BY <2>1
  <2> QED BY <1>3, <2>2
<1>6. q = p BY <1>4, <1>5
<1> QED BY <1>2, <1>6


\* The sums of a sequence of lengths.
LEMMA SumsFacts ==
    ASSUME NEW N \in Nat, NEW w \in [1 .. N -> Nat]
    PROVE  /\ Sums(w) \in [0 .. N -> Nat]
           /\ Sums(w)[0] = 0
           /\ \A j \in 1 .. N : Sums(w)[j] = Sums(w)[j - 1] + w[j]
<1> DEFINE IsSums(n) == n = [j \in 0 .. Len(w) |-> IF j = 0 THEN 0 ELSE n[j - 1] + w[j]]
           F == CHOOSE n : IsSums(n)
<1>1. Len(w) = N
  <2>1. w \in Seq(Nat) OBVIOUS
  <2> QED BY <2>1
<1>2. \E n : IsSums(n)
  <2> DEFINE x == 0
             step == [yn \in Int \X (1 .. N) |-> yn[1] + w[yn[2]]]
  <2>1. step \in [Int \X (1 .. N) -> Int]
    <3>1. \A y \in Int, n \in 1 .. N : y + w[n] \in Int OBVIOUS
    <3>2. \A yn \in Int \X (1 .. N) : yn[1] + w[yn[2]] \in Int BY <3>1
    <3> QED BY <3>2
  <2>2. PICK g \in [0 .. N -> Int] : g[0] = 0 /\ \A n \in 1 .. N : g[n] = step[<<g[n - 1], n>>]
    <3>1. x \in Int OBVIOUS
    <3> HIDE DEF step, x
    <3>2. \E g \in [0 .. N -> Int] : g[0] = x /\ \A n \in 1 .. N : g[n] = step[<<g[n - 1], n>>]
      BY <2>1, <3>1, Iterated
    <3> QED BY <3>2 DEF x
  <2>3. ASSUME NEW j \in 0 .. N PROVE g[j] = IF j = 0 THEN 0 ELSE g[j - 1] + w[j]
    <3>1. CASE j = 0 BY <2>2, <3>1
    <3>2. CASE j # 0
      <4>1. j \in 1 .. N /\ j - 1 \in 0 .. N BY <3>2
      <4>2. g[j - 1] \in Int BY <4>1
      <4>3. step[<<g[j - 1], j>>] = g[j - 1] + w[j] BY <4>1, <4>2
      <4> HIDE DEF step
      <4> QED BY <2>2, <3>2, <4>1, <4>3
    <3> QED BY <3>1, <3>2
  <2>4. g = [j \in 0 .. N |-> IF j = 0 THEN 0 ELSE g[j - 1] + w[j]] BY <2>3
  <2>5. IsSums(g) BY <1>1, <2>4
  <2> HIDE DEF IsSums
  <2> QED BY <2>5
<1>3. Sums(w) = F BY DEF Sums
<1>4. IsSums(F)
  <2> HIDE DEF IsSums
  <2> QED BY <1>2
<1> HIDE DEF F
<1>5. F = [j \in 0 .. N |-> IF j = 0 THEN 0 ELSE F[j - 1] + w[j]] BY <1>1, <1>4
<1>6. F[0] = 0 BY <1>5
<1>7. ASSUME NEW j \in 1 .. N PROVE F[j] = F[j - 1] + w[j]
  <2>1. j \in 0 .. N /\ j # 0 OBVIOUS
  <2> QED BY <1>5, <2>1
<1> DEFINE S == {j \in 0 .. N : F[j] \in Nat}
<1>8. 0 \in S BY <1>6
<1>9. ASSUME NEW j \in 0 .. N, j \in S, j < N PROVE j + 1 \in S
  <2>1. j + 1 \in 1 .. N /\ j + 1 - 1 = j BY <1>9
  <2>2. F[j + 1] = F[j] + w[j + 1] BY <1>7, <2>1
  <2> QED BY <1>9, <2>1, <2>2
<1> HIDE DEF S
<1>10. 0 .. N \subseteq S BY <1>8, <1>9, UpToN
<1>11. \A j \in 0 .. N : F[j] \in Nat BY <1>10 DEF S
<1>12. F \in [0 .. N -> Nat]
  <2>1. DOMAIN F = 0 .. N /\ F = [j \in 0 .. N |-> F[j]] BY <1>5
  <2> QED BY <1>11, <2>1
<1> QED BY <1>3, <1>6, <1>7, <1>12

\* They never decrease.
LEMMA SumsGrow ==
    ASSUME NEW N \in Nat, NEW w \in [1 .. N -> Nat], NEW i \in 0 .. N, NEW j \in 0 .. N, i <= j
    PROVE  Sums(w)[i] <= Sums(w)[j]
<1> DEFINE F == Sums(w)
           S == {n \in 0 .. N : i <= n => F[i] <= F[n]}
<1>1. F \in [0 .. N -> Nat] /\ \A n \in 1 .. N : F[n] = F[n - 1] + w[n] BY SumsFacts
<1> HIDE DEF F
<1>2. 0 \in S
  <2>1. i <= 0 => i = 0 OBVIOUS
  <2>2. F[i] \in Nat BY <1>1
  <2> QED BY <2>1, <2>2
<1>3. ASSUME NEW n \in 0 .. N, n \in S, n < N PROVE n + 1 \in S
  <2>1. n + 1 \in 1 .. N /\ n + 1 \in 0 .. N /\ n + 1 - 1 = n BY <1>3
  <2>2. F[n + 1] = F[n] + w[n + 1] BY <1>1, <2>1
  <2>3. F[n] \in Nat /\ w[n + 1] \in Nat /\ F[i] \in Nat /\ F[n + 1] \in Nat BY <1>1, <2>1
  <2>4. CASE i <= n BY <1>3, <2>1, <2>2, <2>3, <2>4
  <2>5. CASE i = n + 1 BY <2>1, <2>3, <2>5
  <2>6. CASE i > n + 1 BY <2>1, <2>6
  <2> QED BY <2>1, <2>4, <2>5, <2>6
<1> HIDE DEF S
<1>4. 0 .. N \subseteq S BY <1>2, <1>3, UpToN
<1> QED BY <1>4 DEF S, F

-----------------------------------------------------------------------------
(* GasFixups: addresses *)

\* What an instruction takes of a section.
LEMMA RoomFacts ==
    ASSUME FixupsTypeOK, NEW sec
    PROVE  /\ Room(sec) \in [1 .. Len(insns) -> Nat] /\ Len(insns) \in Nat
           /\ \A j \in Index : insns[j].sec = sec => Room(sec)[j] >= 1
<1>1. Len(insns) \in Nat /\ \A j \in Index : insns[j] \in Instructions BY DEF FixupsTypeOK, Index
<1>2. \A j \in Index : Width(insns[j]) \in {1, 2} BY DEF Width
<1> QED BY <1>1, <1>2 DEF Room, Index

LEMMA AddressFacts ==
    ASSUME FixupsTypeOK
    PROVE  /\ \A i \in Index : Address(i) \in Nat
           /\ \A sec : SizeOf(sec) \in Nat
           /\ \A i, j \in Index : insns[i].sec = insns[j].sec /\ i < j => Address(i) < Address(j)
<1>1. ASSUME NEW i \in Index PROVE Address(i) \in Nat
  <2>1. i - 1 \in 0 .. Len(insns) BY RoomFacts DEF Index
  <2> QED BY <2>1, RoomFacts, SumsFacts DEF Address
<1>2. ASSUME NEW sec PROVE SizeOf(sec) \in Nat
  <2>1. Len(insns) \in 0 .. Len(insns) BY RoomFacts
  <2> QED BY <2>1, RoomFacts, SumsFacts DEF SizeOf
<1>3. ASSUME NEW i \in Index, NEW j \in Index, insns[i].sec = insns[j].sec, i < j
      PROVE  Address(i) < Address(j)
  <2> DEFINE w == Room(insns[i].sec)
             N == Len(insns)
  <2>1. w \in [1 .. N -> Nat] /\ N \in Nat /\ w[i] >= 1 BY RoomFacts
  <2>2. i \in 1 .. N /\ i \in 0 .. N /\ j - 1 \in 0 .. N /\ i <= j - 1 BY <1>3, <2>1 DEF Index
  <2> HIDE DEF w, N
  <2>3. Sums(w)[i] = Sums(w)[i - 1] + w[i] /\ Sums(w) \in [0 .. N -> Nat] BY <2>1, <2>2, SumsFacts
  <2>4. Sums(w)[i] <= Sums(w)[j - 1] BY <2>1, <2>2, SumsGrow
  <2>5. i - 1 \in 0 .. N BY <2>1, <2>2
  <2>6. Sums(w)[i - 1] \in Nat /\ Sums(w)[j - 1] \in Nat /\ w[i] \in Nat BY <2>1, <2>2, <2>3, <2>5
  <2>7. Sums(w)[i - 1] < Sums(w)[j - 1] BY <2>1, <2>3, <2>4, <2>6
  <2> QED BY <1>3, <2>7 DEF w, Address
<1> QED BY <1>1, <1>2, <1>3

\* In one section no two instructions have the same address.
LEMMA Apart ==
    ASSUME FixupsTypeOK, NEW i \in Index, NEW j \in Index,
           insns[i].sec = insns[j].sec, Address(i) = Address(j)
    PROVE  i = j
<1>1. i \in Int /\ j \in Int /\ Address(i) \in Nat BY AddressFacts DEF Index
<1>2. CASE i < j BY <1>1, <1>2, AddressFacts
<1>3. CASE j < i BY <1>1, <1>3, AddressFacts
<1> QED BY <1>1, <1>2, <1>3

-----------------------------------------------------------------------------
(* GasFixups: the two halves of a number *)

LEMMA FixupsConstants ==
    /\ Radix \in Nat \ {0} /\ TopRange \in Nat \ {0} /\ LowRange \in Nat \ {0} /\ FarAddress \in Int
    /\ Radix \div 2 \in Nat /\ Radix = 2 * (Radix \div 2)
<1>1. TopRange \in Nat \ {0} /\ LowRange \in Nat \ {0} /\ FarAddress \in Int /\ Radix % 2 = 0
  BY FixupsAssumption
<1>2. Radix \in Nat \ {0} BY <1>1 DEF Radix
<1>3. Radix = 2 * (Radix \div 2) + (Radix % 2) /\ Radix \div 2 \in Int BY <1>2, Division
<1> QED BY <1>1, <1>2, <1>3

\* The bits that the instruction formats keep apart are those of the remainder.
LEMMA BitsJoin ==
    ASSUME NEW v \in Int
    PROVE  /\ TopBits(v) \in Int /\ LowBits(v) \in Int
           /\ LowRange * TopBits(v) + LowBits(v) = v % Radix
<1> DEFINE s == v % Radix
           t == s \div LowRange
           u == s % LowRange
           p == v \div Radix
<1>1. Radix \in Nat \ {0} /\ TopRange \in Nat \ {0} /\ LowRange \in Nat \ {0} BY FixupsConstants
<1>2. p \in Int /\ s \in Int /\ v = Radix * p + s BY <1>1, Division
<1>3. t \in Int /\ u \in 0 .. LowRange - 1 /\ s = LowRange * t + u BY <1>1, <1>2, Division
<1> HIDE DEF s, t, u, p
<1>4. v % LowRange = u
  <2> DEFINE q == TopRange * p + t
  <2>1. q \in Int BY <1>1, <1>2, <1>3
  <2>2. Radix * p = LowRange * (TopRange * p) BY <1>1, <1>2 DEF Radix
  <2>3. LowRange * q = LowRange * (TopRange * p) + LowRange * t BY <1>1, <1>2, <1>3
  <2> HIDE DEF q
  <2>4. v = LowRange * q + u
    <3>1. LowRange * (TopRange * p) \in Int /\ LowRange * t \in Int /\ u \in Int BY <1>1, <1>2, <1>3
    <3> QED BY <1>2, <1>3, <2>2, <2>3, <3>1
  <2> QED BY <1>1, <1>3, <2>1, <2>4, Remainder
<1>5. TopBits(v) = t /\ LowBits(v) = u BY <1>4 DEF TopBits, LowBits, t, s
<1> QED BY <1>1, <1>3, <1>5 DEF s

\* The high part and the signed low part of a number add up to it.
LEMMA HalvesAdd ==
    ASSUME NEW v \in Int
    PROVE  /\ ConstHighPart(v) \in Int /\ SignedLow(TopBits(v), LowBits(v)) \in Int
           /\ ConstHighPart(v) + SignedLow(TopBits(v), LowBits(v)) = v
<1> DEFINE R == Radix
           h == R \div 2
           p == v \div R
           s == v % R
           q == (v + h) \div R
           r == (v + h) % R
<1>1. R \in Nat \ {0} /\ h \in Nat /\ R = 2 * h BY FixupsConstants
<1>2. p \in Int /\ s \in 0 .. R - 1 /\ v = R * p + s BY <1>1, Division
<1>3. q \in Int /\ r \in 0 .. R - 1 /\ v + h = R * q + r
  <2>1. v + h \in Int BY <1>1
  <2> QED BY <1>1, <2>1, Division
<1>4. ConstHighPart(v) = q * R /\ q * R = R * q BY <1>1, <1>3 DEF ConstHighPart
<1>5. SignedLow(TopBits(v), LowBits(v)) = IF s >= h THEN s - R ELSE s
  BY BitsJoin DEF SignedLow
<1>6. r = IF s >= h THEN s - h ELSE s + h
  <2> HIDE DEF p, s, q, h
  <2>1. CASE s < h
    <3>1. v + h = R * p + (s + h) /\ s + h \in 0 .. R - 1 BY <1>1, <1>2, <2>1
    <3>2. (v + h) % R = s + h BY <1>1, <1>2, <3>1, Remainder
    <3> QED BY <1>1, <1>2, <2>1, <3>2
  <2>2. CASE ~(s < h)
    <3>1. R * (p + 1) = R * p + R BY <1>1, <1>2
    <3>2. v + h = R * (p + 1) + (s - h) /\ s - h \in 0 .. R - 1 /\ p + 1 \in Int BY <1>1, <1>2, <2>2, <3>1
    <3>3. (v + h) % R = s - h BY <1>1, <3>2, Remainder
    <3> QED BY <1>1, <1>2, <2>2, <3>3
  <2> QED BY <2>1, <2>2
<1> HIDE DEF p, s, q, r, h, R
<1>7. R * q \in Int BY <1>1, <1>3
<1> QED BY <1>1, <1>2, <1>3, <1>4, <1>5, <1>6, <1>7

-----------------------------------------------------------------------------
(* GasFixups: what a step leaves alone *)

KeepsShape ==
    /\ Len(insns') = Len(insns)
    /\ \A i \in Index :
          /\ insns'[i].kind = insns[i].kind /\ insns'[i].sec = insns[i].sec
          /\ insns'[i].target = insns[i].target /\ insns'[i].of = insns[i].of
          /\ insns'[i].tcbit = insns[i].tcbit
    /\ relax' = relax

LEMMA ShapeKept ==
    ASSUME KeepsShape
    PROVE  /\ Index' = Index
           /\ \A i \in Index : IsLo(i)' = IsLo(i) /\ IsLocalHi(i)' = IsLocalHi(i)
           /\ Ordered => Ordered'
           /\ Ordered /\ WellFormed => WellFormed'
<1>1. Index' = Index BY DEF KeepsShape, Index
<1>2. ASSUME NEW i \in Index PROVE IsLo(i)' = IsLo(i) /\ IsLocalHi(i)' = IsLocalHi(i)
  BY DEF KeepsShape, IsLo, IsLocalHi
<1>3. ASSUME Ordered PROVE Ordered'
  <2>1. ASSUME NEW i \in Index, NEW j \in Index, i < j, insns'[i].sec = "init"
        PROVE  insns'[j].sec = "init"
    BY <1>3, <2>1 DEF KeepsShape, Ordered
  <2>2. ASSUME NEW i \in Index, IsLo(i)'
        PROVE  /\ insns'[i].of \in 1 .. i - 1 /\ insns'[insns'[i].of].kind = "hi"
               /\ insns'[insns'[i].of].sec = insns'[i].sec
    <3>1. IsLo(i) BY <1>2, <2>2
    <3>2. insns[i].of \in 1 .. i - 1 /\ insns[insns[i].of].kind = "hi" /\ insns[insns[i].of].sec = insns[i].sec
      BY <1>3, <3>1 DEF Ordered
    <3>3. insns[i].of \in Index BY <3>2 DEF Index
    <3> QED BY <3>2, <3>3 DEF KeepsShape
  <2> QED BY <1>1, <2>1, <2>2 DEF Ordered
<1>4. ASSUME Ordered, WellFormed PROVE WellFormed'
  <2>1. ASSUME NEW i \in Index, IsLo(i)'
        PROVE  LET k == insns'[i].of
               IN /\ k \in Index
                  /\ insns'[k].kind = "hi" /\ insns'[k].sec = insns'[i].sec
                  /\ insns'[i].kind = "loS" => insns'[k].target \in StoreTargets
    <3>1. IsLo(i) BY <1>2, <2>1
    <3> QED BY <1>4, <3>1 DEF KeepsShape, WellFormed
  <2>2. ~Narrowing /\ ~relax' => \A i \in Index : ~insns'[i].tcbit BY <1>4 DEF KeepsShape, WellFormed
  <2> QED BY <1>1, <2>1, <2>2 DEF WellFormed
<1> QED BY <1>1, <1>2, <1>3, <1>4

\* No address moves unless a call becomes shorter.
LEMMA LayoutKept ==
    ASSUME KeepsShape, \A i \in Index : insns'[i].short = insns[i].short
    PROVE  /\ \A i \in Index : Address(i)' = Address(i) /\ Value(i)' = Value(i)
           /\ \A sec : SizeOf(sec)' = SizeOf(sec)
           /\ \A t, sec : SymbolValue(t, sec)' = SymbolValue(t, sec)
<1>1. Index' = Index BY ShapeKept
<1>2. ASSUME NEW sec PROVE Room(sec)' = Room(sec)
  <2>1. ASSUME NEW j \in Index
        PROVE  (IF insns'[j].sec = sec THEN Width(insns'[j]) ELSE 0)
                 = (IF insns[j].sec = sec THEN Width(insns[j]) ELSE 0)
    BY DEF KeepsShape, Width
  <2> QED BY <1>1, <2>1 DEF Room
<1>3. ASSUME NEW sec PROVE SizeOf(sec)' = SizeOf(sec)
  BY <1>2 DEF SizeOf, KeepsShape
<1>4. ASSUME NEW i \in Index PROVE Address(i)' = Address(i)
  BY <1>2 DEF Address, KeepsShape
<1>5. ASSUME NEW t, NEW sec PROVE SymbolValue(t, sec)' = SymbolValue(t, sec)
  BY <1>3 DEF SymbolValue
<1>6. ASSUME NEW i \in Index PROVE Value(i)' = Value(i)
  BY <1>4, <1>5 DEF Value, KeepsShape
<1> QED BY <1>3, <1>4, <1>5, <1>6

-----------------------------------------------------------------------------
(* GasFixups: reading the file *)

LEMMA FixupsInitInv == FixupsInit => FixupsInv
<1> SUFFICES ASSUME FixupsInit PROVE FixupsInv OBVIOUS
<1>1. Index = {} BY DEF FixupsInit, Index
<1>2. FixupsTypeOK BY DEF FixupsInit, FixupsTypeOK
<1>3. Ordered BY <1>1 DEF Ordered
<1>4. TableOK /\ FilledTo(next)
  <2>1. DOMAIN table = {} /\ 1 .. next - 1 = {} BY DEF FixupsInit
  <2> QED BY <1>1, <2>1 DEF TableOK, FilledTo
<1>5. PairAddresses BY <1>1 DEF PairAddresses, PairGives, StoredRegister, FixupsInit
<1> QED BY <1>2, <1>3, <1>4, <1>5 DEF FixupsInv, FixupsInit

LEMMA WordType == Word \in [imm : Int, top : Int, mid : Int, bot : Int] /\ Word.mid = 0
BY DEF Word

\* append_insn of an instruction whose auipc, if it needs one, is there.
LEMMA AppendInv ==
    ASSUME FixupsInv, NEW x \in Instructions, append_insn(x),
           x.word = Word, x.fxdone = FALSE, x.short = FALSE,
           x.kind \in {"loI", "loS"} =>
              x.of \in Index /\ insns[x.of].kind = "hi" /\ insns[x.of].sec = x.sec
    PROVE  FixupsInv'
<1> DEFINE n == Len(insns) + 1
<1>1. insns \in Seq(Instructions) /\ insns' = Append(insns, x) BY DEF append_insn, FixupsInv, FixupsTypeOK
<1>2. /\ Index' = 1 .. n /\ n \in Nat /\ Len(insns') = n /\ insns'[n] = x
      /\ \A i \in Index : i \in 1 .. n - 1 /\ insns'[i] = insns[i]
      /\ \A i \in 1 .. n : i \in Index \/ i = n
  BY <1>1 DEF Index
<1>3. /\ doing = "read" /\ next = 1 /\ TableOK /\ FilledTo(next) /\ Ordered /\ ~error
      /\ UNCHANGED <<doing, relax, table, next, error>> /\ SectionOpen(x.sec)
  BY DEF append_insn, FixupsInv, PairAddresses
<1>4. FixupsTypeOK' BY <1>1, <1>2, <1>3 DEF FixupsInv, FixupsTypeOK
<1>5. Ordered'
  <2>1. ASSUME NEW i \in 1 .. n, NEW j \in 1 .. n, i < j, insns'[i].sec = "init"
        PROVE  insns'[j].sec = "init"
    <3>1. i \in Index BY <1>2, <2>1
    <3>2. insns[i].sec = "init" BY <1>2, <2>1, <3>1
    <3>3. CASE j \in Index BY <1>2, <1>3, <2>1, <3>1, <3>2, <3>3 DEF Ordered
    <3>4. CASE j = n BY <1>2, <1>3, <3>1, <3>2, <3>4 DEF SectionOpen, Sections
    <3> QED BY <1>2, <3>3, <3>4
  <2>2. ASSUME NEW i \in 1 .. n, IsLo(i)'
        PROVE  /\ insns'[i].of \in 1 .. i - 1 /\ insns'[insns'[i].of].kind = "hi"
               /\ insns'[insns'[i].of].sec = insns'[i].sec
    <3>1. CASE i \in Index
      <4>1. IsLo(i) /\ insns'[i] = insns[i] BY <1>2, <2>2, <3>1 DEF IsLo
      <4>2. insns[i].of \in 1 .. i - 1 /\ insns[insns[i].of].kind = "hi"
              /\ insns[insns[i].of].sec = insns[i].sec
        BY <1>3, <3>1, <4>1 DEF Ordered
      <4>3. insns[i].of \in Index BY <3>1, <4>2 DEF Index
      <4> QED BY <1>2, <4>1, <4>2, <4>3
    <3>2. CASE i = n BY <1>2, <2>2, <3>2 DEF IsLo
    <3> QED BY <1>2, <3>1, <3>2
  <2> QED BY <1>2, <2>1, <2>2 DEF Ordered
<1>6. TableOK'
  <2>1. DOMAIN table = {} BY <1>3 DEF TableOK
  <2> QED BY <1>3, <2>1 DEF TableOK
<1>7. ASSUME NEW i \in 1 .. n PROVE ~insns'[i].short /\ insns'[i].word = Word /\ ~insns'[i].fxdone
  <2>1. CASE i \in Index
    <3>1. ~(i < 1) BY <2>1 DEF Index
    <3> QED BY <1>2, <1>3, <2>1, <3>1 DEF FilledTo, Untouched
  <2>2. CASE i = n BY <1>2, <2>2
  <2> QED BY <1>2, <2>1, <2>2
<1>8. FilledTo(next)'
  <2>1. \A i \in 1 .. n : ~(i < next') BY <1>2, <1>3
  <2> QED BY <1>2, <1>7, <2>1 DEF FilledTo, Untouched
<1>9. PairAddresses'
  <2>1. StoredRegister' BY <1>2, <1>7, WordType DEF StoredRegister
  <2> QED BY <1>3, <2>1 DEF PairAddresses, PairGives
<1> QED BY <1>3, <1>4, <1>5, <1>6, <1>8, <1>9 DEF FixupsInv

LEMMA ReadInv ==
    ASSUME Ordinary, FixupsInv,
           \/ \E s \in 1 .. 2, t \in Targets : PcrelHi(Sections[s], t)
           \/ \E s \in 1 .. 2, kind \in {"loI", "loS"}, k \in 1 .. MaxStmts : PcrelLo(Sections[s], kind, k)
           \/ \E s \in 1 .. 2 : riscv_call(Sections[s])
    PROVE  FixupsInv'
<1>1. \A s \in 1 .. 2 : Sections[s] \in {"text", "init"} BY DEF Sections
<1>2. relax \in BOOLEAN BY DEF FixupsInv, FixupsTypeOK
<1>4. {"end", "far"} \subseteq Targets BY DEF Targets
<1>5. ASSUME NEW s \in 1 .. 2, NEW t \in Targets, PcrelHi(Sections[s], t) PROVE FixupsInv'
  <2> DEFINE x == NewInsn("hi", Sections[s], t, 0)
  <2>1. x \in Instructions /\ x.word = Word /\ x.fxdone = FALSE /\ x.short = FALSE /\ x.kind = "hi" 
    BY <1>1, <1>2, WordType DEF NewInsn, Instructions
  <2>2. append_insn(x) BY <1>5 DEF PcrelHi
  <2> HIDE DEF x
  <2> QED BY <2>1, <2>2, AppendInv
<1>6. ASSUME NEW s \in 1 .. 2, riscv_call(Sections[s]) PROVE FixupsInv'
  <2> DEFINE x == NewInsn("call", Sections[s], "far", 0)
  <2>1. x \in Instructions /\ x.word = Word /\ x.fxdone = FALSE /\ x.short = FALSE /\ x.kind = "call"
    BY <1>1, <1>2, <1>4, WordType DEF NewInsn, Instructions
  <2>2. append_insn(x) BY <1>6 DEF riscv_call
  <2> HIDE DEF x
  <2> QED BY <2>1, <2>2, AppendInv
<1>7. ASSUME NEW s \in 1 .. 2, NEW kind \in {"loI", "loS"}, NEW k \in 1 .. MaxStmts, PcrelLo(Sections[s], kind, k)
      PROVE  FixupsInv'
  <2> DEFINE x == NewInsn(kind, Sections[s], "end", k)
  <2>1. x \in Instructions /\ x.word = Word /\ x.fxdone = FALSE /\ x.short = FALSE /\ x.of = k /\ x.sec = Sections[s]
    <3>1. k \in Nat OBVIOUS
    <3> QED BY <1>1, <1>2, <1>4, <3>1, WordType DEF NewInsn, Instructions
  <2>2. append_insn(x) /\ k \in Index /\ insns[k].kind = "hi" /\ insns[k].sec = Sections[s]
    BY <1>7 DEF PcrelLo, Ordinary
  <2> HIDE DEF x
  <2> QED BY <2>1, <2>2, AppendInv
<1> QED BY <1>5, <1>6, <1>7

\* What was filled in stays so while nothing moves.
LEMMA SameFilled ==
    ASSUME FixupsTypeOK, Ordered, UNCHANGED <<insns, relax>>
    PROVE  /\ UNCHANGED <<table, next>> => (TableOK => TableOK')
           /\ \A n : FilledTo(n) => FilledTo(n)'
<1>1. KeepsShape /\ \A i \in Index : insns'[i].short = insns[i].short BY DEF KeepsShape
<1>2. Index' = Index /\ (\A i \in Index : IsLo(i)' = IsLo(i) /\ IsLocalHi(i)' = IsLocalHi(i)) BY <1>1, ShapeKept
<1>3. (\A i \in Index : Address(i)' = Address(i) /\ Value(i)' = Value(i)) /\ (\A sec : SizeOf(sec)' = SizeOf(sec))
  BY <1>1, LayoutKept
<1>4. ASSUME UNCHANGED <<table, next>>, TableOK PROVE TableOK'
  <2>1. 1 .. next - 1 \subseteq Index BY DEF FixupsTypeOK, Index
  <2>2. ASSUME NEW a \in DOMAIN table
        PROVE  \E i \in 1 .. next - 1 : IsLocalHi(i)' /\ Address(i)' = a /\ table[a] = EntryOf(i)'
    <3>1. PICK i \in 1 .. next - 1 : IsLocalHi(i) /\ Address(i) = a /\ table[a] = EntryOf(i) BY <1>4 DEF TableOK
    <3>2. IsLocalHi(i)' /\ Address(i)' = a /\ table[a] = EntryOf(i)'
      BY <1>2, <1>3, <1>4, <2>1, <3>1 DEF EntryOf
    <3> QED BY <3>2
  <2>3. ASSUME NEW i \in 1 .. next - 1, IsLocalHi(i)'
        PROVE  /\ Address(i)' \in DOMAIN table
               /\ \/ table[Address(i)'].sec = insns[i].sec
                  \/ \E j \in i .. next - 1 : insns[j].sec # insns[i].sec
    <3>1. IsLocalHi(i) /\ Address(i)' = Address(i) BY <1>2, <1>3, <2>1, <2>3
    <3> QED BY <1>4, <3>1 DEF TableOK
  <2> QED BY <1>4, <2>2, <2>3 DEF TableOK
<1>5. ASSUME NEW n, FilledTo(n) PROVE FilledTo(n)'
  <2>1. ASSUME NEW i \in Index PROVE Untouched(i)' = Untouched(i) BY DEF Untouched
  <2>2. ASSUME NEW i \in Index, Filled(i) PROVE Filled(i)'
    <3>1. IsLo(i) => insns[i].of \in Index BY DEF Ordered, Index
    <3> QED BY <1>2, <1>3, <2>1, <2>2, <3>1 DEF Filled
  <2> QED BY <1>2, <1>5, <2>1, <2>2 DEF FilledTo
<1> QED BY <1>4, <1>5

LEMMA SamePairs ==
    ASSUME Ordered, PairAddresses, UNCHANGED <<doing, insns, relax, error>>
    PROVE  PairAddresses'
<1>1. KeepsShape /\ \A i \in Index : insns'[i].short = insns[i].short BY DEF KeepsShape
<1>2. Index' = Index /\ (\A i \in Index : IsLo(i)' = IsLo(i)) BY <1>1, ShapeKept
<1>3. (\A i \in Index : Address(i)' = Address(i)) /\ (\A t, sec : SymbolValue(t, sec)' = SymbolValue(t, sec))
  BY <1>1, LayoutKept
<1>4. \A i \in Index : LowImmediate(i)' = LowImmediate(i) BY DEF LowImmediate
<1>5. \A i \in Index : IsLo(i) => insns[i].of \in Index BY DEF Ordered, Index
<1>6. PairGives' BY <1>2, <1>3, <1>4, <1>5 DEF PairAddresses, PairGives
<1>7. StoredRegister' BY <1>2 DEF PairAddresses, StoredRegister
<1> QED BY <1>6, <1>7 DEF PairAddresses

LEMMA OptionInv ==
    ASSUME FixupsInv, s_riscv_option \/ (Ordinary /\ EndOfFile) \/ UNCHANGED fixupVars
    PROVE  FixupsInv'
<1>1. CASE s_riscv_option
  <2>1. /\ doing = "read" /\ next = 1 /\ relax' = ~relax /\ UNCHANGED <<doing, insns, table, next, error>>
        /\ FixupsTypeOK /\ Ordered /\ TableOK /\ FilledTo(next) /\ PairAddresses
    BY <1>1 DEF s_riscv_option, FixupsInv
  <2>2. Index' = Index /\ FixupsTypeOK' BY <2>1 DEF Index, FixupsTypeOK
  <2>3. Ordered' BY <2>1, <2>2 DEF Ordered, IsLo
  <2>4. TableOK'
    <3>1. DOMAIN table = {} BY <2>1 DEF TableOK
    <3> QED BY <2>1, <3>1 DEF TableOK
  <2>5. FilledTo(next)'
    <3>1. \A i \in Index : ~(i < 1) BY DEF Index
    <3> QED BY <2>1, <2>2, <3>1 DEF FilledTo, Untouched
  <2>6. PairAddresses' BY <2>1, <2>2 DEF PairAddresses, PairGives, StoredRegister
  <2> QED BY <2>1, <2>2, <2>3, <2>4, <2>5, <2>6 DEF FixupsInv
<1>2. CASE Ordinary /\ EndOfFile
  <2>1. /\ doing = "read" /\ doing' = "fix" /\ WellFormed /\ UNCHANGED <<relax, insns, table, next, error>>
        /\ FixupsTypeOK /\ Ordered /\ TableOK /\ FilledTo(next) /\ PairAddresses
    BY <1>2 DEF EndOfFile, FixupsInv
  <2>2. KeepsShape BY <2>1 DEF KeepsShape
  <2>3. Ordered' /\ WellFormed' /\ Index' = Index BY <2>1, <2>2, ShapeKept
  <2>4. FixupsTypeOK' BY <2>1 DEF FixupsTypeOK
  <2>5. TableOK' /\ FilledTo(next)'
    BY <2>1, SameFilled
  <2>6. PairAddresses' BY <2>1, <2>3 DEF PairAddresses, PairGives, StoredRegister
  <2> QED BY <2>1, <2>3, <2>4, <2>5, <2>6 DEF FixupsInv
<1>3. CASE UNCHANGED fixupVars
  <2>1. UNCHANGED <<doing, relax, insns, table, next, error>> BY <1>3 DEF fixupVars
  <2>2. KeepsShape BY <2>1 DEF KeepsShape
  <2>3. FixupsTypeOK' /\ Ordered' BY <2>1, <2>2, ShapeKept DEF FixupsInv, FixupsTypeOK
  <2>4. WellFormed => WellFormed' BY <2>2, ShapeKept DEF FixupsInv
  <2>5. TableOK => TableOK' BY <2>1, SameFilled DEF FixupsInv
  <2>6. \A n : FilledTo(n) => FilledTo(n)' BY <2>1, SameFilled DEF FixupsInv
  <2>7. PairAddresses' BY <2>1, SamePairs DEF FixupsInv
  <2>8. Len(insns') = Len(insns) /\ Index' = Index BY <2>1 DEF Index
  <2> QED BY <2>1, <2>3, <2>4, <2>5, <2>6, <2>7, <2>8 DEF FixupsInv
<1> QED BY <1>1, <1>2, <1>3

-----------------------------------------------------------------------------
(* GasFixups: md_apply_fix *)

LEMMA ValueInt ==
    ASSUME FixupsTypeOK, NEW i \in Index
    PROVE  Value(i) \in Int /\ Value(i) = SymbolValue(insns[i].target, insns[i].sec) - Address(i)
           /\ SymbolValue(insns[i].target, insns[i].sec) \in Int
<1>1. insns[i].target \in {"end", "glob", "far"}
  <2>1. insns[i] \in Instructions BY DEF FixupsTypeOK, Index
  <2> QED BY <2>1 DEF Instructions, Targets
<1>2. SymbolValue(insns[i].target, insns[i].sec) \in Int
  BY <1>1, AddressFacts, FixupsConstants DEF SymbolValue
<1>3. Address(i) \in Nat BY AddressFacts
<1> QED BY <1>2, <1>3 DEF Value

\* The other instructions while one is filled in.
LEMMA OthersKept ==
    ASSUME FixupsTypeOK, Ordered, KeepsShape, \A i \in Index : insns'[i].short = insns[i].short,
           NEW j \in Index, insns'[j] = insns[j]
    PROVE  Filled(j)' = Filled(j) /\ Untouched(j)' = Untouched(j)
<1>1. Index' = Index /\ (\A i \in Index : IsLo(i)' = IsLo(i) /\ IsLocalHi(i)' = IsLocalHi(i)) BY ShapeKept
<1>2. \A i \in Index : Value(i)' = Value(i) BY LayoutKept
<1>3. Untouched(j)' = Untouched(j) BY DEF Untouched
<1>4. IsLo(j) => insns[j].of \in Index BY DEF Ordered, Index
<1>5. relax' = relax BY DEF KeepsShape
<1> QED BY <1>1, <1>2, <1>3, <1>4, <1>5 DEF Filled

\* The table finds the auipc of a low part, and no other.
LEMMA UsableExactly ==
    ASSUME FixupsTypeOK, Ordered, TableOK, next \in Index, IsLo(next),
           NEW h, h = insns[next].of
    PROVE  /\ Usable(next) <=> IsLocalHi(h)
           /\ Usable(next) => table[Address(h)].target - table[Address(h)].address = Value(h)
<1> DEFINE a == Address(h)
           e == table[a]
<1>1. h \in 1 .. next - 1 /\ insns[h].kind = "hi" /\ insns[h].sec = insns[next].sec /\ h \in Index
  BY DEF Ordered, Index
<1>2. 1 .. next - 1 \subseteq Index /\ next \in Int BY DEF Index
<1>3. Usable(next) <=> a \in DOMAIN table /\ e.symbol = "end" /\ e.sec = insns[next].sec
  BY DEF Usable, IsLocalIn
<1>4. ASSUME a \in DOMAIN table
      PROVE  \E i \in 1 .. next - 1 : /\ IsLocalHi(i) /\ Address(i) = a /\ e.symbol = "end" /\ e.sec = insns[i].sec
                                     /\ e.target = SizeOf(insns[i].sec) /\ e.address = a
  BY <1>4 DEF TableOK, EntryOf
<1>5. ASSUME Usable(next) PROVE IsLocalHi(h) /\ e.target - e.address = Value(h)
  <2>1. PICK i \in 1 .. next - 1 : /\ IsLocalHi(i) /\ Address(i) = a /\ e.sec = insns[i].sec
                                  /\ e.target = SizeOf(insns[i].sec) /\ e.address = a
    BY <1>3, <1>4, <1>5
  <2>2. i = h BY <1>1, <1>2, <1>3, <1>5, <2>1, Apart
  <2>3. SymbolValue(insns[h].target, insns[h].sec) = SizeOf(insns[h].sec) BY <2>1, <2>2 DEF IsLocalHi, SymbolValue
  <2> QED BY <2>1, <2>2, <2>3 DEF Value
<1>6. ASSUME IsLocalHi(h) PROVE Usable(next)
  <2>1. a \in DOMAIN table /\ (e.sec = insns[h].sec \/ \E j \in h .. next - 1 : insns[j].sec # insns[h].sec)
    BY <1>1, <1>6 DEF TableOK
  <2>2. ASSUME NEW j \in h .. next - 1, insns[j].sec # insns[h].sec PROVE FALSE
    <3>1. j \in Index /\ j # h /\ h < j /\ j < next BY <1>1, <1>2, <2>2 DEF Index
    <3>2. insns[h].sec \in {"text", "init"} /\ insns[j].sec \in {"text", "init"}
      <4>1. insns[h] \in Instructions /\ insns[j] \in Instructions BY <1>1, <3>1 DEF FixupsTypeOK, Index
      <4> QED BY <4>1 DEF Instructions
    <3>3. insns[h].sec # "init" BY <1>1, <2>2, <3>1 DEF Ordered
    <3>4. insns[j].sec = "init" BY <2>2, <3>2, <3>3
    <3>5. insns[next].sec = "init" BY <3>1, <3>4 DEF Ordered
    <3> QED BY <1>1, <3>3, <3>5
  <2>3. e.sec = insns[h].sec BY <2>1, <2>2
  <2> QED BY <1>1, <1>3, <1>4, <2>1, <2>3
<1> QED BY <1>5, <1>6

\* md_apply_fix, as the cases that it makes.
Fills(w) ==
    insns' = [insns EXCEPT ![next].word = w, ![next].fxdone = ~relax]

LEMMA ApplyCases ==
    ASSUME Ordinary, FixupsInv, fixup_segment
    PROVE  LET h == insns[next].of
           IN \/ /\ IsLocalHi(next)
                 /\ Fills([Word EXCEPT !.imm = ConstHighPart(Value(next))])
                 /\ DOMAIN table' = DOMAIN table \cup {Address(next)}
                 /\ \A a \in DOMAIN table : a # Address(next) => table'[a] = table[a]
                 /\ table'[Address(next)] = EntryOf(next)
              \/ /\ IsLo(next) /\ IsLocalHi(h) /\ insns[next].kind = "loI"
                 /\ Fills([Word EXCEPT !.top = TopBits(Value(h)), !.mid = LowBits(Value(h))])
                 /\ table' = table
              \/ /\ ~IsLocalHi(next) /\ ~(IsLo(next) /\ IsLocalHi(h))
                 /\ UNCHANGED <<insns, table>>
<1> DEFINE h == insns[next].of
           s == insns[next].sec
<1>1. /\ doing = "fix" /\ next \in Index /\ md_apply_fix(next) /\ WellFormed /\ TableOK /\ FilledTo(next)
      /\ FixupsTypeOK /\ Ordered
  BY DEF fixup_segment, FixupsInv
<1>2. insns[next].word = Word /\ next \in Int
  <2>1. next \in Int /\ ~(next < next) BY <1>1 DEF Index
  <2> QED BY <1>1, <2>1 DEF FilledTo, Untouched
<1>3. CASE insns[next].kind = "hi"
  <2>1. ApplyHi(next) BY <1>1, <1>3 DEF md_apply_fix
  <2>2. ~IsLo(next) BY <1>3 DEF IsLo
  <2>3. CASE IsLocalHi(next)
    <3>1. SymbolValue(insns[next].target, s) = SizeOf(s) /\ insns[next].target = "end"
      BY <2>3 DEF IsLocalHi, SymbolValue
    <3>2. /\ table' = riscv_record_pcrel_fixup(Address(next),
                        [target |-> SizeOf(s), address |-> Address(next), symbol |-> "end", sec |-> s])
          /\ insns' = [insns EXCEPT ![next].word.imm = ConstHighPart(Value(next)), ![next].fxdone = ~relax]
      BY <2>1, <3>1 DEF ApplyHi, IsLocalIn, Value
    <3>3. Fills([Word EXCEPT !.imm = ConstHighPart(Value(next))])
      <4> DEFINE c == ConstHighPart(Value(next))
      <4> HIDE DEF c
      <4>1. insns' = [insns EXCEPT ![next].word.imm = c, ![next].fxdone = ~relax] BY <3>2 DEF c
      <4>2. insns' = [insns EXCEPT ![next].word = [Word EXCEPT !.imm = c], ![next].fxdone = ~relax]
        BY <1>2, <4>1
      <4> QED BY <4>2 DEF Fills, c
    <3>4. /\ DOMAIN table' = DOMAIN table \cup {Address(next)}
          /\ \A a \in DOMAIN table : a # Address(next) => table'[a] = table[a]
          /\ table'[Address(next)] = EntryOf(next)
      BY <3>2 DEF riscv_record_pcrel_fixup, EntryOf
    <3> QED BY <2>3, <3>3, <3>4
  <2>4. CASE ~IsLocalHi(next)
    <3>1. insns[next].target # "end" BY <1>3, <2>4 DEF IsLocalHi
    <3>2. UNCHANGED <<insns, table>> BY <2>1, <3>1 DEF ApplyHi, IsLocalIn
    <3> QED BY <2>2, <2>4, <3>2
  <2> QED BY <2>3, <2>4
<1>4. CASE IsLo(next)
  <2>1. ApplyLo(next) /\ ~IsLocalHi(next) BY <1>1, <1>4 DEF md_apply_fix, IsLo, IsLocalHi
  <2>2. (Usable(next) <=> IsLocalHi(h))
        /\ (Usable(next) => table[Address(h)].target - table[Address(h)].address = Value(h))
    BY <1>1, <1>4, UsableExactly
  <2>3. CASE Usable(next)
    <3>1. insns[next].kind = "loI"
      <4>1. insns[next].kind = "loS" => insns[h].target \in StoreTargets BY <1>1, <1>4 DEF WellFormed
      <4>2. insns[h].target = "end" BY <2>2, <2>3 DEF IsLocalHi
      <4> QED BY <1>4, <4>1, <4>2 DEF Ordinary, IsLo
    <3>2. insns' = [insns EXCEPT ![next].word = EncodeLo(next, Value(h)), ![next].fxdone = ~relax] /\ table' = table
      BY <2>1, <2>2, <2>3 DEF ApplyLo
    <3>3. EncodeLo(next, Value(h)) = [Word EXCEPT !.top = TopBits(Value(h)), !.mid = LowBits(Value(h))]
      BY <1>2 DEF EncodeLo
    <3> QED BY <1>4, <2>2, <2>3, <3>1, <3>2, <3>3 DEF Fills
  <2>4. CASE ~Usable(next) BY <1>4, <2>1, <2>2, <2>4 DEF ApplyLo
  <2> QED BY <2>3, <2>4
<1>5. CASE insns[next].kind # "hi" /\ ~IsLo(next)
  BY <1>1, <1>5 DEF md_apply_fix, IsLocalHi
<1> QED BY <1>3, <1>4, <1>5

LEMMA FillsFacts ==
    ASSUME FixupsTypeOK, next \in Index, relax' = relax,
           NEW w \in [imm : Int, top : Int, mid : Int, bot : Int], Fills(w)
    PROVE  /\ insns' \in Seq(Instructions) /\ KeepsShape
           /\ \A j \in Index : insns'[j].short = insns[j].short
           /\ \A j \in Index : j # next => insns'[j] = insns[j]
           /\ insns'[next].word = w /\ insns'[next].fxdone = ~relax
<1> DEFINE x == [insns[next] EXCEPT !.word = w, !.fxdone = ~relax]
<1>1. insns \in Seq(Instructions) /\ relax \in BOOLEAN /\ insns[next] \in Instructions BY DEF FixupsTypeOK, Index
<1>2. insns' = [insns EXCEPT ![next] = x] BY DEF Fills
<1>3. /\ x \in Instructions /\ x.word = w /\ x.fxdone = ~relax /\ x.short = insns[next].short
      /\ x.kind = insns[next].kind /\ x.sec = insns[next].sec /\ x.target = insns[next].target
      /\ x.of = insns[next].of /\ x.tcbit = insns[next].tcbit
  BY <1>1 DEF Instructions
<1> HIDE DEF x
<1>4. insns' \in Seq(Instructions) /\ Len(insns') = Len(insns) BY <1>1, <1>2, <1>3 DEF Index
<1>5. insns'[next] = x /\ \A j \in Index : j # next => insns'[j] = insns[j] BY <1>1, <1>2 DEF Index
<1>6. \A j \in Index : /\ insns'[j].kind = insns[j].kind /\ insns'[j].sec = insns[j].sec
                       /\ insns'[j].target = insns[j].target /\ insns'[j].of = insns[j].of
                       /\ insns'[j].tcbit = insns[j].tcbit /\ insns'[j].short = insns[j].short
  <2> SUFFICES ASSUME NEW j \in Index
               PROVE  /\ insns'[j].kind = insns[j].kind /\ insns'[j].sec = insns[j].sec
                      /\ insns'[j].target = insns[j].target /\ insns'[j].of = insns[j].of
                      /\ insns'[j].tcbit = insns[j].tcbit /\ insns'[j].short = insns[j].short
    OBVIOUS
  <2>1. CASE j = next BY <1>3, <1>5, <2>1
  <2>2. CASE j # next BY <1>5, <2>2
  <2> QED BY <2>1, <2>2
<1>7. KeepsShape BY <1>4, <1>6 DEF KeepsShape
<1> QED BY <1>3, <1>4, <1>5, <1>6, <1>7

\* riscv_record_pcrel_fixup may overwrite the entry of another section only.
LEMMA TableGoesOn ==
    ASSUME FixupsTypeOK, TableOK, KeepsShape, \A j \in Index : insns'[j].short = insns[j].short,
           NEW n \in Index, n = next, next' = next + 1,
           \/ table' = table /\ ~IsLocalHi(n)
           \/ /\ IsLocalHi(n)
              /\ DOMAIN table' = DOMAIN table \cup {Address(n)}
              /\ \A a \in DOMAIN table : a # Address(n) => table'[a] = table[a]
              /\ table'[Address(n)] = EntryOf(n)
    PROVE  TableOK'
<1>1. (\A i \in Index : IsLocalHi(i)' = IsLocalHi(i)) BY ShapeKept
<1>2. (\A i \in Index : Address(i)' = Address(i)) /\ (\A sec : SizeOf(sec)' = SizeOf(sec)) BY LayoutKept
<1>3. \A i \in Index : insns'[i].sec = insns[i].sec BY DEF KeepsShape
<1>4. /\ next \in Int /\ next' - 1 = next /\ 1 .. next' - 1 \subseteq Index /\ 1 .. next - 1 \subseteq 1 .. next' - 1
      /\ n \in 1 .. next' - 1 /\ n = next
      /\ \A i \in 1 .. next' - 1 : i = n \/ i \in 1 .. next - 1
  BY DEF Index
<1>5. \A i \in Index : EntryOf(i)' = EntryOf(i)
  BY <1>2, <1>3 DEF EntryOf
<1>6. ASSUME NEW a \in DOMAIN table'
      PROVE  \E i \in 1 .. next' - 1 : IsLocalHi(i)' /\ Address(i)' = a /\ table'[a] = EntryOf(i)'
  <2>1. CASE IsLocalHi(n) /\ a = Address(n) /\ table'[a] = EntryOf(n)
    <3>1. IsLocalHi(n)' /\ Address(n)' = a /\ table'[a] = EntryOf(n)'
      BY <1>1, <1>2, <1>5, <2>1
    <3> QED BY <1>4, <3>1
  <2>2. CASE a \in DOMAIN table /\ table'[a] = table[a]
    <3>1. PICK i \in 1 .. next - 1 : IsLocalHi(i) /\ Address(i) = a /\ table[a] = EntryOf(i)
      BY <2>2 DEF TableOK
    <3>2. i \in Index /\ i \in 1 .. next' - 1 BY <1>4
    <3>3. IsLocalHi(i)' /\ Address(i)' = a BY <1>1, <1>2, <3>1, <3>2
    <3>4. table'[a] = EntryOf(i)' BY <1>5, <2>2, <3>1, <3>2
    <3> QED BY <3>2, <3>3, <3>4
  <2> QED BY <1>6, <2>1, <2>2
<1>7. ASSUME NEW i \in 1 .. next' - 1, IsLocalHi(i)'
      PROVE  /\ Address(i)' \in DOMAIN table'
             /\ \/ table'[Address(i)'].sec = insns'[i].sec
                \/ \E j \in i .. next' - 1 : insns'[j].sec # insns'[i].sec
  <2> DEFINE a == Address(i)
  <2>1. i \in Index /\ IsLocalHi(i) /\ Address(i)' = a /\ insns'[i].sec = insns[i].sec
    BY <1>1, <1>2, <1>3, <1>4, <1>7
  <2> HIDE DEF a
  <2>2. CASE IsLocalHi(n) /\ a = Address(n) /\ table'[a] = EntryOf(n) /\ a \in DOMAIN table'
    <3>1. table'[a].sec = insns[n].sec BY <2>2 DEF EntryOf
    <3>2. CASE insns[n].sec = insns[i].sec BY <2>1, <2>2, <3>1, <3>2
    <3>3. CASE insns[n].sec # insns[i].sec
      <4>1. n \in i .. next' - 1 BY <1>4
      <4>2. insns'[n].sec # insns'[i].sec BY <1>3, <2>1, <3>3
      <4> QED BY <2>1, <2>2, <4>1, <4>2
    <3> QED BY <3>2, <3>3
  <2>3. CASE i \in 1 .. next - 1 /\ ~(IsLocalHi(n) /\ a = Address(n))
    <3>1. /\ a \in DOMAIN table
          /\ \/ table[a].sec = insns[i].sec
             \/ \E j \in i .. next - 1 : insns[j].sec # insns[i].sec
      BY <2>1, <2>3 DEF TableOK, a
    <3>2. a \in DOMAIN table' /\ table'[a] = table[a] BY <2>3, <3>1
    <3>3. ASSUME NEW j \in i .. next - 1, insns[j].sec # insns[i].sec
          PROVE  j \in i .. next' - 1 /\ insns'[j].sec # insns'[i].sec
      <4>1. j \in i .. next' - 1 /\ j \in Index BY <1>4, <2>3 DEF Index
      <4> QED BY <1>3, <2>1, <3>3, <4>1
    <3> QED BY <2>1, <3>1, <3>2, <3>3
  <2>4. i = n \/ i \in 1 .. next - 1 BY <1>4
  <2>5. IsLocalHi(n) /\ a = Address(n) => table'[a] = EntryOf(n) /\ a \in DOMAIN table' OBVIOUS
  <2>6. i = n => a = Address(n) BY DEF a
  <2> QED BY <2>1, <2>2, <2>3, <2>4, <2>5, <2>6
<1> QED BY <1>6, <1>7 DEF TableOK

LEMMA FixInv ==
    ASSUME Ordinary, FixupsInv, fixup_segment
    PROVE  FixupsInv'
<1>0. PICK n, h : n = next /\ h = insns[next].of OBVIOUS
<1> DEFINE wHi == [Word EXCEPT !.imm = ConstHighPart(Value(next))]
           wLo == [Word EXCEPT !.top = TopBits(Value(h)), !.mid = LowBits(Value(h))]
           Words == [imm : Int, top : Int, mid : Int, bot : Int]
<1>1. /\ doing = "fix" /\ doing' = "fix" /\ next \in Index /\ next' = next + 1 /\ relax' = relax
      /\ error' = error /\ ~error /\ StoredRegister
      /\ WellFormed /\ TableOK /\ FilledTo(next) /\ FixupsTypeOK /\ Ordered
  BY DEF fixup_segment, FixupsInv, PairAddresses
<1>2. wHi \in Words
  <2>1. ConstHighPart(Value(next)) \in Int BY <1>0, <1>1, ValueInt, HalvesAdd
  <2> QED BY <2>1, WordType
<1>3. ASSUME IsLo(next) PROVE h \in Index /\ wLo \in Words
  <2>1. h \in Index BY <1>0, <1>1, <1>3 DEF WellFormed
  <2>2. TopBits(Value(h)) \in Int /\ LowBits(Value(h)) \in Int BY <1>0, <1>1, <2>1, ValueInt, BitsJoin
  <2> QED BY <2>1, <2>2, WordType
<1>4. next \in Int /\ ~(next < next) /\ Len(insns) \in Nat /\ next \in 1 .. Len(insns) BY <1>0, <1>1 DEF Index, FixupsTypeOK
<1>5. Untouched(next) BY <1>0, <1>1, <1>4 DEF FilledTo
\* What is left to show: the instruction is as md_apply_fix leaves it.
<1>6. ASSUME insns' \in Seq(Instructions), KeepsShape,
             \A j \in Index : insns'[j].short = insns[j].short,
             \A j \in Index : j # next => insns'[j] = insns[j],
             TableOK', Filled(n)', insns[next].kind = "loS" => insns'[n].word.mid = 0
      PROVE  FixupsInv'
  <2>1. Index' = Index /\ Ordered' /\ WellFormed' BY <1>0, <1>1, <1>6, ShapeKept
  <2>2. Len(insns') = Len(insns) BY <1>0, <1>6 DEF KeepsShape
  <2>3. FixupsTypeOK' BY <1>0, <1>1, <1>4, <1>6, <2>2 DEF FixupsTypeOK
  <2>4. FilledTo(next)'
    <3>1. ASSUME NEW i \in Index
          PROVE  ~insns'[i].short /\ IF i < next + 1 THEN Filled(i)' ELSE Untouched(i)'
      <4>1. ~insns'[i].short BY <1>0, <1>1, <1>6 DEF FilledTo
      <4>2. CASE i = next BY <1>0, <1>4, <1>6, <4>1, <4>2
      <4>3. CASE i # next
        <5>1. i \in Int /\ (i < next + 1 <=> i < next) BY <1>0, <1>4, <4>3 DEF Index
        <5>2. Filled(i)' = Filled(i) /\ Untouched(i)' = Untouched(i) BY <1>0, <1>1, <1>6, <4>3, OthersKept
        <5>3. IF i < next THEN Filled(i) ELSE Untouched(i) BY <1>0, <1>1 DEF FilledTo
        <5> QED BY <4>1, <5>1, <5>2, <5>3
      <4> QED BY <4>2, <4>3
    <3> QED BY <1>0, <1>1, <2>1, <3>1 DEF FilledTo
  <2>5. StoredRegister'
    <3>1. ASSUME NEW i \in Index, insns'[i].kind = "loS" PROVE insns'[i].word.mid = 0
      <4>1. insns[i].kind = "loS" BY <1>0, <1>6, <3>1 DEF KeepsShape
      <4>2. CASE i = next BY <1>0, <1>6, <4>1, <4>2
      <4>3. CASE i # next BY <1>0, <1>1, <1>6, <4>1, <4>3 DEF StoredRegister
      <4> QED BY <4>2, <4>3
    <3> QED BY <2>1, <3>1 DEF StoredRegister
  <2>6. PairAddresses' BY <1>0, <1>1, <2>5 DEF PairAddresses, PairGives
  <2> QED BY <1>0, <1>1, <1>6, <2>1, <2>3, <2>4, <2>6 DEF FixupsInv
<1>7. CASE /\ IsLocalHi(next) /\ Fills(wHi)
           /\ DOMAIN table' = DOMAIN table \cup {Address(next)}
           /\ \A a \in DOMAIN table : a # Address(next) => table'[a] = table[a]
           /\ table'[Address(next)] = EntryOf(next)
  <2> HIDE DEF wHi, Words
  <2>1. /\ insns' \in Seq(Instructions) /\ KeepsShape
        /\ \A j \in Index : insns'[j].short = insns[j].short
        /\ \A j \in Index : j # next => insns'[j] = insns[j]
        /\ insns'[n].word = wHi /\ insns'[n].fxdone = ~relax
    BY <1>0, <1>1, <1>2, <1>7, FillsFacts DEF Words
  <2>2. TableOK' BY <1>0, <1>1, <1>7, <2>1, TableGoesOn
  <2>3. Filled(n)'
    <3>1. IsLocalHi(n)' /\ Value(n)' = Value(next) BY <1>0, <1>1, <1>7, <2>1, ShapeKept, LayoutKept
    <3> QED BY <1>0, <1>1, <2>1, <3>1 DEF Filled, wHi
  <2>4. insns[next].kind # "loS" BY <1>0, <1>7 DEF IsLocalHi
  <2> QED BY <1>0, <1>6, <2>1, <2>2, <2>3, <2>4
<1>8. CASE IsLo(next) /\ IsLocalHi(h) /\ insns[next].kind = "loI" /\ Fills(wLo) /\ table' = table
  <2> HIDE DEF wLo, Words
  <2>1. /\ insns' \in Seq(Instructions) /\ KeepsShape
        /\ \A j \in Index : insns'[j].short = insns[j].short
        /\ \A j \in Index : j # next => insns'[j] = insns[j]
        /\ insns'[n].word = wLo /\ insns'[n].fxdone = ~relax
    BY <1>0, <1>1, <1>3, <1>8, FillsFacts DEF Words
  <2>2. ~IsLocalHi(next) BY <1>0, <1>8 DEF IsLocalHi
  <2>3. TableOK' BY <1>0, <1>1, <1>8, <2>1, <2>2, TableGoesOn
  <2>4. Filled(n)'
    <3>1. /\ ~IsLocalHi(n)' /\ IsLo(n)' /\ IsLocalHi(h)' /\ Value(h)' = Value(h) /\ insns'[n].of = h
      BY <1>0, <1>1, <1>3, <1>8, <2>1, <2>2, ShapeKept, LayoutKept DEF KeepsShape
    <3> QED BY <1>0, <1>1, <2>1, <3>1 DEF Filled, wLo
  <2> QED BY <1>0, <1>6, <1>8, <2>1, <2>3, <2>4
<1>9. CASE ~IsLocalHi(next) /\ ~(IsLo(next) /\ IsLocalHi(h)) /\ UNCHANGED <<insns, table>>
  <2>1. KeepsShape /\ insns' \in Seq(Instructions) /\ \A j \in Index : insns'[j] = insns[j]
    BY <1>0, <1>1, <1>9 DEF KeepsShape, FixupsTypeOK
  <2>2. TableOK' BY <1>0, <1>1, <1>9, <2>1, TableGoesOn
  <2>3. Filled(n) BY <1>0, <1>5, <1>9 DEF Filled
  <2>4. Filled(n)' BY <1>0, <1>1, <2>1, <2>3, OthersKept
  <2>5. insns'[n].word.mid = 0 BY <1>0, <1>5, <1>9, WordType DEF Untouched
  <2> QED BY <1>0, <1>6, <2>1, <2>2, <2>4, <2>5
<1> QED BY <1>0, <1>7, <1>8, <1>9, ApplyCases

-----------------------------------------------------------------------------
(* GasFixups: the link *)

LEMMA WriteInv ==
    ASSUME FixupsInv, WriteObject
    PROVE  FixupsInv'
<1>1. /\ doing = "fix" /\ doing' = "link" /\ next > Len(insns) /\ UNCHANGED <<relax, insns, table, next, error>>
      /\ WellFormed /\ FilledTo(next) /\ FixupsTypeOK /\ Ordered /\ PairAddresses
  BY DEF WriteObject, FixupsInv
<1>2. KeepsShape BY <1>1 DEF KeepsShape
<1>3. Index' = Index /\ Ordered' /\ WellFormed' BY <1>1, <1>2, ShapeKept
<1>4. FixupsTypeOK' BY <1>1 DEF FixupsTypeOK
<1>5. next = Len(insns) + 1 BY <1>1 DEF FixupsTypeOK
<1>6. FilledTo(Len(insns) + 1) BY <1>1, <1>5
<1>7. FilledTo(Len(insns) + 1)'
  <2>1. ASSUME NEW n, n = Len(insns) + 1 PROVE FilledTo(n)' BY <1>1, <1>6, <2>1, SameFilled
  <2>2. Len(insns') = Len(insns) BY <1>1
  <2> QED BY <2>1, <2>2 DEF FilledTo
<1>8. ASSUME relax, NEW i \in Index PROVE ~insns[i].fxdone
  <2>1. i < Len(insns) + 1 BY DEF Index
  <2>2. Filled(i) BY <1>6, <2>1 DEF FilledTo
  <2> QED BY <1>8, <2>2 DEF Filled, Untouched
<1>9. PairAddresses' BY <1>1, <1>3 DEF PairAddresses, PairGives, StoredRegister
<1> QED BY <1>1, <1>3, <1>4, <1>7, <1>8, <1>9 DEF FixupsInv

\* A call becomes shorter only in a file that leaves all halves to the linker.
LEMMA RelaxInv ==
    ASSUME Ordinary, FixupsInv, NEW i, RelaxCall(i)
    PROVE  FixupsInv'
<1> DEFINE x == [insns[i] EXCEPT !.short = TRUE]
<1>1. /\ doing = "link" /\ i \in Index /\ insns[i].tcbit /\ insns' = [insns EXCEPT ![i] = x]
      /\ UNCHANGED <<doing, relax, table, next, error>>
      /\ WellFormed /\ FixupsTypeOK /\ Ordered /\ PairAddresses
  BY DEF RelaxCall, Relaxable, FixupsInv
<1>2. relax /\ \A j \in Index : ~insns[j].fxdone
  <2>1. relax BY <1>1 DEF WellFormed, Ordinary
  <2> QED BY <1>1, <2>1 DEF FixupsInv
<1>3. insns \in Seq(Instructions) /\ insns[i] \in Instructions BY <1>1 DEF FixupsTypeOK, Index
<1>4. /\ x \in Instructions /\ x.word = insns[i].word /\ x.fxdone = insns[i].fxdone
      /\ x.kind = insns[i].kind /\ x.sec = insns[i].sec /\ x.target = insns[i].target
      /\ x.of = insns[i].of /\ x.tcbit = insns[i].tcbit
  BY <1>3 DEF Instructions
<1> HIDE DEF x
<1>5. insns' \in Seq(Instructions) /\ Len(insns') = Len(insns) BY <1>1, <1>3, <1>4 DEF Index
<1>6. insns'[i] = x /\ \A j \in Index : j # i => insns'[j] = insns[j] BY <1>1, <1>3 DEF Index
<1>7. ASSUME NEW j \in Index
      PROVE  /\ insns'[j].kind = insns[j].kind /\ insns'[j].sec = insns[j].sec
             /\ insns'[j].target = insns[j].target /\ insns'[j].of = insns[j].of
             /\ insns'[j].tcbit = insns[j].tcbit
             /\ insns'[j].word = insns[j].word /\ insns'[j].fxdone = insns[j].fxdone
  <2>1. CASE j = i BY <1>4, <1>6, <2>1
  <2>2. CASE j # i BY <1>6, <2>2
  <2> QED BY <2>1, <2>2
<1>8. KeepsShape BY <1>1, <1>5, <1>7 DEF KeepsShape
<1>9. Index' = Index /\ Ordered' /\ WellFormed' BY <1>1, <1>8, ShapeKept
<1>10. FixupsTypeOK' BY <1>1, <1>5 DEF FixupsTypeOK
<1>11. \A j \in Index : ~insns'[j].fxdone BY <1>2, <1>7
<1>12. PairAddresses'
  <2>1. StoredRegister' BY <1>1, <1>7, <1>9 DEF PairAddresses, StoredRegister
  <2> QED BY <1>1, <2>1 DEF PairAddresses, PairGives
<1> QED BY <1>1, <1>2, <1>9, <1>10, <1>11, <1>12 DEF FixupsInv

\* Assembler or linker: an auipc that is needed gets the high part of its value,
\* a low part the low part of it.
LEMMA LinkedHalves ==
    ASSUME Ordinary, FixupsInv, doing = "link", NEW i \in Index, IsLo(i), NEW h, h = insns[i].of
    PROVE  /\ h \in Index /\ ~MissingHi(i)
           /\ LinkedWord(h).imm = ConstHighPart(Value(h))
           /\ LinkedWord(i).top = TopBits(Value(h))
           /\ (IF insns[i].kind = "loS" THEN LinkedWord(i).bot ELSE LinkedWord(i).mid) = LowBits(Value(h))
<1>1. WellFormed /\ FixupsTypeOK /\ Ordered /\ StoredRegister BY DEF FixupsInv, PairAddresses
<1>2. h \in Index /\ insns[h].kind = "hi" BY <1>1 DEF WellFormed
<1>3. insns[i] \in Instructions /\ insns[h] \in Instructions BY <1>1, <1>2 DEF FixupsTypeOK, Index
<1>4. /\ DOMAIN insns[i].word = {"imm", "top", "mid", "bot"} /\ DOMAIN insns[h].word = {"imm", "top", "mid", "bot"}
      /\ insns[i].fxdone \in BOOLEAN /\ insns[h].fxdone \in BOOLEAN
  BY <1>3 DEF Instructions
<1>5. insns[i].kind \in {"loI", "loS"} BY DEF IsLo
<1>6. ASSUME ~insns[h].fxdone PROVE LinkedWord(h).imm = ConstHighPart(Value(h))
  BY <1>2, <1>4, <1>6 DEF LinkedWord
<1>7. ASSUME ~insns[i].fxdone
      PROVE  /\ LinkedWord(i).top = TopBits(Value(h))
             /\ (IF insns[i].kind = "loS" THEN LinkedWord(i).bot ELSE LinkedWord(i).mid) = LowBits(Value(h))
  <2>1. CASE insns[i].kind = "loI" BY <1>4, <1>7, <2>1 DEF LinkedWord
  <2>2. CASE insns[i].kind = "loS" BY <1>4, <1>7, <2>2 DEF LinkedWord
  <2> QED BY <1>5, <2>1, <2>2
<1>8. CASE ~insns[i].fxdone /\ ~insns[h].fxdone BY <1>2, <1>6, <1>7, <1>8 DEF MissingHi
<1>9. CASE insns[i].fxdone \/ insns[h].fxdone
  <2>1. ~relax /\ FilledTo(Len(insns) + 1) BY <1>2, <1>9 DEF FixupsInv
  <2>2. i < Len(insns) + 1 /\ h < Len(insns) + 1 BY <1>2 DEF Index
  <2>3. Filled(i) /\ Filled(h) BY <1>2, <2>1, <2>2 DEF FilledTo
  <2>4. ~IsLocalHi(i) /\ ~IsLo(h) BY <1>2, <1>5 DEF IsLocalHi, IsLo
  <2>5. IsLocalHi(h) BY <1>9, <2>3, <2>4 DEF Filled, Untouched
  <2>6. insns[h].word = [Word EXCEPT !.imm = ConstHighPart(Value(h))] /\ insns[h].fxdone
    BY <2>1, <2>3, <2>5 DEF Filled
  <2>7. insns[i].word = [Word EXCEPT !.top = TopBits(Value(h)), !.mid = LowBits(Value(h))] /\ insns[i].fxdone
    BY <2>1, <2>3, <2>4, <2>5 DEF Filled
  <2>8. insns[h].word.imm = ConstHighPart(Value(h)) BY <2>6 DEF Word
  <2>9. insns[i].word.top = TopBits(Value(h)) /\ insns[i].word.mid = LowBits(Value(h)) BY <2>7 DEF Word
  <2>10. LinkedWord(h) = insns[h].word /\ LinkedWord(i) = insns[i].word BY <2>6, <2>7 DEF LinkedWord
  <2>11. insns[i].kind = "loI"
    <3>1. insns[i].kind = "loS" => insns[h].target \in StoreTargets BY <1>1 DEF WellFormed
    <3> QED BY <1>5, <2>5, <3>1 DEF IsLocalHi, Ordinary
  <2> QED BY <1>2, <2>7, <2>8, <2>9, <2>10, <2>11 DEF MissingHi
<1> QED BY <1>4, <1>8, <1>9

LEMMA LinkedWordType ==
    ASSUME FixupsTypeOK, Ordered, NEW i \in Index
    PROVE  /\ LinkedWord(i) \in [imm : Int, top : Int, mid : Int, bot : Int]
           /\ insns[i].kind = "loS" => LinkedWord(i).mid = insns[i].word.mid
<1> DEFINE Words == [imm : Int, top : Int, mid : Int, bot : Int]
           v == Value(insns[i].of)
           c == ConstHighPart(Value(i))
<1>1. insns[i] \in Instructions BY DEF FixupsTypeOK, Index
<1>2. insns[i].kind \in {"hi", "loI", "loS", "call"} /\ insns[i].word \in Words /\ insns[i].fxdone \in BOOLEAN
  BY <1>1 DEF Instructions
<1>3. IsLo(i) => TopBits(v) \in Int /\ LowBits(v) \in Int
  <2>1. IsLo(i) => insns[i].of \in Index BY DEF Ordered, Index
  <2> QED BY <2>1, ValueInt, BitsJoin
<1>4. c \in Int BY ValueInt, HalvesAdd
<1>5. CASE insns[i].fxdone \/ insns[i].kind = "call" BY <1>2, <1>5 DEF LinkedWord
<1>6. CASE ~insns[i].fxdone /\ insns[i].kind = "hi"
  <2> HIDE DEF c
  <2>1. LinkedWord(i) = [insns[i].word EXCEPT !.imm = c] BY <1>6 DEF LinkedWord, c
  <2> QED BY <1>2, <1>4, <1>6, <2>1
<1>7. CASE ~insns[i].fxdone /\ insns[i].kind = "loI"
  <2>1. LinkedWord(i) = [insns[i].word EXCEPT !.top = TopBits(v), !.mid = LowBits(v)] BY <1>7 DEF LinkedWord
  <2> HIDE DEF v
  <2> QED BY <1>2, <1>3, <1>7, <2>1 DEF IsLo
<1>8. CASE ~insns[i].fxdone /\ insns[i].kind = "loS"
  <2>1. LinkedWord(i) = [insns[i].word EXCEPT !.top = TopBits(v), !.bot = LowBits(v)] BY <1>8 DEF LinkedWord
  <2> HIDE DEF v
  <2> QED BY <1>2, <1>3, <1>8, <2>1 DEF IsLo
<1> QED BY <1>2, <1>5, <1>6, <1>7, <1>8

LEMMA RelocateInv ==
    ASSUME Ordinary, FixupsInv, relocate_section
    PROVE  FixupsInv'
<1> DEFINE x(i) == [insns[i] EXCEPT !.word = LinkedWord(i)]
<1>1. /\ doing = "link" /\ doing' = "done" /\ UNCHANGED <<relax, table, next>>
      /\ WellFormed /\ FixupsTypeOK /\ Ordered /\ StoredRegister
  BY DEF relocate_section, FixupsInv, PairAddresses
<1>2. ~error' BY <1>1, LinkedHalves DEF relocate_section, MissingHi
<1>3. insns' = [i \in Index |-> x(i)] BY <1>2 DEF relocate_section
<1>4. ASSUME NEW i \in Index
      PROVE  /\ x(i) \in Instructions /\ x(i).word = LinkedWord(i) /\ x(i).fxdone = insns[i].fxdone
             /\ x(i).kind = insns[i].kind /\ x(i).sec = insns[i].sec /\ x(i).target = insns[i].target
             /\ x(i).of = insns[i].of /\ x(i).tcbit = insns[i].tcbit /\ x(i).short = insns[i].short
  <2>1. insns[i] \in Instructions BY <1>1 DEF FixupsTypeOK, Index
  <2>2. LinkedWord(i) \in [imm : Int, top : Int, mid : Int, bot : Int] BY <1>1, LinkedWordType
  <2> QED BY <2>1, <2>2 DEF Instructions
<1> HIDE DEF x
<1>5. insns' \in Seq(Instructions) /\ Len(insns') = Len(insns) /\ \A i \in Index : insns'[i] = x(i)
  <2>1. Len(insns) \in Nat BY <1>1 DEF FixupsTypeOK
  <2>2. insns' \in [1 .. Len(insns) -> Instructions] BY <1>3, <1>4 DEF Index
  <2> QED BY <1>3, <2>1, <2>2 DEF Index
<1>6. KeepsShape /\ \A i \in Index : insns'[i].short = insns[i].short BY <1>1, <1>4, <1>5 DEF KeepsShape
<1>7. Index' = Index /\ Ordered' /\ WellFormed' /\ \A i \in Index : IsLo(i)' = IsLo(i) BY <1>1, <1>6, ShapeKept
<1>8. FixupsTypeOK' BY <1>1, <1>5 DEF FixupsTypeOK
<1>9. StoredRegister'
  <2>1. ASSUME NEW i \in Index, insns'[i].kind = "loS" PROVE insns'[i].word.mid = 0
    <3>1. insns[i].kind = "loS" /\ insns'[i].word = LinkedWord(i) BY <1>4, <1>5, <2>1
    <3>2. LinkedWord(i).mid = insns[i].word.mid BY <1>1, <3>1, LinkedWordType
    <3> QED BY <1>1, <3>1, <3>2 DEF StoredRegister
  <2> QED BY <1>7, <2>1 DEF StoredRegister
<1>10. ASSUME NEW i \in Index, IsLo(i), NEW h, h = insns[i].of
       PROVE  Address(h)' + insns'[h].word.imm + LowImmediate(i)' = SymbolValue(insns[h].target, insns[h].sec)'
  <2>1. /\ h \in Index /\ LinkedWord(h).imm = ConstHighPart(Value(h)) /\ LinkedWord(i).top = TopBits(Value(h))
        /\ (IF insns[i].kind = "loS" THEN LinkedWord(i).bot ELSE LinkedWord(i).mid) = LowBits(Value(h))
    BY <1>1, <1>10, LinkedHalves
  <2>2. /\ insns'[h].word = LinkedWord(h) /\ insns'[i].word = LinkedWord(i) /\ insns'[i].kind = insns[i].kind
        /\ insns'[h].target = insns[h].target /\ insns'[h].sec = insns[h].sec
    BY <1>4, <1>5, <2>1
  <2>3. LowImmediate(i)' = SignedLow(TopBits(Value(h)), LowBits(Value(h))) BY <2>1, <2>2 DEF LowImmediate
  <2>0. PICK t, s : t = insns[h].target /\ s = insns[h].sec OBVIOUS
  <2>4. Address(h)' = Address(h) /\ SymbolValue(t, s)' = SymbolValue(t, s) BY <1>6, <2>1, LayoutKept
  <2>5. Value(h) \in Int /\ Value(h) = SymbolValue(t, s) - Address(h) /\ SymbolValue(t, s) \in Int /\ Address(h) \in Int
    BY <1>1, <2>0, <2>1, ValueInt, AddressFacts
  <2>6. ConstHighPart(Value(h)) \in Int /\ SignedLow(TopBits(Value(h)), LowBits(Value(h))) \in Int
        /\ ConstHighPart(Value(h)) + SignedLow(TopBits(Value(h)), LowBits(Value(h))) = Value(h)
    BY <2>5, HalvesAdd
  <2>7. SymbolValue(insns[h].target, insns[h].sec)' = SymbolValue(t, s)' BY <2>0, <2>2
  <2> QED BY <2>1, <2>2, <2>3, <2>4, <2>5, <2>6, <2>7
<1>11. PairGives'
  <2>1. \A i \in Index : IsLo(i)' => IsLo(i) /\ insns'[i].of = insns[i].of BY <1>6, <1>7 DEF KeepsShape
  <2> QED BY <1>7, <1>10, <2>1 DEF PairGives
<1>12. PairAddresses' BY <1>2, <1>9, <1>11 DEF PairAddresses
<1> QED BY <1>1, <1>7, <1>8, <1>12 DEF FixupsInv


LEMMA FixupsNextInv ==
    ASSUME Ordinary, FixupsInv, [FixupsNext]_fixupVars
    PROVE  FixupsInv'
<1>1. CASE \E s \in 1 .. 2, t \in Targets : PcrelHi(Sections[s], t) BY <1>1, ReadInv
<1>2. CASE \E s \in 1 .. 2, kind \in {"loI", "loS"}, k \in 1 .. MaxStmts : PcrelLo(Sections[s], kind, k)
  BY <1>2, ReadInv
<1>3. CASE \E s \in 1 .. 2 : riscv_call(Sections[s]) BY <1>3, ReadInv
<1>4. CASE s_riscv_option BY <1>4, OptionInv
<1>5. CASE EndOfFile BY <1>5, OptionInv
<1>6. CASE fixup_segment BY <1>6, FixInv
<1>7. CASE WriteObject BY <1>7, WriteInv
<1>8. CASE \E i \in 1 .. MaxStmts : RelaxCall(i) BY <1>8, RelaxInv
<1>9. CASE relocate_section BY <1>9, RelocateInv
<1>10. CASE UNCHANGED fixupVars BY <1>10, OptionInv
<1> QED BY <1>1, <1>2, <1>3, <1>4, <1>5, <1>6, <1>7, <1>8, <1>9, <1>10 DEF FixupsNext

(* While a file is read, fixed up and linked, every half that md_apply_fix    *)
(* has passed holds what its own auipc asks for, the table of                 *)
(* riscv_record_pcrel_fixup still holds the entry of each auipc of the        *)
(* section being fixed although its slots are overwritten by address, and     *)
(* the linker shortens a call only where it fills in all the halves itself.   *)
THEOREM FixupsInStep == Ordinary /\ FixupsSpec => []FixupsInv
<1>1. FixupsInit => FixupsInv BY FixupsInitInv
<1>2. ASSUME Ordinary PROVE FixupsInv /\ [FixupsNext]_fixupVars => FixupsInv' BY <1>2, FixupsNextInv
<1>3. CASE Ordinary BY <1>1, <1>2, <1>3, PTL DEF FixupsSpec
<1>4. CASE ~Ordinary BY <1>4, PTL
<1> QED BY <1>3, <1>4

(* Whatever the file holds in however many instructions, and wherever the     *)
(* symbol of another section is, the auipc and the low part of a linked       *)
(* program meet at the auipc's symbol, the linker misses no %pcrel_hi, and    *)
(* a store keeps its register: for files of the kind that Ordinary allows     *)
(* (md_apply_fix, riscv_record_pcrel_fixup, relocate_section).                *)
THEOREM PairsMeet == Ordinary /\ FixupsSpec => []PairAddresses
<1>1. FixupsInv => PairAddresses BY DEF FixupsInv
<1> QED BY <1>1, FixupsInStep, PTL
=============================================================================
