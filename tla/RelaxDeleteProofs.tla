------------------------- MODULE RelaxDeleteProofs -------------------------
(***************************************************************************)
(* Proofs about RelaxDelete: IInv is inductive, and with it deleting bytes *)
(* piece by piece implements the edit of SectionEdit, for every section,   *)
(* number of relocs, symbols and trips, and R_RISCV_RELAX stays with its   *)
(* instruction.                                                            *)
(***************************************************************************)
EXTENDS RelaxDelete, SequencesExt, FiniteSetTheorems, SequenceTheorems, WellFoundedInduction, TLAPS

-----------------------------------------------------------------------------
(***************************************************************************)
(* Induction over the naturals, from the well-foundedness of finite sets.  *)
(***************************************************************************)
\* Every set of naturals that is not empty has a least member.
LEMMA Least ==
  ASSUME NEW S \in SUBSET Nat, S # {}
  PROVE  \E m \in S : \A k \in S : m <= k
<1> DEFINE T == {1 .. n : n \in S}
<1>1. IsWellFoundedOn(StrictSubsetOrdering(Nat), FiniteSubsetsOf(Nat))
  BY FS_StrictSubsetOrderingWellFounded
<1>2. T \subseteq FiniteSubsetsOf(Nat)
  <2>1. ASSUME NEW n \in S PROVE IsFiniteSet(1 .. n) /\ 1 .. n \in SUBSET Nat
    BY FS_Interval
  <2> QED BY <2>1 DEF FiniteSubsetsOf
<1>3. T # {}
  OBVIOUS
<1>4. \E x \in T : \A y \in T : ~ (<<y, x>> \in StrictSubsetOrdering(Nat))
  BY <1>1, <1>2, <1>3, WFMin
<1>5. PICK m \in S : \A y \in T : ~ (<<y, 1 .. m>> \in StrictSubsetOrdering(Nat))
  BY <1>4
<1>6. ASSUME NEW k \in S, k < m PROVE FALSE
  <2>1. 1 .. k \in T /\ 1 .. k \in SUBSET Nat /\ 1 .. m \in SUBSET Nat
    OBVIOUS
  <2>2. 1 .. k \subseteq 1 .. m /\ 1 .. k # 1 .. m
    <3>1. m \in 1 .. m /\ m \notin 1 .. k BY <1>6
    <3>2. ASSUME NEW z \in 1 .. k PROVE z \in 1 .. m BY <1>6
    <3> QED BY <3>1, <3>2
  <2>3. <<1 .. k, 1 .. m>> \in StrictSubsetOrdering(Nat)
    BY <2>1, <2>2 DEF StrictSubsetOrdering
  <2> QED BY <1>5, <2>1, <2>3
<1> QED BY <1>6

\* A set of naturals that holds 0, and the next of each of its members, is all of them.
LEMMA Induct ==
  ASSUME NEW S \in SUBSET Nat, 0 \in S, \A n \in S : n + 1 \in S
  PROVE  S = Nat
<1> SUFFICES ASSUME Nat \ S # {} PROVE FALSE OBVIOUS
<1>1. PICK m \in Nat \ S : \A k \in Nat \ S : m <= k BY Least, Nat \ S \in SUBSET Nat
<1>2. m # 0 /\ m - 1 \in Nat OBVIOUS
<1>3. m - 1 \in S BY <1>1, <1>2
<1> QED BY <1>3

\* The same over 0 .. N.
LEMMA InductTo ==
  ASSUME NEW N \in Nat, NEW S, 0 \in S, \A n \in 0 .. N : n \in S /\ n < N => n + 1 \in S
  PROVE  0 .. N \subseteq S
<1> DEFINE T == {n \in Nat : n <= N => n \in S}
<1>1. 0 \in T OBVIOUS
<1>2. ASSUME NEW n \in T PROVE n + 1 \in T
  <2>1. CASE n + 1 <= N
    <3>1. n \in 0 .. N /\ n \in S /\ n < N BY <1>2, <2>1
    <3> QED BY <3>1
  <2>2. CASE ~(n + 1 <= N) BY <1>2, <2>2
  <2> QED BY <2>1, <2>2
<1> HIDE DEF T
<1>3. T = Nat
  <2>1. T \in SUBSET Nat BY DEF T
  <2> QED BY <1>1, <1>2, <2>1, Induct
<1> QED BY <1>3 DEF T

-----------------------------------------------------------------------------
(***************************************************************************)
(* Recursion: whatever step does, there is a function that starts at x and *)
(* goes on from each value to the next by step.                            *)
(***************************************************************************)
StaysIn(step, N, X) == \A y \in X : \A n \in 1 .. N : step[<<y, n>>] \in X

Iterates(g, N, X, x, step) ==
  /\ g \in [0 .. N -> X]
  /\ g[0] = x
  /\ \A n \in 1 .. N : g[n] = step[<<g[n - 1], n>>]

LEMMA RecExists ==
  ASSUME NEW N \in Nat, NEW X, NEW x \in X, NEW step, StaysIn(step, N, X)
  PROVE  \E g : Iterates(g, N, X, x, step)
<1> USE DEF StaysIn
<1> DEFINE UpTo(k) == \E g \in [0 .. N -> X] :
                         g[0] = x /\ \A n \in 1 .. N : n <= k => g[n] = step[<<g[n - 1], n>>]
           S == {k \in 0 .. N : UpTo(k)}
<1>1. 0 \in S
  <2> DEFINE g == [n \in 0 .. N |-> x]
  <2>1. g \in [0 .. N -> X] /\ g[0] = x OBVIOUS
  <2>2. ASSUME NEW n \in 1 .. N, n <= 0 PROVE FALSE BY <2>2
  <2> HIDE DEF g
  <2>3. UpTo(0) BY <2>1, <2>2
  <2> QED BY <2>3
<1>2. ASSUME NEW k \in 0 .. N, k \in S, k < N PROVE k + 1 \in S
  <2>1. PICK g \in [0 .. N -> X] :
          g[0] = x /\ \A n \in 1 .. N : n <= k => g[n] = step[<<g[n - 1], n>>]
    BY <1>2
  <2> DEFINE h == [n \in 0 .. N |-> IF n = k + 1 THEN step[<<g[k], k + 1>>] ELSE g[n]]
  <2>2. h \in [0 .. N -> X]
    <3>1. k + 1 \in 1 .. N /\ g[k] \in X BY <1>2
    <3>2. step[<<g[k], k + 1>>] \in X BY <3>1
    <3> QED BY <3>2
  <2>3. h[0] = x BY <2>1, <1>2
  <2>4. ASSUME NEW n \in 1 .. N, n <= k + 1 PROVE h[n] = step[<<h[n - 1], n>>]
    <3>1. n - 1 \in 0 .. N /\ n - 1 # k + 1 /\ n \in 0 .. N BY <2>4
    <3>2. h[n - 1] = g[n - 1] BY <3>1
    <3>3. CASE n = k + 1 BY <3>1, <3>2, <3>3
    <3>4. CASE n # k + 1
      <4>1. n <= k /\ h[n] = g[n] BY <3>1, <3>4, <2>4
      <4> QED BY <4>1, <3>2, <2>1
    <3> QED BY <3>3, <3>4
  <2> HIDE DEF h
  <2>5. UpTo(k + 1) BY <2>2, <2>3, <2>4
  <2> QED BY <2>5, <1>2
<1> HIDE DEF S
<1>3. 0 .. N \subseteq S BY <1>1, <1>2, InductTo
<1>4. N \in S BY <1>3
<1>5. PICK g \in [0 .. N -> X] :
        g[0] = x /\ \A n \in 1 .. N : n <= N => g[n] = step[<<g[n - 1], n>>]
  BY <1>4 DEF S
<1>6. Iterates(g, N, X, x, step) BY <1>5 DEF Iterates
<1> QED BY <1>6

-----------------------------------------------------------------------------
(***************************************************************************)
(* Offsets.  The parcels from addr to addr + count go.                     *)
(***************************************************************************)
\* Where an offset that is not among them moves.
Down(p, addr, count) == IF p > addr THEN p - count ELSE p

Outside(p, addr, count) == p <= addr \/ addr + count <= p

\* A reloc that is not about any of them.
Clear(r, addr, count) == End(r) <= addr \/ addr + count <= r.off

Reloc == [type : Types, off : Nat, add : Nat]

LEMMA ExtentFacts ==
  ASSUME NEW r \in Reloc
  PROVE  /\ Extent(r) \in Nat /\ End(r) \in Nat /\ r.off <= End(r)
         /\ r.type \in {"RELAX", "NONE"} => Extent(r) = 0
         /\ r.type \in {"CALL", "HI20", "OTHER"} => Extent(r) > 0
         /\ r.type \in {"ALIGN", "DELETE"} => Extent(r) = r.add
BY DEF Reloc, Extent, End, Types, InsnTypes

\* What the loop of _riscv_relax_delete_bytes does to one reloc.
MovedReloc(q, r, addr, count) ==
  /\ q \in Reloc /\ q.type = r.type /\ q.add = r.add
  /\ Extent(q) = Extent(r)
  /\ q.off = IF r.off > addr /\ r.off < size THEN r.off - count ELSE r.off

LEMMA ShiftFacts ==
  ASSUME TypeOK, NEW r \in Reloc, NEW addr \in Nat, NEW count \in Nat, count > 0, Clear(r, addr, count)
  PROVE  MovedReloc(ShiftReloc(r, addr, count), r, addr, count)
<1> DEFINE q == ShiftReloc(r, addr, count)
<1>1. size \in Nat BY DEF TypeOK
<1>2. r.off \in Nat /\ r.type \in Types /\ r.add \in Nat BY DEF Reloc
<1>3. CASE r.off > addr /\ r.off < size
  <2>1. q = [r EXCEPT !.off = r.off - count] BY <1>3 DEF ShiftReloc
  <2>2. r.off >= addr + count BY <1>2, <1>3, ExtentFacts DEF Clear
  <2>3. r.off - count \in Nat BY <1>2, <2>2
  <2>4. q \in Reloc /\ q.type = r.type /\ q.add = r.add /\ q.off = r.off - count BY <2>1, <2>3 DEF Reloc
  <2>5. Extent(q) = Extent(r) BY <2>4 DEF Extent
  <2> QED BY <1>3, <2>4, <2>5 DEF MovedReloc
<1>4. CASE ~(r.off > addr /\ r.off < size)
  <2>1. q = r BY <1>4 DEF ShiftReloc
  <2> QED BY <1>4, <2>1 DEF MovedReloc
<1> QED BY <1>3, <1>4

\* And to one symbol: both of its ends move as offsets do.
MovedSym(q, s, addr, count) ==
  /\ q \in [val : Nat, size : Nat]
  /\ q.val = Down(s.val, addr, count)
  /\ q.val + q.size = Down(s.val + s.size, addr, count)

LEMMA ShiftSymFacts ==
  ASSUME TypeOK, NEW s \in [val : Nat, size : Nat], NEW addr \in Nat, NEW count \in Nat, count > 0,
         s.val + s.size <= size, Outside(s.val, addr, count), Outside(s.val + s.size, addr, count)
  PROVE  MovedSym(ShiftSym(s, addr, count), s, addr, count)
<1> DEFINE q == ShiftSym(s, addr, count)
<1>1. size \in Nat /\ s.val \in Nat /\ s.size \in Nat BY DEF TypeOK
<1>2. CASE s.val > addr
  <2>1. s.val <= size BY <1>1
  <2>2. q = [s EXCEPT !.val = s.val - count] BY <1>2, <2>1 DEF ShiftSym
  <2>3. s.val - count \in Nat BY <1>1, <1>2 DEF Outside
  <2>4. q \in [val : Nat, size : Nat] /\ q.val = s.val - count /\ q.size = s.size BY <2>2, <2>3
  <2> QED BY <1>1, <1>2, <2>4 DEF Down, MovedSym
<1>3. CASE s.val <= addr /\ s.val + s.size > addr
  <2>1. q = [s EXCEPT !.size = s.size - count] BY <1>1, <1>3 DEF ShiftSym
  <2>2. s.size - count \in Nat BY <1>1, <1>3 DEF Outside
  <2>3. q \in [val : Nat, size : Nat] /\ q.val = s.val /\ q.size = s.size - count BY <2>1, <2>2
  <2> QED BY <1>1, <1>3, <2>3 DEF Down, MovedSym
<1>4. CASE s.val <= addr /\ s.val + s.size <= addr
  <2>1. q = s BY <1>1, <1>4 DEF ShiftSym
  <2> QED BY <1>1, <1>4, <2>1 DEF Down, MovedSym
<1> QED BY <1>1, <1>2, <1>3, <1>4

-----------------------------------------------------------------------------
(***************************************************************************)
(* A deletion: parcels of the reloc j go, which is then used up.           *)
(***************************************************************************)
\* The parcels are those of a DELETE or the last ones of an alignment directive.
Deletable(j, addr, count) ==
  /\ relocs[j].type \in {"ALIGN", "DELETE"}
  /\ addr \in Nat /\ count \in Nat /\ count > 0
  /\ relocs[j].off <= addr
  /\ addr + count = End(relocs[j])
  /\ relocs[j].type = "DELETE" => addr = relocs[j].off

UsedUp(j) == [relocs EXCEPT ![j].type = "NONE"]

Geometry == InOrder(relocs) /\ Inside(relocs, size) /\ SymsFit(sym, relocs, size)

LEMMA RelocFacts ==
  ASSUME TypeOK, NEW k \in 1 .. NReloc
  PROVE  relocs[k] \in Reloc /\ relocs[k].off \in Nat /\ relocs[k].add \in Nat
BY DEF TypeOK, Relocs, Reloc

LEMMA UsedUpFacts ==
  ASSUME TypeOK, NEW j \in 1 .. NReloc
  PROVE  /\ UsedUp(j) \in Relocs
         /\ \A k \in 1 .. NReloc : k # j => UsedUp(j)[k] = relocs[k]
         /\ UsedUp(j)[j].type = "NONE" /\ UsedUp(j)[j].off = relocs[j].off /\ Extent(UsedUp(j)[j]) = 0
         /\ End(UsedUp(j)[j]) = relocs[j].off
<1>1. UsedUp(j) = [relocs EXCEPT ![j] = [relocs[j] EXCEPT !.type = "NONE"]] BY DEF UsedUp
<1>2. [relocs[j] EXCEPT !.type = "NONE"] \in [type : Types, off : Nat, add : Nat]
  BY DEF TypeOK, Relocs, Types
<1>3. UsedUp(j) \in Relocs BY <1>1, <1>2 DEF TypeOK, Relocs
<1>4. UsedUp(j)[j] = [relocs[j] EXCEPT !.type = "NONE"] BY <1>1 DEF TypeOK, Relocs
<1>5. \A k \in 1 .. NReloc : k # j => UsedUp(j)[k] = relocs[k] BY <1>1 DEF TypeOK, Relocs
<1>6. UsedUp(j)[j].type = "NONE" /\ UsedUp(j)[j].off = relocs[j].off /\ UsedUp(j)[j].off \in Nat
  BY <1>4, RelocFacts DEF TypeOK, Relocs
<1>7. Extent(UsedUp(j)[j]) = 0 BY <1>6 DEF Extent
<1>8. End(UsedUp(j)[j]) = relocs[j].off BY <1>6, <1>7 DEF End
<1> QED BY <1>3, <1>5, <1>6, <1>7, <1>8

\* No other reloc is about the parcels.
LEMMA AllClear ==
  ASSUME TypeOK, Geometry, NEW j \in 1 .. NReloc, NEW addr, NEW count, Deletable(j, addr, count),
         NEW k \in 1 .. NReloc
  PROVE  Clear(UsedUp(j)[k], addr, count)
<1>1. relocs[j] \in Reloc /\ relocs[k] \in Reloc BY RelocFacts
<1>2. relocs[j].off \in Nat /\ relocs[k].off \in Nat /\ End(relocs[k]) \in Nat
  BY <1>1, RelocFacts, ExtentFacts
<1>3. CASE k = j BY <1>3, UsedUpFacts DEF Clear, Deletable
<1>4. CASE k < j
  <2>1. End(relocs[k]) <= relocs[j].off BY <1>4 DEF Geometry, InOrder, Deletable
  <2> QED BY <1>2, <1>4, <2>1, UsedUpFacts DEF Clear, Deletable
<1>5. CASE k > j
  <2>1. CASE End(relocs[j]) <= relocs[k].off BY <1>5, <2>1, UsedUpFacts DEF Clear, Deletable
  <2>2. CASE k = j + 1 /\ relocs[k].type = "RELAX"
    <3>1. relocs[k - 1].off = relocs[k].off BY <2>2 DEF Geometry, InOrder
    <3>2. relocs[k].off = relocs[j].off BY <2>2, <3>1
    <3>3. End(relocs[k]) = relocs[k].off BY <1>1, <1>2, <2>2, ExtentFacts DEF End
    <3> QED BY <1>2, <1>5, <3>2, <3>3, UsedUpFacts DEF Clear, Deletable
  <2> QED BY <1>5, <2>1, <2>2 DEF Geometry, InOrder
<1> QED BY <1>3, <1>4, <1>5

\* Boundaries are not between the parcels.
LEMMA BoundaryOutside ==
  ASSUME NEW p \in Nat, Boundary(p, relocs), NEW j \in 1 .. NReloc, NEW addr, NEW count,
         TypeOK, Deletable(j, addr, count)
  PROVE  Outside(p, addr, count)
<1>1. relocs[j].off \in Nat BY RelocFacts
<1>2. p <= relocs[j].off \/ addr + count <= p BY DEF Boundary, Deletable
<1> QED BY <1>1, <1>2 DEF Outside, Deletable

LEMMA DeletedInside ==
  ASSUME TypeOK, Geometry, NEW j \in 1 .. NReloc, NEW addr, NEW count, Deletable(j, addr, count)
  PROVE  addr + count <= size /\ addr \in Nat /\ count \in Nat /\ count > 0 /\ size - count \in Nat
BY DEF TypeOK, Geometry, Inside, Deletable, InsnTypes

\* The relocs after the deletion.
Shifted(j, addr, count) == [k \in 1 .. NReloc |-> ShiftReloc(UsedUp(j)[k], addr, count)]

LEMMA ShiftedFacts ==
  ASSUME TypeOK, Geometry, NEW j \in 1 .. NReloc, NEW addr, NEW count, Deletable(j, addr, count)
  PROVE  /\ Shifted(j, addr, count) \in Relocs
         /\ \A k \in 1 .. NReloc : MovedReloc(Shifted(j, addr, count)[k], UsedUp(j)[k], addr, count)
<1>1. ASSUME NEW k \in 1 .. NReloc
      PROVE  /\ Shifted(j, addr, count)[k] \in Reloc
             /\ MovedReloc(Shifted(j, addr, count)[k], UsedUp(j)[k], addr, count)
  <2>1. UsedUp(j)[k] \in Reloc BY UsedUpFacts DEF Relocs, Reloc
  <2>2. Clear(UsedUp(j)[k], addr, count) BY AllClear
  <2>3. MovedReloc(ShiftReloc(UsedUp(j)[k], addr, count), UsedUp(j)[k], addr, count)
    BY <2>1, <2>2, ShiftFacts DEF Deletable
  <2>4. Shifted(j, addr, count)[k] = ShiftReloc(UsedUp(j)[k], addr, count) BY DEF Shifted
  <2> QED BY <2>3, <2>4 DEF MovedReloc
<1>2. Shifted(j, addr, count) \in Relocs
  <2>1. Shifted(j, addr, count) = [k \in 1 .. NReloc |-> Shifted(j, addr, count)[k]] BY DEF Shifted
  <2> QED BY <1>1, <2>1 DEF Relocs, Reloc
<1> QED BY <1>1, <1>2

\* Numbers about one reloc before and after, for the arithmetic below.
LEMMA MovedNumbers ==
  ASSUME TypeOK, Geometry, NEW j \in 1 .. NReloc, NEW addr, NEW count, Deletable(j, addr, count),
         NEW k \in 1 .. NReloc
  PROVE  /\ UsedUp(j)[k].off \in Nat /\ End(UsedUp(j)[k]) \in Nat
         /\ UsedUp(j)[k].off <= End(UsedUp(j)[k])
         /\ Shifted(j, addr, count)[k].off =
              IF UsedUp(j)[k].off > addr /\ UsedUp(j)[k].off < size
              THEN UsedUp(j)[k].off - count ELSE UsedUp(j)[k].off
         /\ End(Shifted(j, addr, count)[k]) =
              IF UsedUp(j)[k].off > addr /\ UsedUp(j)[k].off < size
              THEN End(UsedUp(j)[k]) - count ELSE End(UsedUp(j)[k])
         /\ End(UsedUp(j)[k]) <= addr \/ addr + count <= UsedUp(j)[k].off
         /\ Shifted(j, addr, count)[k].type = UsedUp(j)[k].type
         /\ Shifted(j, addr, count)[k].add = UsedUp(j)[k].add
<1> DEFINE r == UsedUp(j)[k]
           q == Shifted(j, addr, count)[k]
<1>1. r \in Reloc BY UsedUpFacts DEF Relocs, Reloc
<1>2. MovedReloc(q, r, addr, count) BY ShiftedFacts
<1>3. Clear(r, addr, count) BY AllClear
<1>4. r.off \in Nat /\ Extent(r) \in Nat /\ End(r) = r.off + Extent(r) /\ count \in Nat
  BY <1>1, ExtentFacts DEF Reloc, End, Deletable
<1> HIDE DEF r, q
<1>5. End(q) = q.off + Extent(r) BY <1>2 DEF MovedReloc, End
<1>6. q.off = IF r.off > addr /\ r.off < size THEN r.off - count ELSE r.off BY <1>2 DEF MovedReloc
<1>7. r.off \in Nat /\ End(r) \in Nat /\ r.off <= End(r) BY <1>4
<1>8. End(q) = IF r.off > addr /\ r.off < size THEN End(r) - count ELSE End(r) BY <1>4, <1>5, <1>6
<1>9. End(r) <= addr \/ addr + count <= r.off BY <1>3 DEF Clear
<1>10. q.type = r.type /\ q.add = r.add BY <1>2 DEF MovedReloc
<1> QED BY <1>6, <1>7, <1>8, <1>9, <1>10 DEF r, q

LEMMA UsedUpInOrder ==
  ASSUME TypeOK, Geometry, NEW j \in 1 .. NReloc, NEW addr, NEW count, Deletable(j, addr, count)
  PROVE  InOrder(UsedUp(j))
<1> DEFINE u == UsedUp(j)
<1>1. /\ \A k \in 1 .. NReloc : k # j => u[k] = relocs[k]
      /\ u[j].type = "NONE" /\ u[j].off = relocs[j].off /\ End(u[j]) = relocs[j].off
  BY UsedUpFacts
<1>2. relocs[j].type # "RELAX" BY DEF Deletable
<1> HIDE DEF u
<1>3. ASSUME NEW a \in 1 .. NReloc, NEW b \in 1 .. NReloc, a < b
      PROVE  End(u[a]) <= u[b].off \/ (b = a + 1 /\ u[b].type = "RELAX")
  <2>1. End(relocs[a]) <= relocs[b].off \/ (b = a + 1 /\ relocs[b].type = "RELAX")
    BY <1>3 DEF Geometry, InOrder
  <2>2. CASE a # j /\ b # j BY <1>1, <2>1, <2>2
  <2>3. CASE b = j
    <3>1. a # j BY <1>3, <2>3
    <3> QED BY <1>1, <1>2, <2>1, <2>3, <3>1
  <2>4. CASE a = j
    <3>1. b # j /\ u[b] = relocs[b] BY <1>1, <1>3, <2>4
    <3>2. relocs[j].off \in Nat /\ relocs[b].off \in Nat /\ End(relocs[j]) \in Nat /\ relocs[j].off <= End(relocs[j])
      BY RelocFacts, ExtentFacts
    <3> QED BY <1>1, <2>1, <2>4, <3>1, <3>2
  <2> QED BY <2>2, <2>3, <2>4
<1>4. ASSUME NEW k \in 1 .. NReloc, u[k].type = "RELAX"
      PROVE  k > 1 /\ u[k - 1].off = u[k].off /\ u[k - 1].type # "RELAX"
  <2>1. k # j /\ relocs[k].type = "RELAX" BY <1>1, <1>4
  <2>2. k > 1 /\ relocs[k - 1].off = relocs[k].off /\ relocs[k - 1].type # "RELAX"
    BY <2>1 DEF Geometry, InOrder
  <2>3. k - 1 \in 1 .. NReloc BY <2>2, ObjectsAssumption
  <2>4. u[k - 1].off = relocs[k - 1].off /\ u[k - 1].type # "RELAX" BY <1>1, <2>2, <2>3
  <2> QED BY <1>1, <2>1, <2>2, <2>4
<1>5. InOrder(u) BY <1>3, <1>4 DEF InOrder
<1> QED BY <1>5 DEF u

\* The deletion keeps the order of the relocs.
LEMMA StillInOrder ==
  ASSUME TypeOK, Geometry, NEW j \in 1 .. NReloc, NEW addr, NEW count, Deletable(j, addr, count)
  PROVE  InOrder(Shifted(j, addr, count))
<1> DEFINE u == UsedUp(j)
           v == Shifted(j, addr, count)
<1>1. InOrder(u) BY UsedUpInOrder
<1>2. addr \in Nat /\ count \in Nat /\ count > 0 /\ size \in Nat BY DEF Deletable, TypeOK
<1>3. \A k \in 1 .. NReloc :
         /\ u[k].off \in Nat /\ End(u[k]) \in Nat
         /\ u[k].off <= End(u[k])
         /\ v[k].off = IF u[k].off > addr /\ u[k].off < size THEN u[k].off - count ELSE u[k].off
         /\ End(v[k]) = IF u[k].off > addr /\ u[k].off < size THEN End(u[k]) - count ELSE End(u[k])
         /\ End(u[k]) <= addr \/ addr + count <= u[k].off
         /\ v[k].type = u[k].type
  BY MovedNumbers
<1> HIDE DEF u, v
<1>4. ASSUME NEW a \in 1 .. NReloc, NEW b \in 1 .. NReloc, a < b
      PROVE  End(v[a]) <= v[b].off \/ (b = a + 1 /\ v[b].type = "RELAX")
  <2>1. CASE b = a + 1 /\ u[b].type = "RELAX" BY <1>3, <2>1
  <2>2. CASE End(u[a]) <= u[b].off BY <1>2, <1>3, <2>2
  <2> QED BY <1>1, <1>4, <2>1, <2>2 DEF InOrder
<1>5. ASSUME NEW k \in 1 .. NReloc, v[k].type = "RELAX"
      PROVE  k > 1 /\ v[k - 1].off = v[k].off /\ v[k - 1].type # "RELAX"
  <2>1. u[k].type = "RELAX" BY <1>3, <1>5
  <2>2. k > 1 /\ u[k - 1].off = u[k].off /\ u[k - 1].type # "RELAX" BY <1>1, <2>1 DEF InOrder
  <2>3. k - 1 \in 1 .. NReloc BY <2>2, ObjectsAssumption
  <2> QED BY <1>3, <2>2, <2>3
<1>6. InOrder(v) BY <1>4, <1>5 DEF InOrder
<1> QED BY <1>6 DEF v

LEMMA StillInside ==
  ASSUME TypeOK, Geometry, NEW j \in 1 .. NReloc, NEW addr, NEW count, Deletable(j, addr, count)
  PROVE  Inside(Shifted(j, addr, count), size - count)
<1> SUFFICES ASSUME NEW k \in 1 .. NReloc
             PROVE  LET q == Shifted(j, addr, count)[k]
                    IN /\ q.type \in {"ALIGN", "DELETE"} => q.add > 0
                       /\ q.type \in InsnTypes \cup {"DELETE"} => End(q) <= size - count
  BY DEF Inside
<1> DEFINE u == UsedUp(j)[k]
           v == Shifted(j, addr, count)[k]
<1>1. addr \in Nat /\ count \in Nat /\ count > 0 /\ size \in Nat /\ addr + count <= size
  BY DeletedInside DEF TypeOK
<1>2. /\ u.off \in Nat /\ End(u) \in Nat /\ u.off <= End(u)
      /\ End(v) = IF u.off > addr /\ u.off < size THEN End(u) - count ELSE End(u)
      /\ End(u) <= addr \/ addr + count <= u.off
      /\ v.type = u.type /\ v.add = u.add
  BY MovedNumbers
<1>3. CASE k = j
  <2>1. u.type = "NONE" BY <1>3, UsedUpFacts
  <2> HIDE DEF u, v
  <2>2. v.type = "NONE" BY <1>2, <2>1
  <2> QED BY <2>2 DEF v, InsnTypes
<1>4. CASE k # j
  <2>1. u = relocs[k] BY <1>4, UsedUpFacts
  <2>2. u \in Reloc BY <2>1, RelocFacts
  <2>3. /\ u.type \in {"ALIGN", "DELETE"} => u.add > 0
        /\ u.type \in InsnTypes \cup {"DELETE"} => End(u) <= size
    BY <2>1 DEF Geometry, Inside
  <2>4. u.type \in InsnTypes \cup {"DELETE"} => u.off < size
    <3>1. u.type \in InsnTypes \cup {"DELETE"} => Extent(u) > 0 BY <2>2, <2>3, ExtentFacts DEF InsnTypes
    <3>2. Extent(u) \in Nat /\ End(u) = u.off + Extent(u) BY <2>2, ExtentFacts DEF End
    <3> HIDE DEF u, v
    <3> QED BY <1>1, <1>2, <2>3, <3>1, <3>2
  <2> HIDE DEF u, v
  <2>5. u.type \in InsnTypes \cup {"DELETE"} => End(v) <= size - count BY <1>1, <1>2, <2>3, <2>4
  <2>6. v.type \in {"ALIGN", "DELETE"} => v.add > 0 BY <1>2, <2>3
  <2> QED BY <1>2, <2>5, <2>6 DEF v
<1> QED BY <1>3, <1>4

\* A boundary moves to a boundary.
LEMMA StillBoundary ==
  ASSUME TypeOK, Geometry, NEW j \in 1 .. NReloc, NEW addr, NEW count, Deletable(j, addr, count),
         NEW p \in Nat, p <= size, Boundary(p, relocs)
  PROVE  Boundary(Down(p, addr, count), Shifted(j, addr, count))
<1> SUFFICES ASSUME NEW k \in 1 .. NReloc
             PROVE  \/ Down(p, addr, count) <= Shifted(j, addr, count)[k].off
                    \/ End(Shifted(j, addr, count)[k]) <= Down(p, addr, count)
  BY DEF Boundary
<1> DEFINE u == UsedUp(j)[k]
           v == Shifted(j, addr, count)[k]
<1>1. addr \in Nat /\ count \in Nat /\ count > 0 /\ size \in Nat /\ addr + count <= size
  BY DeletedInside DEF TypeOK
<1>2. /\ u.off \in Nat /\ End(u) \in Nat /\ u.off <= End(u)
      /\ v.off = IF u.off > addr /\ u.off < size THEN u.off - count ELSE u.off
      /\ End(v) = IF u.off > addr /\ u.off < size THEN End(u) - count ELSE End(u)
      /\ End(u) <= addr \/ addr + count <= u.off
  BY MovedNumbers
<1>3. p <= addr \/ addr + count <= p BY BoundaryOutside DEF Outside
<1>4. p <= u.off \/ End(u) <= p
  <2>1. CASE k = j
    <3>1. u.off = relocs[j].off /\ End(u) = relocs[j].off BY <2>1, UsedUpFacts
    <3>2. relocs[j].off \in Nat BY RelocFacts
    <3> QED BY <3>1, <3>2
  <2>2. CASE k # j BY <2>2, UsedUpFacts DEF Boundary
  <2> QED BY <2>1, <2>2
<1> HIDE DEF u, v
<1>5. Down(p, addr, count) <= v.off \/ End(v) <= Down(p, addr, count)
  <2>1. CASE p > addr
    <3>1. Down(p, addr, count) = p - count BY <2>1 DEF Down
    <3> QED BY <1>1, <1>2, <1>3, <1>4, <2>1, <3>1
  <2>2. CASE p <= addr
    <3>1. Down(p, addr, count) = p BY <1>1, <2>2 DEF Down
    <3> QED BY <1>1, <1>2, <1>4, <2>2, <3>1
  <2> QED BY <1>1, <2>1, <2>2
<1> QED BY <1>5 DEF v

\* Symbols end up at boundaries again.
LEMMA StillFit ==
  ASSUME TypeOK, Geometry, NEW j \in 1 .. NReloc, NEW addr, NEW count, Deletable(j, addr, count),
         NEW s2, s2 = [l \in Labels |-> ShiftSym(sym[l], addr, count)]
  PROVE  /\ s2 \in [Labels -> [val : Nat, size : Nat]]
         /\ \A l \in Labels : MovedSym(s2[l], sym[l], addr, count)
         /\ SymsFit(s2, Shifted(j, addr, count), size - count)
<1>1. addr \in Nat /\ count \in Nat /\ count > 0 /\ size \in Nat /\ addr + count <= size
  BY DeletedInside DEF TypeOK
<1>2. ASSUME NEW l \in Labels
      PROVE  /\ MovedSym(s2[l], sym[l], addr, count)
             /\ s2[l].val + s2[l].size <= size - count
             /\ Boundary(s2[l].val, Shifted(j, addr, count))
             /\ Boundary(s2[l].val + s2[l].size, Shifted(j, addr, count))
  <2> DEFINE p == sym[l].val
             e == sym[l].val + sym[l].size
  <2>1. sym[l] \in [val : Nat, size : Nat] /\ p \in Nat /\ e \in Nat BY DEF TypeOK
  <2>2. e <= size /\ p <= size /\ Boundary(p, relocs) /\ Boundary(e, relocs)
    BY <1>1, <2>1 DEF Geometry, SymsFit, TypeOK
  <2>3. Outside(p, addr, count) /\ Outside(e, addr, count) BY <2>1, <2>2, BoundaryOutside
  <2>4. MovedSym(ShiftSym(sym[l], addr, count), sym[l], addr, count)
    BY <1>1, <2>1, <2>2, <2>3, ShiftSymFacts
  <2>5. MovedSym(s2[l], sym[l], addr, count) BY <2>4
  <2>6. s2[l].val = Down(p, addr, count) /\ s2[l].val + s2[l].size = Down(e, addr, count) BY <2>5 DEF MovedSym
  <2>7. Boundary(Down(p, addr, count), Shifted(j, addr, count))
    BY <2>1, <2>2, StillBoundary
  <2>8. Boundary(Down(e, addr, count), Shifted(j, addr, count))
    BY <2>1, <2>2, StillBoundary
  <2> HIDE DEF p, e
  <2>9. Down(e, addr, count) <= size - count BY <1>1, <2>1, <2>2, <2>3 DEF Down, Outside
  <2> QED BY <2>5, <2>6, <2>7, <2>8, <2>9
<1>3. \A l \in Labels : s2[l] \in [val : Nat, size : Nat] BY <1>2 DEF MovedSym
<1>4. s2 \in [Labels -> [val : Nat, size : Nat]] BY <1>3
<1> QED BY <1>2, <1>4 DEF SymsFit

LEMMA StillGeometry ==
  ASSUME TypeOK, Geometry, NEW j \in 1 .. NReloc, NEW addr, NEW count, Deletable(j, addr, count),
         relocs' = Shifted(j, addr, count), size' = size - count,
         sym' = [l \in Labels |-> ShiftSym(sym[l], addr, count)]
  PROVE  /\ Geometry'
         /\ relocs' \in Relocs /\ size' \in Nat /\ sym' \in [Labels -> [val : Nat, size : Nat]]
<1>1. InOrder(relocs)' BY StillInOrder
<1>2. Inside(relocs, size)' BY StillInside
<1>3. SymsFit(sym, relocs, size)' /\ sym' \in [Labels -> [val : Nat, size : Nat]] BY StillFit
<1>4. relocs' \in Relocs BY ShiftedFacts
<1>5. size' \in Nat BY DeletedInside
<1> QED BY <1>1, <1>2, <1>3, <1>4, <1>5 DEF Geometry

-----------------------------------------------------------------------------
(***************************************************************************)
(* Bytes.                                                                  *)
(***************************************************************************)
Bytes(T, p, q) == {T[k] : k \in p .. q - 1}

\* U is T without the c bytes at a; n is the length of T.
CutOut(U, T, n, a, c) ==
  /\ n \in Nat /\ a \in Nat /\ c \in Nat /\ c > 0 /\ a + c <= n
  /\ \A k \in 0 .. n - c - 1 : U[k] = IF k < a THEN T[k] ELSE T[k + c]

Different(T, n) == \A j, k \in 0 .. n - 1 : T[j] = T[k] => j = k

\* A range of bytes between two offsets that are not inside the cut loses exactly the
\* bytes that are cut.
LEMMA RangeCut ==
  ASSUME NEW T, NEW U, NEW n, NEW a, NEW c, CutOut(U, T, n, a, c), Different(T, n),
         NEW p \in Nat, NEW q \in Nat, p <= q, q <= n, Outside(p, a, c), Outside(q, a, c)
  PROVE  Bytes(U, Down(p, a, c), Down(q, a, c)) = Bytes(T, p, q) \ Bytes(T, a, a + c)
<1> DEFINE P == Down(p, a, c)
           Q == Down(q, a, c)
<1>1. n \in Nat /\ a \in Nat /\ c \in Nat /\ c > 0 /\ a + c <= n BY DEF CutOut
<1>2. /\ P = (IF p > a THEN p - c ELSE p) /\ Q = (IF q > a THEN q - c ELSE q)
      /\ p <= a \/ a + c <= p
      /\ q <= a \/ a + c <= q
  BY DEF Down, Outside
<1>3. P \in Nat /\ Q \in Nat /\ Q <= n - c BY <1>1, <1>2
<1> HIDE DEF P, Q
<1>4. ASSUME NEW k \in P .. Q - 1
      PROVE  U[k] \in Bytes(T, p, q) /\ U[k] \notin Bytes(T, a, a + c)
  <2> DEFINE m == IF k < a THEN k ELSE k + c
  <2>1. k \in 0 .. n - c - 1 /\ k \in Nat BY <1>1, <1>3
  <2>2. U[k] = T[m] BY <2>1 DEF CutOut
  <2>3. m \in Nat /\ m \in 0 .. n - 1 /\ (m < a \/ m >= a + c) BY <1>1, <2>1
  <2>4. p <= m /\ m <= q - 1
    <3>1. CASE k < a BY <1>1, <1>2, <1>3, <2>1, <3>1
    <3>2. CASE k >= a BY <1>1, <1>2, <1>3, <2>1, <3>2
    <3> QED BY <1>1, <2>1, <3>1, <3>2
  <2> HIDE DEF m
  <2>5. T[m] \in Bytes(T, p, q) BY <1>1, <2>3, <2>4 DEF Bytes
  <2>6. ASSUME NEW x \in a .. a + c - 1, T[x] = T[m] PROVE FALSE
    <3>1. x \in 0 .. n - 1 BY <1>1
    <3>2. x = m BY <2>3, <2>6, <3>1 DEF Different
    <3> QED BY <1>1, <2>3, <3>2
  <2>7. T[m] \notin Bytes(T, a, a + c)
    <3> SUFFICES ASSUME T[m] \in Bytes(T, a, a + c) PROVE FALSE OBVIOUS
    <3>1. PICK x \in a .. (a + c) - 1 : T[m] = T[x] BY DEF Bytes
    <3>2. x \in a .. a + c - 1 BY <1>1
    <3> QED BY <2>6, <3>1, <3>2
  <2> QED BY <2>2, <2>5, <2>7
<1>5. ASSUME NEW m \in p .. q - 1, T[m] \notin Bytes(T, a, a + c)
      PROVE  T[m] \in Bytes(U, P, Q)
  <2>1. m \in Nat /\ ~(a <= m /\ m < a + c)
    <3>1. m \in Nat BY <1>1
    <3>3. m \in a .. (a + c) - 1 => T[m] \in Bytes(T, a, a + c) BY DEF Bytes
    <3>4. m \notin a .. (a + c) - 1 BY <1>5, <3>3
    <3>5. ~(a <= m /\ m < a + c) BY <1>1, <3>1, <3>4
    <3> QED BY <3>1, <3>5
  <2> DEFINE k == IF m < a THEN m ELSE m - c
  <2>2. k \in P .. Q - 1 /\ k \in 0 .. n - c - 1 /\ (k < a <=> m < a) /\ (k >= a => k + c = m)
    BY <1>1, <1>2, <1>3, <2>1
  <2>3. U[k] = T[m]
    <3>1. U[k] = IF k < a THEN T[k] ELSE T[k + c] BY <2>2 DEF CutOut
    <3>2. CASE m < a BY <2>2, <3>1, <3>2
    <3>3. CASE ~(m < a)
      <4>1. k + c = m /\ ~(k < a) BY <1>1, <2>1, <2>2, <3>3
      <4> QED BY <3>1, <4>1
    <3> QED BY <3>2, <3>3
  <2> QED BY <2>2, <2>3 DEF Bytes
<1>6. ASSUME NEW b \in Bytes(U, P, Q) PROVE b \in Bytes(T, p, q) \ Bytes(T, a, a + c)
  <2>1. PICK k \in P .. Q - 1 : b = U[k] BY <1>6 DEF Bytes
  <2> QED BY <1>4, <2>1
<1>7. ASSUME NEW b \in Bytes(T, p, q) \ Bytes(T, a, a + c) PROVE b \in Bytes(U, P, Q)
  <2>1. PICK m \in p .. q - 1 : b = T[m] BY <1>7 DEF Bytes
  <2> QED BY <1>5, <1>7, <2>1
<1>8. Bytes(U, P, Q) = Bytes(T, p, q) \ Bytes(T, a, a + c) BY <1>6, <1>7
<1> QED BY <1>8 DEF P, Q

\* A byte that is not cut is found where its offset moves.
LEMMA ByteCut ==
  ASSUME NEW T, NEW U, NEW n, NEW a, NEW c, CutOut(U, T, n, a, c), Different(T, n),
         NEW p \in Nat, p < n, p < a \/ a + c <= p
  PROVE  U[Down(p, a, c)] = T[p] /\ T[p] \notin Bytes(T, a, a + c) /\ Down(p, a, c) \in 0 .. n - c - 1
<1>1. n \in Nat /\ a \in Nat /\ c \in Nat /\ c > 0 /\ a + c <= n BY DEF CutOut
<1>2. CASE p < a
  <2>1. Down(p, a, c) = p /\ p \in 0 .. n - c - 1 BY <1>1, <1>2 DEF Down
  <2> QED BY <1>1, <1>2, <2>1 DEF CutOut, Different, Bytes
<1>3. CASE a + c <= p
  <2>1. Down(p, a, c) = p - c /\ p - c \in 0 .. n - c - 1 /\ ~(p - c < a) /\ (p - c) + c = p BY <1>1, <1>3 DEF Down
  <2>2. U[p - c] = T[p]
    <3> DEFINE x == p - c
    <3>1. x \in 0 .. n - c - 1 /\ ~(x < a) /\ x + c = p BY <2>1
    <3> HIDE DEF x
    <3>2. U[x] = T[x + c] BY <3>1 DEF CutOut
    <3> QED BY <3>1, <3>2 DEF x
  <2>3. T[p] \notin Bytes(T, a, a + c) BY <1>1, <1>3 DEF Different, Bytes
  <2> QED BY <2>1, <2>2, <2>3
<1> QED BY <1>2, <1>3

LEMMA StillDifferent ==
  ASSUME NEW T, NEW U, NEW n, NEW a, NEW c, CutOut(U, T, n, a, c), Different(T, n)
  PROVE  Different(U, n - c)
<1>1. n \in Nat /\ a \in Nat /\ c \in Nat /\ c > 0 /\ a + c <= n BY DEF CutOut
<1> SUFFICES ASSUME NEW j \in 0 .. n - c - 1, NEW k \in 0 .. n - c - 1, U[j] = U[k] PROVE j = k
  BY DEF Different
<1> DEFINE J == IF j < a THEN j ELSE j + c
           K == IF k < a THEN k ELSE k + c
<1>2. U[j] = T[J] /\ U[k] = T[K] BY DEF CutOut
<1>3. J \in 0 .. n - 1 /\ K \in 0 .. n - 1 BY <1>1
<1>4. J = K
  <2> HIDE DEF J, K
  <2> QED BY <1>2, <1>3 DEF Different
<1> QED BY <1>1, <1>4

-----------------------------------------------------------------------------
(***************************************************************************)
(* A deletion is a cut of SectionEdit.                                     *)
(***************************************************************************)
LEMMA BytesAreText ==
  ASSUME TypeOK, NEW p \in Nat, NEW m \in Nat, p + m <= size
  PROVE  BytesAt(p, m) = Bytes(Text, p, p + m)
<1>1. \A k \in p .. p + m - 1 : k \in 0 .. size - 1 BY DEF TypeOK
<1>2. \A k \in p .. p + m - 1 : Text[k] = ByteAt(k) BY <1>1 DEF Text
<1> QED BY <1>2 DEF BytesAt, Bytes

\* One step of the loop, seen from the section's text.
DeleteStep(j, addr, count) ==
  /\ relocs' = Shifted(j, addr, count)
  /\ size' = size - count
  /\ sym' = [l \in Labels |-> ShiftSym(sym[l], addr, count)]
  /\ Text' = [k \in 0 .. size - count - 1 |-> IF k < addr THEN Text[k] ELSE Text[k + count]]

CutPre(j, addr, count) ==
  /\ TypeOK /\ TypeOK' /\ Geometry /\ Distinct /\ j \in 1 .. NReloc
  /\ Deletable(j, addr, count) /\ DeleteStep(j, addr, count)

LEMMA TextCut ==
  ASSUME NEW j, NEW addr, NEW count, CutPre(j, addr, count)
  PROVE  /\ CutOut(Text', Text, size, addr, count) /\ Different(Text, size)
         /\ Different(Text', size')
<1>1. /\ addr \in Nat /\ count \in Nat /\ count > 0 /\ addr + count <= size /\ size \in Nat
      /\ size' = size - count
      /\ Text' = [k \in 0 .. size - count - 1 |-> IF k < addr THEN Text[k] ELSE Text[k + count]]
  BY DeletedInside DEF CutPre, DeleteStep, TypeOK
<1>2. CutOut(Text', Text, size, addr, count) BY <1>1 DEF CutOut
<1>3. Different(Text, size) BY DEF CutPre, Distinct, Different, Text
<1>4. Different(Text', size - count) BY <1>2, <1>3, StillDifferent
<1> QED BY <1>1, <1>2, <1>3, <1>4

\* What a range of bytes becomes.
LEMMA RangeStep ==
  ASSUME NEW j, NEW addr, NEW count, CutPre(j, addr, count),
         NEW p \in Nat, NEW m \in Nat, p + m <= size, Outside(p, addr, count), Outside(p + m, addr, count),
         NEW p2 \in Nat, NEW m2 \in Nat, p2 = Down(p, addr, count), p2 + m2 = Down(p + m, addr, count)
  PROVE  BytesAt(p2, m2)' = BytesAt(p, m) \ Bytes(Text, addr, addr + count)
<1>1. /\ addr \in Nat /\ count \in Nat /\ count > 0 /\ addr + count <= size /\ size \in Nat
      /\ size' = size - count /\ TypeOK /\ TypeOK'
  BY DeletedInside DEF CutPre, DeleteStep, TypeOK
<1>2. BytesAt(p, m) = Bytes(Text, p, p + m) BY <1>1, BytesAreText
<1>3. p2 + m2 <= size' BY <1>1 DEF Down, Outside
<1>4. BytesAt(p2, m2)' = Bytes(Text', p2, p2 + m2)
  <2>1. \A k \in p2 .. p2 + m2 - 1 : k \in 0 .. size' - 1 BY <1>1, <1>3
  <2>2. \A k \in p2 .. p2 + m2 - 1 : Text'[k] = ByteAt(k)' BY <2>1 DEF Text
  <2> QED BY <2>2 DEF BytesAt, Bytes
<1>5. p + m \in Nat /\ p <= p + m OBVIOUS
<1> DEFINE q == p + m
<1>6. Bytes(Text', Down(p, addr, count), Down(q, addr, count)) = Bytes(Text, p, q) \ Bytes(Text, addr, addr + count)
  <2>1. CutOut(Text', Text, size, addr, count) /\ Different(Text, size) BY TextCut
  <2>2. q \in Nat /\ p <= q /\ q <= size /\ Outside(q, addr, count) BY <1>5
  <2> HIDE DEF q
  <2> QED BY <2>1, <2>2, RangeCut
<1> QED BY <1>2, <1>4, <1>6

\* The ends of a DELETE or an alignment directive are outside, and move.
LEMMA RelocRange ==
  ASSUME NEW j, NEW addr, NEW count, CutPre(j, addr, count), NEW k \in 1 .. NReloc, k # j,
         relocs[k].type \in {"ALIGN", "DELETE"}
  PROVE  BytesAt(relocs[k].off, relocs[k].add)' = BytesAt(relocs[k].off, relocs[k].add) \ Bytes(Text, addr, addr + count)
<1> DEFINE r == relocs[k]
           q == relocs'[k]
<1>1. /\ addr \in Nat /\ count \in Nat /\ count > 0 /\ addr + count <= size /\ size \in Nat
      /\ TypeOK /\ Geometry /\ j \in 1 .. NReloc /\ Deletable(j, addr, count)
      /\ relocs' = Shifted(j, addr, count)
  BY DeletedInside DEF CutPre, DeleteStep, TypeOK
<1>2. UsedUp(j)[k] = r BY <1>1, UsedUpFacts
<1>3. /\ q.off = IF r.off > addr /\ r.off < size THEN r.off - count ELSE r.off
      /\ End(r) <= addr \/ addr + count <= r.off
      /\ q.add = r.add
  BY <1>1, <1>2, MovedNumbers
<1>4. r \in Reloc /\ r.off \in Nat /\ r.add \in Nat BY <1>1, RelocFacts
<1>5. End(r) = r.off + r.add /\ r.add > 0 /\ End(r) <= size
  BY <1>1, <1>4, ExtentFacts DEF Geometry, Inside, End, InsnTypes
<1> HIDE DEF r, q
<1>6. Outside(r.off, addr, count) /\ Outside(r.off + r.add, addr, count) BY <1>1, <1>3, <1>4, <1>5 DEF Outside
<1>7. q.off = Down(r.off, addr, count) BY <1>1, <1>3, <1>4, <1>5 DEF Down
<1>8. q.off + q.add = Down(r.off + r.add, addr, count) BY <1>1, <1>3, <1>4, <1>5 DEF Down
<1>9. q.off \in Nat /\ q.add \in Nat BY <1>1, <1>3, <1>4, <1>5
<1>10. PICK p2 \in Nat, m2 \in Nat : p2 = q.off /\ m2 = q.add BY <1>9
<1>11. BytesAt(p2, m2)' = BytesAt(r.off, r.add) \ Bytes(Text, addr, addr + count)
  BY <1>4, <1>5, <1>6, <1>7, <1>8, <1>10, RangeStep
<1>12. BytesAt(relocs[k].off, relocs[k].add)' = BytesAt(p2, m2)' BY <1>10 DEF q, BytesAt
<1> QED BY <1>11, <1>12 DEF r

\* The bytes that go.
Gone(addr, count) == Bytes(Text, addr, addr + count)

LEMMA CutFacts ==
  ASSUME NEW j, NEW addr, NEW count, CutPre(j, addr, count)
  PROVE  /\ addr \in Nat /\ count \in Nat /\ count > 0 /\ addr + count <= size /\ size \in Nat
         /\ size' = size - count /\ size' \in Nat
         /\ TypeOK /\ TypeOK' /\ Geometry /\ j \in 1 .. NReloc /\ Deletable(j, addr, count)
         /\ relocs' = Shifted(j, addr, count)
         /\ sym' = [l \in Labels |-> ShiftSym(sym[l], addr, count)]
         /\ Text' = [k \in 0 .. size - count - 1 |-> IF k < addr THEN Text[k] ELSE Text[k + count]]
BY DeletedInside DEF CutPre, DeleteStep, TypeOK

\* Types do not change, but for j.
LEMMA CutTypes ==
  ASSUME NEW j, NEW addr, NEW count, CutPre(j, addr, count), NEW k \in 1 .. NReloc
  PROVE  /\ k # j => relocs'[k].type = relocs[k].type
         /\ k = j => relocs'[k].type = "NONE"
<1>1. TypeOK /\ Geometry /\ j \in 1 .. NReloc /\ Deletable(j, addr, count) /\ relocs' = Shifted(j, addr, count)
  BY CutFacts
<1>2. relocs'[k].type = UsedUp(j)[k].type BY <1>1, MovedNumbers
<1> QED BY <1>1, <1>2, UsedUpFacts

\* A reloc stays at its byte, and that is not one of those that go.
LEMMA CutAt ==
  ASSUME NEW j, NEW addr, NEW count, CutPre(j, addr, count), NEW k \in 1 .. NReloc
  PROVE  At'[k] \in ({At[k]} \ Gone(addr, count)) \cup {-1}
<1>1. /\ addr \in Nat /\ count \in Nat /\ count > 0 /\ addr + count <= size /\ size \in Nat
      /\ size' = size - count /\ TypeOK /\ Geometry /\ j \in 1 .. NReloc /\ Deletable(j, addr, count)
      /\ relocs' = Shifted(j, addr, count)
  BY CutFacts
<1>2. At'[k] = IF relocs'[k].type \in InsnTypes THEN ByteAt(relocs[k].off)' ELSE -1 BY DEF At
<1>3. CASE relocs'[k].type \notin InsnTypes BY <1>2, <1>3
<1>4. CASE relocs'[k].type \in InsnTypes
  <2> DEFINE r == relocs[k]
             q == relocs'[k]
  <2>1. k # j /\ r.type \in InsnTypes BY <1>4, CutTypes DEF InsnTypes
  <2>2. UsedUp(j)[k] = r BY <1>1, <2>1, UsedUpFacts
  <2>3. /\ q.off = IF r.off > addr /\ r.off < size THEN r.off - count ELSE r.off
        /\ End(r) <= addr \/ addr + count <= r.off
    BY <1>1, <2>2, MovedNumbers
  <2>4. r \in Reloc /\ r.off \in Nat /\ r.add \in Nat BY <1>1, RelocFacts
  <2>5. r.type = "ALIGN" => r.add > 0 BY <1>1 DEF Geometry, Inside
  <2>6. Extent(r) \in Nat /\ Extent(r) > 0 /\ End(r) = r.off + Extent(r)
    BY <2>1, <2>4, <2>5, ExtentFacts DEF InsnTypes, End
  <2>7. End(r) <= size BY <1>1, <2>1 DEF Geometry, Inside
  <2>8. At[k] = ByteAt(r.off) BY <2>1 DEF At
  <2>9. ByteAt(relocs[k].off)' = Text'[q.off] /\ ByteAt(r.off) = Text[r.off] /\ q.off = Down(r.off, addr, count)
    <3> HIDE DEF r, q
    <3>1. r.off \in 0 .. size - 1 /\ r.off < size BY <1>1, <2>4, <2>6, <2>7
    <3>2. q.off = Down(r.off, addr, count) BY <2>3, <3>1 DEF Down
    <3>3. q.off \in 0 .. size' - 1 BY <1>1, <2>3, <2>4, <2>6, <2>7, <3>1
    <3>4. Text'[q.off] = ByteAt(relocs[k].off)' BY <3>3 DEF Text, q
    <3>5. Text[r.off] = ByteAt(r.off) BY <3>1 DEF Text
    <3> QED BY <3>2, <3>4, <3>5
  <2> HIDE DEF r, q
  <2>10. r.off < size /\ (r.off < addr \/ addr + count <= r.off) BY <1>1, <2>3, <2>4, <2>6, <2>7
  <2>11. Text'[Down(r.off, addr, count)] = Text[r.off] /\ Text[r.off] \notin Bytes(Text, addr, addr + count)
    BY <2>4, <2>10, TextCut, ByteCut
  <2> QED BY <1>2, <1>4, <2>8, <2>9, <2>11 DEF Gone
<1> QED BY <1>3, <1>4

LEMMA CutSyms ==
  ASSUME NEW j, NEW addr, NEW count, CutPre(j, addr, count)
  PROVE  /\ Before' = [l \in Labels |-> Before[l] \ Gone(addr, count)]
         /\ Span' = [l \in Labels |-> Span[l] \ Gone(addr, count)]
<1>1. /\ addr \in Nat /\ count \in Nat /\ count > 0 /\ addr + count <= size /\ size \in Nat
      /\ TypeOK /\ Geometry /\ j \in 1 .. NReloc /\ Deletable(j, addr, count)
      /\ sym' = [l \in Labels |-> ShiftSym(sym[l], addr, count)]
  BY CutFacts
<1>2. /\ sym' \in [Labels -> [val : Nat, size : Nat]]
      /\ \A l \in Labels : MovedSym(sym'[l], sym[l], addr, count)
  BY <1>1, StillFit
<1>3. ASSUME NEW l \in Labels
      PROVE  /\ BytesAt(0, sym[l].val)' = BytesAt(0, sym[l].val) \ Gone(addr, count)
             /\ BytesAt(sym[l].val, sym[l].size)' = BytesAt(sym[l].val, sym[l].size) \ Gone(addr, count)
  <2>1. PICK p \in Nat, m \in Nat : p = sym[l].val /\ m = sym[l].size BY <1>1 DEF TypeOK
  <2>2. PICK p2 \in Nat, m2 \in Nat : p2 = sym'[l].val /\ m2 = sym'[l].size BY <1>2
  <2>3. p2 = Down(p, addr, count) /\ p2 + m2 = Down(p + m, addr, count)
    BY <1>2, <2>1, <2>2 DEF MovedSym
  <2>4. p + m <= size /\ p <= size /\ Boundary(p, relocs) /\ Boundary(p + m, relocs)
    BY <1>1, <2>1 DEF Geometry, SymsFit
  <2>5. Outside(p, addr, count) /\ Outside(p + m, addr, count)
    <3>1. p + m \in Nat OBVIOUS
    <3> QED BY <1>1, <2>4, <3>1, BoundaryOutside
  <2>6. BytesAt(p2, m2)' = BytesAt(p, m) \ Bytes(Text, addr, addr + count)
    BY <2>3, <2>4, <2>5, RangeStep
  <2>7. BytesAt(0, p2)' = BytesAt(0, p) \ Bytes(Text, addr, addr + count)
    <3> DEFINE z == 0
    <3>1. z \in Nat /\ z + p = p /\ z + p2 = p2 /\ Outside(z, addr, count) /\ z = Down(z, addr, count)
      BY <1>1 DEF Outside, Down
    <3> HIDE DEF z
    <3>2. BytesAt(z, p2)' = BytesAt(z, p) \ Bytes(Text, addr, addr + count)
      BY <2>3, <2>4, <2>5, <3>1, RangeStep
    <3> QED BY <3>2 DEF z
  <2>8. BytesAt(sym[l].val, sym[l].size)' = BytesAt(p2, m2)' BY <2>2 DEF BytesAt
  <2>9. BytesAt(0, sym[l].val)' = BytesAt(0, p2)' BY <2>2 DEF BytesAt
  <2> QED BY <2>1, <2>6, <2>7, <2>8, <2>9 DEF Gone
<1>4. Before' = [l \in Labels |-> BytesAt(0, sym[l].val)'] /\ Span' = [l \in Labels |-> BytesAt(sym[l].val, sym[l].size)']
  BY DEF Before, Span
<1>5. \A l \in Labels : Before[l] = BytesAt(0, sym[l].val) /\ Span[l] = BytesAt(sym[l].val, sym[l].size)
  BY DEF Before, Span
<1> QED BY <1>3, <1>4, <1>5

\* The bytes given up and not yet cut, and the NOPs, lose the bytes that go.
LEMMA CutSlack ==
  ASSUME NEW j, NEW addr, NEW count, CutPre(j, addr, count)
  PROVE  Slack' = Slack \ Gone(addr, count)
<1> DEFINE B(k) == BytesAt(relocs[k].off, relocs[k].add)
           G == Gone(addr, count)
<1>1. TypeOK /\ Geometry /\ j \in 1 .. NReloc /\ Deletable(j, addr, count) /\ addr + count <= size
  BY CutFacts
<1>2. Deletes(1)' = Deletes(1) \ {j}
  <2>1. \A k \in 1 .. NReloc : k # j => relocs'[k].type = relocs[k].type BY CutTypes
  <2>2. relocs'[j].type = "NONE" BY <1>1, CutTypes
  <2> QED BY <1>1, <2>1, <2>2 DEF Deletes
<1>3. \A k \in Deletes(1) \ {j} : B(k)' = B(k) \ G
  <2> SUFFICES ASSUME NEW k \in Deletes(1) \ {j} PROVE B(k)' = B(k) \ G OBVIOUS
  <2>1. k \in 1 .. NReloc /\ k # j /\ relocs[k].type \in {"ALIGN", "DELETE"} BY DEF Deletes
  <2> QED BY <2>1, RelocRange DEF Gone
<1>4. j \in Deletes(1) => B(j) \ G = {}
  <2> SUFFICES ASSUME j \in Deletes(1) PROVE B(j) = G OBVIOUS
  <2>1. relocs[j].type = "DELETE" /\ relocs[j].off = addr /\ addr + count = End(relocs[j]) BY <1>1 DEF Deletes, Deletable
  <2>2. relocs[j] \in Reloc /\ relocs[j].off \in Nat /\ relocs[j].add \in Nat BY <1>1, RelocFacts
  <2>3. End(relocs[j]) = relocs[j].off + relocs[j].add BY <2>1, <2>2, ExtentFacts DEF End
  <2>4. count = relocs[j].add BY <1>1, <2>1, <2>2, <2>3 DEF Deletable
  <2>5. BytesAt(addr, count) = Bytes(Text, addr, addr + count) BY <1>1, <2>1, <2>2, <2>4, BytesAreText
  <2> QED BY <2>1, <2>4, <2>5 DEF Gone
<1> HIDE DEF G
<1>5. Slack = UNION {B(k) : k \in Deletes(1)} BY DEF Slack
<1>6. Slack' = UNION {B(k)' : k \in Deletes(1)'} BY DEF Slack
<1>7. Slack' = UNION {B(k) \ G : k \in Deletes(1) \ {j}} BY <1>2, <1>3, <1>6
<1> HIDE DEF B
<1>8. ASSUME NEW b PROVE b \in Slack' <=> b \in Slack /\ b \notin G
  <2>1. b \in Slack' <=> \E k \in Deletes(1) \ {j} : b \in B(k) \ G BY <1>7
  <2>2. b \in Slack <=> \E k \in Deletes(1) : b \in B(k) BY <1>5
  <2> QED BY <1>4, <2>1, <2>2
<1>9. Slack' = Slack \ G BY <1>8
<1> QED BY <1>9 DEF G

LEMMA CutNops ==
  ASSUME NEW j, NEW addr, NEW count, CutPre(j, addr, count)
  PROVE  Nops' = Nops \ Gone(addr, count)
<1>1. /\ addr \in Nat /\ count \in Nat /\ count > 0 /\ addr + count <= size /\ size \in Nat
      /\ size' = size - count /\ size' \in Nat
  BY CutFacts
<1>2. PICK z \in Nat, n \in Nat, n2 \in Nat : z = 0 /\ n = size /\ n2 = size' BY <1>1
<1>3. /\ z + n <= size /\ Outside(z, addr, count) /\ Outside(z + n, addr, count)
      /\ z = Down(z, addr, count) /\ z + n2 = Down(z + n, addr, count)
  BY <1>1, <1>2 DEF Outside, Down
<1>4. BytesAt(z, n2)' = BytesAt(z, n) \ Bytes(Text, addr, addr + count) BY <1>3, RangeStep
<1>5. BytesAt(0, size)' = BytesAt(z, n2)' BY <1>2 DEF BytesAt
<1>6. BytesAt(0, size)' = BytesAt(0, size) \ Gone(addr, count) BY <1>2, <1>4, <1>5 DEF Gone
<1>7. Nops' = NopBytes \cap BytesAt(0, size)' BY DEF Nops
<1> QED BY <1>6, <1>7 DEF Nops

LEMMA CutPads ==
  ASSUME NEW j, NEW addr, NEW count, CutPre(j, addr, count), PadsAreNops
  PROVE  PadsAreNops'
<1> SUFFICES ASSUME NEW k \in 1 .. NReloc, relocs'[k].type = "ALIGN"
             PROVE  BytesAt(relocs[k].off, relocs[k].add)' \subseteq NopBytes
  BY DEF PadsAreNops
<1>1. k # j /\ relocs[k].type = "ALIGN" BY CutTypes
<1>2. BytesAt(relocs[k].off, relocs[k].add)' = BytesAt(relocs[k].off, relocs[k].add) \ Bytes(Text, addr, addr + count)
  BY <1>1, RelocRange
<1>3. BytesAt(relocs[k].off, relocs[k].add) \subseteq NopBytes BY <1>1 DEF PadsAreNops
<1> QED BY <1>2, <1>3

LEMMA CutDistinct ==
  ASSUME NEW j, NEW addr, NEW count, CutPre(j, addr, count)
  PROVE  Distinct'
<1>1. Different(Text', size') BY TextCut
<1>2. \A k \in 0 .. size' - 1 : Text'[k] = ByteAt(k)' BY DEF Text
<1> QED BY <1>1, <1>2 DEF Different, Distinct

\* The bytes that go were given up or are NOPs.
LEMMA GoneIsSpare ==
  ASSUME NEW j, NEW addr, NEW count, CutPre(j, addr, count), PadsAreNops
  PROVE  Gone(addr, count) \subseteq Slack \cup Nops
<1>1. TypeOK /\ Geometry /\ j \in 1 .. NReloc /\ Deletable(j, addr, count) /\ addr + count <= size /\ size \in Nat
  BY CutFacts
<1>2. relocs[j] \in Reloc /\ relocs[j].off \in Nat /\ relocs[j].add \in Nat BY <1>1, RelocFacts
<1>3. relocs[j].off <= addr /\ addr + count = relocs[j].off + relocs[j].add /\ addr \in Nat /\ count \in Nat
  BY <1>1, <1>2, ExtentFacts DEF Deletable, End
<1>4. ASSUME NEW k \in addr .. (addr + count) - 1
      PROVE  Text[k] \in BytesAt(relocs[j].off, relocs[j].add) /\ Text[k] \in BytesAt(0, size)
  <2>1. k \in 0 .. size - 1 /\ k \in relocs[j].off .. relocs[j].off + relocs[j].add - 1 /\ k \in 0 .. 0 + size - 1
    BY <1>1, <1>2, <1>3
  <2>2. Text[k] = ByteAt(k) BY <2>1 DEF Text
  <2> QED BY <2>1, <2>2 DEF BytesAt
<1>5. Gone(addr, count) \subseteq BytesAt(relocs[j].off, relocs[j].add) /\ Gone(addr, count) \subseteq BytesAt(0, size)
  BY <1>4 DEF Gone, Bytes
<1>6. CASE relocs[j].type = "DELETE"
  <2>1. j \in Deletes(1) BY <1>1, <1>6 DEF Deletes
  <2> QED BY <1>5, <2>1 DEF Slack
<1>7. CASE relocs[j].type = "ALIGN"
  <2>1. BytesAt(relocs[j].off, relocs[j].add) \subseteq NopBytes BY <1>1, <1>7 DEF PadsAreNops
  <2> QED BY <1>5, <2>1 DEF Nops
<1> QED BY <1>1, <1>6, <1>7 DEF Deletable

LEMMA EditCardinality ==
  ASSUME NEW S
  PROVE  Edit!Cardinality(S) = Cardinality(S)
BY DEF Edit!Cardinality, Cardinality

\* A deletion is a cut at addr.
LEMMA CutIsEdit ==
  ASSUME NEW j, NEW addr, NEW count, CutPre(j, addr, count), PadsAreNops
  PROVE  Edit!Next
<1> DEFINE c == Cardinality(DOMAIN Text) - Cardinality(DOMAIN Text')
<1>1. /\ addr \in Nat /\ count \in Nat /\ count > 0 /\ addr + count <= size /\ size \in Nat
      /\ size' = size - count /\ size' \in Nat
      /\ Text' = [k \in 0 .. size - count - 1 |-> IF k < addr THEN Text[k] ELSE Text[k + count]]
  BY CutFacts
<1>2. DOMAIN Text = 0 .. size - 1 /\ DOMAIN Text' = 0 .. size - count - 1 BY <1>1 DEF Text
<1>3. Cardinality(DOMAIN Text) = size /\ Cardinality(DOMAIN Text') = size - count
  <2>1. Cardinality(0 .. size - 1) = size BY <1>1, FS_Interval
  <2>2. Cardinality(0 .. size - count - 1) = size - count
    <3>1. PICK n \in Int : n = size - count - 1 BY <1>1
    <3>2. 0 <= n + 1 BY <1>1, <3>1
    <3>3. Cardinality(0 .. n) = n + 1 BY <3>2, FS_Interval
    <3> QED BY <1>1, <3>1, <3>3
  <2> QED BY <1>2, <2>1, <2>2
<1>4. c = count BY <1>1, <1>3
<1> HIDE DEF c
<1>5. {Text[k] : k \in addr .. addr + c - 1} = Gone(addr, count)
  <2>1. addr + c - 1 = (addr + count) - 1 BY <1>1, <1>4
  <2> QED BY <2>1, Zenon DEF Gone, Bytes
<1>6. c > 0 /\ addr + c - 1 \in DOMAIN Text /\ addr \in DOMAIN Text BY <1>1, <1>2, <1>4
<1>7. DOMAIN At' = 1 .. NReloc BY DEF At
<1>8. \A k \in 1 .. NReloc : At'[k] \in ({At[k]} \ Gone(addr, count)) \cup {-1} BY CutAt
<1>9. Text' = [k \in 0 .. Cardinality(DOMAIN Text) - c - 1 |-> IF k < addr THEN Text[k] ELSE Text[k + c]]
  BY <1>1, <1>3, <1>4
<1>10. Gone(addr, count) \subseteq Slack \cup Nops BY GoneIsSpare
<1>11. /\ Before' = [l \in Labels |-> Before[l] \ Gone(addr, count)]
       /\ Span' = [l \in Labels |-> Span[l] \ Gone(addr, count)]
       /\ Slack' = Slack \ Gone(addr, count)
       /\ Nops' = Nops \ Gone(addr, count)
  BY CutSyms, CutSlack, CutNops
<1>12. Edit!Cardinality(DOMAIN Text) = Cardinality(DOMAIN Text) /\ Edit!Cardinality(DOMAIN Text') = Cardinality(DOMAIN Text')
  BY EditCardinality
<1>13. c = Edit!Cardinality(DOMAIN Text) - Edit!Cardinality(DOMAIN Text') BY <1>12 DEF c
<1>14. Edit!StayOff(Gone(addr, count)) BY <1>8 DEF Edit!StayOff
<1>15. Edit!Cut(addr)
  BY <1>5, <1>6, <1>7, <1>9, <1>10, <1>11, <1>12, <1>13, <1>14 DEF Edit!Cut
<1> QED BY <1>6, <1>15 DEF Edit!Next

-----------------------------------------------------------------------------
(***************************************************************************)
(* Symbols are adjusted once, also those that stand twice in               *)
(* elf_sym_hashes.                                                         *)
(***************************************************************************)
LEMMA AdjustedOnce ==
  ASSUME TypeOK, NEW g \in Globals
  PROVE  Cardinality(Adjusted(g)) = 1
<1> DEFINE hs == Hashes
           S == {k \in DOMAIN hs : hs[k] = g}
<1>1. hs \in Seq(Globals) BY HashesAssumption DEF TypeOK, Hashes
<1>2. DOMAIN hs \subseteq Nat BY <1>1
<1>3. S # {} /\ S \in SUBSET Nat BY <1>1, <1>2, HashesAssumption DEF TypeOK, Hashes
<1>4. \A j, k \in DOMAIN hs : j # k /\ hs[j] = hs[k] => wrap \/ hs[j] \in Versioned
  BY HashesAssumption DEF TypeOK, Hashes
<1>5. Adjusted(g) = {j \in S : wrap \/ g \in Versioned => \A k \in 1 .. j - 1 : hs[k] # g} BY DEF Adjusted
<1>6. \A j \in S : \A k \in 1 .. j - 1 : k \in DOMAIN hs
  <2>1. DOMAIN hs = 1 .. Len(hs) /\ Len(hs) \in Nat BY <1>1
  <2> HIDE DEF hs
  <2> QED BY <2>1
<1> HIDE DEF hs
<1>7. PICK m \in S : \A k \in S : m <= k BY <1>3, Least
<1>8. \A k \in 1 .. m - 1 : hs[k] # g
  <2> SUFFICES ASSUME NEW k \in 1 .. m - 1, hs[k] = g PROVE FALSE OBVIOUS
  <2>1. k \in S BY <1>6
  <2> QED BY <1>3, <1>7, <2>1
<1>9. m \in Adjusted(g) BY <1>5, <1>8
<1>10. ASSUME NEW j \in Adjusted(g) PROVE j = m
  <2>1. j \in S BY <1>5, <1>10
  <2>2. CASE wrap \/ g \in Versioned
    <3>1. \A k \in 1 .. j - 1 : hs[k] # g BY <1>5, <1>10, <2>2
    <3>2. m <= j /\ m \in Nat /\ j \in Nat /\ m >= 1
      <4>1. m \in DOMAIN hs BY <1>7
      <4>2. DOMAIN hs = 1 .. Len(hs) BY <1>1
      <4> QED BY <1>3, <1>7, <2>1, <4>1, <4>2
    <3>3. hs[m] = g BY <1>7
    <3>4. m \notin 1 .. j - 1 BY <3>1, <3>3
    <3> QED BY <3>2, <3>4
  <2>3. CASE ~(wrap \/ g \in Versioned) BY <1>4, <1>7, <2>1, <2>3
  <2> QED BY <2>2, <2>3
<1>11. Adjusted(g) = {m} BY <1>9, <1>10
<1> QED BY <1>11, FS_Singleton

\* g[n] is s shifted n times.
Shifts(g, N, s, addr, count) == g = [n \in 0 .. N |-> IF n = 0 THEN s ELSE ShiftSym(g[n - 1], addr, count)]

LEMMA ShiftsExist ==
  ASSUME NEW N \in Nat, NEW s, NEW addr \in Nat, NEW count \in Nat, size \in Nat, s \in [val : Int, size : Int]
  PROVE  \E g : Shifts(g, N, s, addr, count)
<1> DEFINE X == [val : Int, size : Int]
           step == [yn \in X \X (1 .. N) |-> ShiftSym(yn[1], addr, count)]
<1>1. ASSUME NEW y \in X PROVE ShiftSym(y, addr, count) \in X
  <2>1. y.val \in Int /\ y.size \in Int BY <1>1
  <2>2. [y EXCEPT !.val = @ - count] \in X /\ [y EXCEPT !.size = @ - count] \in X BY <2>1
  <2> QED BY <2>2 DEF ShiftSym
<1> HIDE DEF X
<1>2. \A y \in X : \A n \in 1 .. N : step[<<y, n>>] = ShiftSym(y, addr, count) OBVIOUS
<1>3. StaysIn(step, N, X) BY <1>1, <1>2 DEF StaysIn
<1> HIDE DEF step
<1>4. s \in X BY DEF X
<1>5. PICK g \in [0 .. N -> X] : g[0] = s /\ \A n \in 1 .. N : g[n] = step[<<g[n - 1], n>>]
  <2>1. \E g : Iterates(g, N, X, s, step) BY <1>3, <1>4, RecExists
  <2> QED BY <2>1 DEF Iterates
<1>6. \A n \in 1 .. N : g[n] = ShiftSym(g[n - 1], addr, count)
  <2> TAKE n \in 1 .. N
  <2>1. n - 1 \in 0 .. N OBVIOUS
  <2> QED BY <2>1, <1>2, <1>5
<1>7. \A n \in 0 .. N : n # 0 => n \in 1 .. N OBVIOUS
<1>8. g = [n \in 0 .. N |-> IF n = 0 THEN s ELSE ShiftSym(g[n - 1], addr, count)] BY <1>5, <1>6, <1>7
<1>9. Shifts(g, N, s, addr, count) BY <1>8 DEF Shifts
<1> QED BY <1>9

LEMMA ShiftedOnce ==
  ASSUME TypeOK, NEW l \in Labels, NEW addr \in Nat, NEW count \in Nat
  PROVE  ShiftedSym(l, addr, count) = ShiftSym(sym[l], addr, count)
<1>1. ShiftTimes(l) = 1 BY AdjustedOnce DEF ShiftTimes, Labels
<1>2. Len(Hashes) \in Nat
  <2>1. Hashes \in Seq(Globals) BY HashesAssumption DEF TypeOK, Hashes
  <2> QED BY <2>1
<1>3. PICK N \in Nat : N = Len(Hashes) + 1 BY <1>2
<1>4. 0 \in 0 .. N /\ 1 \in 0 .. N BY <1>2, <1>3
<1>5. sym[l] \in [val : Int, size : Int] /\ size \in Nat BY DEF TypeOK
<1> DEFINE s == sym[l]
           G == CHOOSE g : g = [n \in 0 .. N |-> IF n = 0 THEN s ELSE ShiftSym(g[n - 1], addr, count)]
<1>6. ShiftedSym(l, addr, count) = G[1] BY <1>1, <1>3 DEF ShiftedSym
<1>7. G = [n \in 0 .. N |-> IF n = 0 THEN s ELSE ShiftSym(G[n - 1], addr, count)]
  <2>1. \E g : g = [n \in 0 .. N |-> IF n = 0 THEN s ELSE ShiftSym(g[n - 1], addr, count)]
    <3> HIDE DEF s
    <3>1. s \in [val : Int, size : Int] BY <1>5 DEF s
    <3>2. \E g : Shifts(g, N, s, addr, count) BY <1>5, <3>1, ShiftsExist
    <3> QED BY <3>2 DEF Shifts
  <2> QED BY <2>1
<1> HIDE DEF G
<1>8. G[0] = s BY <1>4, <1>7
<1>9. G[1] = ShiftSym(G[0], addr, count)
  <2>1. 1 # 0 /\ 1 - 1 = 0 OBVIOUS
  <2> QED BY <1>4, <1>7, <2>1
<1> QED BY <1>6, <1>8, <1>9

-----------------------------------------------------------------------------
(***************************************************************************)
(* What memmove does to the text.                                          *)
(***************************************************************************)
\* Where _riscv_relax_delete_bytes is called: with everything behind addr still `total'
\* too high, or with nothing freed before; and up to toaddr.
Called(addr, count, toaddr) ==
  /\ toaddr \in Nat /\ addr + count <= toaddr /\ toaddr <= size
  /\ total = 0 \/ Placed = addr
  /\ Placed' = toaddr - count
  /\ \/ toaddr = size /\ total = 0 /\ total' = 0
     \/ total' = total + count

LEMMA MoveText ==
  ASSUME TypeOK, Freed, NEW addr \in Nat, NEW count \in Nat, count > 0, NEW toaddr,
         Called(addr, count, toaddr), contents' = Move(addr, count, toaddr),
         NEW k \in 0 .. size - count - 1
  PROVE  ByteAt(k)' = IF k < addr THEN ByteAt(k) ELSE ByteAt(k + count)
<1>1. /\ size \in Nat /\ total \in Nat /\ toaddr \in Nat /\ addr + count <= toaddr /\ toaddr <= size
      /\ total = 0 \/ Placed = addr
      /\ Placed' = toaddr - count
      /\ (toaddr = size /\ total = 0 /\ total' = 0) \/ total' = total + count
  BY DEF TypeOK, Called
<1>2. \A p \in DOMAIN contents :
        contents'[p] = IF addr <= p /\ p < toaddr - count THEN contents[p + count + total] ELSE contents[p]
  BY DEF Move
<1>3. 0 .. size + total - 1 \subseteq DOMAIN contents BY DEF Freed
<1>4. k \in Nat /\ k < size - count /\ k \in 0 .. size + total - 1 BY <1>1
<1>5. ByteAt(k)' = IF k < Placed' THEN contents'[k] ELSE contents'[k + total'] BY DEF ByteAt
<1>6. CASE k < addr
  <2>1. k < Placed' /\ k \in DOMAIN contents BY <1>1, <1>3, <1>4, <1>6
  <2>2. contents'[k] = contents[k] BY <1>1, <1>2, <1>4, <1>6, <2>1
  <2>3. ByteAt(k) = contents[k] BY <1>1, <1>4, <1>6 DEF ByteAt
  <2> QED BY <1>5, <1>6, <2>1, <2>2, <2>3
<1>7. CASE addr <= k /\ k < toaddr - count
  <2>1. k \in DOMAIN contents BY <1>3, <1>4
  <2>2. contents'[k] = contents[k + count + total] BY <1>2, <1>7, <2>1
  <2>3. ByteAt(k)' = contents'[k] BY <1>1, <1>5, <1>7
  <2>4. ByteAt(k + count) = contents[k + count + total]
    <3>1. CASE Placed = addr
      <4>1. ~(k + count < Placed) BY <1>4, <1>7, <3>1
      <4> QED BY <4>1 DEF ByteAt
    <3>2. CASE total = 0
      <4>1. k + count + total = k + count /\ (k + count) + total = k + count BY <1>4, <3>2
      <4> QED BY <4>1 DEF ByteAt
    <3> QED BY <1>1, <3>1, <3>2
  <2> QED BY <1>4, <1>7, <2>2, <2>3, <2>4
<1>8. CASE k >= toaddr - count
  <2>1. total' = total + count /\ ~(k < addr) BY <1>1, <1>4, <1>8
  <2>2. PICK p \in Nat : p = k + total' BY <1>1, <1>4, <2>1
  <2>3. p \in DOMAIN contents /\ ~(p < toaddr - count)
    <3>1. p \in 0 .. size + total - 1 BY <1>1, <1>4, <2>1, <2>2
    <3>2. ~(p < toaddr - count) BY <1>1, <1>4, <1>8, <2>1, <2>2
    <3> QED BY <1>3, <3>1, <3>2
  <2>4. ByteAt(k)' = contents[p] BY <1>1, <1>2, <1>5, <1>8, <2>2, <2>3
  <2>5. ByteAt(k + count) = contents[p]
    <3>1. (k + count) + total = p BY <1>1, <1>4, <2>1, <2>2
    <3>2. CASE Placed = addr
      <4>1. ~(k + count < Placed) BY <1>1, <1>4, <1>8, <3>2
      <4> QED BY <3>1, <4>1 DEF ByteAt
    <3>3. CASE total = 0
      <4>1. p = k + count BY <1>1, <1>4, <3>1, <3>3
      <4> QED BY <3>1, <4>1 DEF ByteAt
    <3> QED BY <1>1, <3>2, <3>3
  <2> QED BY <2>1, <2>4, <2>5
<1> QED BY <1>1, <1>4, <1>6, <1>7, <1>8

LEMMA MoveFreed ==
  ASSUME TypeOK, Freed, NEW addr \in Nat, NEW count \in Nat, count > 0, NEW toaddr,
         Called(addr, count, toaddr), contents' = Move(addr, count, toaddr), size' = size - count
  PROVE  /\ contents' \in [DOMAIN contents' -> Nat] /\ DOMAIN contents' \subseteq Nat
         /\ 0 .. size' + total' - 1 \subseteq DOMAIN contents'
<1>1. /\ size \in Nat /\ total \in Nat /\ toaddr \in Nat /\ addr + count <= toaddr /\ toaddr <= size
      /\ (toaddr = size /\ total = 0 /\ total' = 0) \/ total' = total + count
  BY DEF TypeOK, Called
<1>2. /\ contents \in [DOMAIN contents -> Nat] /\ DOMAIN contents \subseteq Nat
      /\ 0 .. size + total - 1 \subseteq DOMAIN contents
  BY DEF Freed
<1>3. DOMAIN contents' = DOMAIN contents BY DEF Move
<1>4. ASSUME NEW k \in DOMAIN contents PROVE Move(addr, count, toaddr)[k] \in Nat
  <2>1. CASE addr <= k /\ k < toaddr - count
    <3>1. k \in Nat BY <1>2
    <3>2. k + count + total \in 0 .. size + total - 1 BY <1>1, <2>1, <3>1
    <3> QED BY <1>2, <2>1, <3>2 DEF Move
  <2>2. CASE ~(addr <= k /\ k < toaddr - count) BY <1>2, <2>2 DEF Move
  <2> QED BY <2>1, <2>2
<1>5. Move(addr, count, toaddr) \in [DOMAIN contents -> Nat] BY <1>4 DEF Move
<1>6. 0 .. size' + total' - 1 \subseteq 0 .. size + total - 1 BY <1>1
<1> QED BY <1>2, <1>3, <1>5, <1>6

\* The call cuts the bytes out of the text.
LEMMA CallCuts ==
  ASSUME TypeOK, Freed, Geometry, NEW j \in 1 .. NReloc, NEW addr, NEW count, Deletable(j, addr, count),
         NEW toaddr, Called(addr, count, toaddr), DeleteBytes(addr, count, toaddr, UsedUp(j))
  PROVE  DeleteStep(j, addr, count)
<1>1. addr \in Nat /\ count \in Nat /\ count > 0 /\ addr + count <= size BY DeletedInside
<1>2. /\ contents' = Move(addr, count, toaddr) /\ size' = size - count
      /\ relocs' = [k \in DOMAIN UsedUp(j) |-> ShiftReloc(UsedUp(j)[k], addr, count)]
      /\ sym' = [l \in Labels |-> ShiftedSym(l, addr, count)]
  BY DEF DeleteBytes
<1>3. DOMAIN UsedUp(j) = 1 .. NReloc BY UsedUpFacts DEF Relocs
<1>4. relocs' = Shifted(j, addr, count) BY <1>2, <1>3 DEF Shifted
<1>5. sym' = [l \in Labels |-> ShiftSym(sym[l], addr, count)] BY <1>1, <1>2, ShiftedOnce
<1>6. size \in Nat BY DEF TypeOK
<1>7. ASSUME NEW k \in 0 .. size - count - 1
      PROVE  ByteAt(k)' = IF k < addr THEN Text[k] ELSE Text[k + count]
  <2>1. ByteAt(k)' = IF k < addr THEN ByteAt(k) ELSE ByteAt(k + count) BY <1>1, <1>2, MoveText
  <2>2. k \in 0 .. size - 1 /\ k + count \in 0 .. size - 1 BY <1>1, <1>6
  <2> QED BY <2>1, <2>2 DEF Text
<1>8. Text' = [k \in 0 .. size' - 1 |-> ByteAt(k)'] BY DEF Text
<1>9. 0 .. size' - 1 = 0 .. size - count - 1 BY <1>2
<1>10. Text' = [k \in 0 .. size - count - 1 |-> IF k < addr THEN Text[k] ELSE Text[k + count]]
  BY <1>7, <1>8, <1>9
<1> QED BY <1>2, <1>4, <1>5, <1>10 DEF DeleteStep

-----------------------------------------------------------------------------
(***************************************************************************)
(* The two callers.                                                        *)
(***************************************************************************)
LEMMA FirstFacts ==
  ASSUME NEW S \in SUBSET Nat, S # {}
  PROVE  FirstIn(S) \in S /\ \A k \in S : FirstIn(S) <= k
BY Least DEF FirstIn

\* A call keeps the invariant, if the loop ends up at the next DELETE.
LEMMA CallStep ==
  ASSUME IInv, NEW j \in 1 .. NReloc, NEW addr, NEW count, Deletable(j, addr, count),
         NEW toaddr, Called(addr, count, toaddr), DeleteBytes(addr, count, toaddr, UsedUp(j)),
         i' \in 1 .. NReloc + 1, pc' = pc, wrap' = wrap, AtDelete', pc' # "resolve" => total' = 0
  PROVE  IInv' /\ Edit!Next
<1>1. TypeOK /\ Freed /\ Geometry /\ Distinct /\ PadsAreNops BY DEF IInv, Geometry
<1>2. DeleteStep(j, addr, count) BY <1>1, CallCuts
<1>3. addr \in Nat /\ count \in Nat /\ count > 0 BY DEF Deletable
<1>4. /\ relocs' = Shifted(j, addr, count) /\ size' = size - count
      /\ sym' = [l \in Labels |-> ShiftSym(sym[l], addr, count)]
  BY <1>2 DEF DeleteStep
<1>5. /\ Geometry'
      /\ relocs' \in Relocs /\ size' \in Nat /\ sym' \in [Labels -> [val : Nat, size : Nat]]
  BY <1>1, <1>4, StillGeometry
<1>6. total' \in Nat BY <1>1, <1>3 DEF TypeOK, Called
<1>7. TypeOK' BY <1>1, <1>5, <1>6 DEF TypeOK
<1>8. contents' = Move(addr, count, toaddr) BY DEF DeleteBytes
<1>9. Freed' BY <1>1, <1>3, <1>4, <1>8, MoveFreed DEF Freed
<1>10. CutPre(j, addr, count) BY <1>1, <1>2, <1>7 DEF CutPre
<1>11. Distinct' /\ PadsAreNops' BY <1>1, <1>10, CutDistinct, CutPads
<1>12. Edit!Next BY <1>1, <1>10, CutIsEdit
<1> QED BY <1>5, <1>7, <1>9, <1>11, <1>12 DEF IInv, Geometry

\* The DELETEs that are left.
LEMMA StepDeletes ==
  ASSUME TypeOK, Geometry, NEW j \in 1 .. NReloc, NEW addr, NEW count, Deletable(j, addr, count),
         DeleteStep(j, addr, count), NEW d \in (1 .. NReloc) \cup {1}
  PROVE  Deletes(d)' = Deletes(d) \ {j}
<1>1. relocs' = Shifted(j, addr, count) BY DEF DeleteStep
<1>2. \A k \in 1 .. NReloc : relocs'[k].type = UsedUp(j)[k].type BY <1>1, MovedNumbers
<1>3. UsedUp(j)[j].type = "NONE" /\ \A k \in 1 .. NReloc : k # j => UsedUp(j)[k].type = relocs[k].type BY UsedUpFacts
<1>4. \A k \in d .. NReloc : k \in 1 .. NReloc BY ObjectsAssumption
<1> QED BY <1>2, <1>3, <1>4 DEF Deletes

LEMMA ResolveDeleteStep ==
  ASSUME IInv, ResolveDelete, wrap' = wrap
  PROVE  IInv' /\ Edit!Next
<1> DEFINE j == FirstIn(Deletes(i))
           addr == relocs[j].off
           count == relocs[j].add
           later == {k \in Deletes(j) : relocs[k].off > relocs[j].off}
           to == ToAddr(j)
<1>1. /\ pc = "resolve" /\ Deletes(i) # {} /\ pc' = pc
      /\ DeleteBytes(addr, count, to, UsedUp(j))
      /\ total' = total + count
      /\ i' = Resume(j)
  BY DEF ResolveDelete, UsedUp
<1>2. TypeOK /\ Freed /\ Geometry /\ AtDelete BY DEF IInv, Geometry
<1>3. NReloc \in Nat /\ i \in 1 .. NReloc + 1 /\ size \in Nat /\ total \in Nat BY <1>2, ObjectsAssumption DEF TypeOK
<1>4. Deletes(i) \in SUBSET Nat BY <1>3 DEF Deletes
<1>5. j \in Deletes(i) /\ \A k \in Deletes(i) : j <= k BY <1>1, <1>4, FirstFacts
<1>6. j \in i .. NReloc /\ j \in 1 .. NReloc /\ relocs[j].type = "DELETE" BY <1>3, <1>5 DEF Deletes
<1> HIDE DEF j
<1>7. relocs[j] \in Reloc /\ addr \in Nat /\ count \in Nat /\ count > 0
  BY <1>2, <1>6, RelocFacts DEF Geometry, Inside
<1>8. End(relocs[j]) = addr + count /\ addr + count <= size
  BY <1>2, <1>6, <1>7, ExtentFacts DEF Geometry, Inside, End
<1>9. Deletable(j, addr, count) BY <1>3, <1>6, <1>7, <1>8 DEF Deletable
<1>10. Deletes(1) = Deletes(i) /\ (total = 0 \/ Placed = addr)
  <2>1. CASE i = 1 /\ total = 0 BY <2>1
  <2>2. CASE i <= NReloc /\ relocs[i].type = "DELETE" /\ Deletes(1) = Deletes(i)
    <3>1. i \in Deletes(i) BY <1>3, <2>2 DEF Deletes
    <3>2. j = i BY <1>3, <1>5, <1>6, <3>1
    <3> QED BY <1>1, <2>2, <3>2 DEF Placed
  <2>3. CASE i = NReloc + 1 /\ Deletes(1) = {} BY <1>3, <1>6, <2>3
  <2> QED BY <1>1, <1>2, <2>1, <2>2, <2>3 DEF AtDelete
\* DELETEs other than j are behind it.
<1>11. ASSUME NEW k \in Deletes(1), k # j
       PROVE  k \in later /\ k \in 1 .. NReloc /\ addr + count <= relocs[k].off /\ relocs[k].type = "DELETE"
  <2>1. k \in 1 .. NReloc /\ relocs[k].type = "DELETE" BY <1>11 DEF Deletes
  <2>2. j < k /\ k \in j .. NReloc BY <1>3, <1>5, <1>6, <1>10, <1>11, <2>1
  <2>3. End(relocs[j]) <= relocs[k].off BY <1>2, <1>6, <2>1, <2>2 DEF Geometry, InOrder
  <2>4. relocs[k].off \in Nat BY <1>2, <2>1, RelocFacts
  <2>5. relocs[k].off > relocs[j].off BY <1>7, <1>8, <2>3, <2>4
  <2> QED BY <1>8, <2>1, <2>2, <2>3, <2>5 DEF Deletes
<1>12. later \subseteq Deletes(1) \ {j} BY <1>3, <1>6, <1>7 DEF Deletes
<1>13. CASE later = {}
  <2>1. NextDelete(j) = 0 BY <1>13 DEF NextDelete
  <2>2. to = size /\ i' = NReloc + 1 BY <1>1, <2>1 DEF ToAddr, Resume
  <2>3. Deletes(1) \ {j} = {} BY <1>11, <1>13
  <2>4. size' = size - count BY <1>1 DEF DeleteBytes
  <2>5. Placed' = size - count BY <1>3, <2>2, <2>4 DEF Placed
  <2>6. Called(addr, count, to) BY <1>1, <1>3, <1>8, <1>10, <2>2, <2>5 DEF Called
  <2>7. DeleteStep(j, addr, count) BY <1>1, <1>2, <1>6, <1>9, <2>6, CallCuts
  <2>8. Deletes(1)' = {} BY <1>2, <1>6, <1>9, <2>3, <2>7, StepDeletes
  <2>9. AtDelete' BY <2>2, <2>8 DEF AtDelete
  <2>10. i' \in 1 .. NReloc + 1 BY <1>3, <2>2
  <2> QED BY <1>1, <1>6, <1>9, <2>6, <2>9, <2>10, CallStep
<1>14. CASE later # {}
  <2>1. later \in SUBSET Nat BY <1>3, <1>6 DEF Deletes
  <2>2. PICK d \in later : d = FirstIn(later) /\ \A k \in later : d <= k BY <1>14, <2>1, FirstFacts
  <2>3. d \in Deletes(1) /\ d # j BY <1>12, <2>2
  <2>4. d \in 1 .. NReloc /\ addr + count <= relocs[d].off /\ relocs[d].type = "DELETE" BY <1>11, <2>3
  <2>5. NextDelete(j) = d BY <1>14, <2>2 DEF NextDelete
  <2>6. to = relocs[d].off /\ i' = d BY <1>1, <2>4, <2>5 DEF ToAddr, Resume
  <2>7. relocs[d] \in Reloc /\ relocs[d].off \in Nat /\ relocs[d].off < size
    <3>1. relocs[d] \in Reloc /\ relocs[d].off \in Nat /\ relocs[d].add \in Nat BY <1>2, <2>4, RelocFacts
    <3>2. End(relocs[d]) = relocs[d].off + relocs[d].add BY <2>4, <3>1, ExtentFacts DEF End
    <3>3. relocs[d].add > 0 /\ End(relocs[d]) <= size BY <1>2, <2>4 DEF Geometry, Inside
    <3> QED BY <1>3, <3>1, <3>2, <3>3
  <2>8. relocs'[d] = ShiftReloc(relocs[d], addr, count)
    <3>1. relocs' = [k \in DOMAIN UsedUp(j) |-> ShiftReloc(UsedUp(j)[k], addr, count)] BY <1>1 DEF DeleteBytes
    <3>2. DOMAIN UsedUp(j) = 1 .. NReloc /\ UsedUp(j)[d] = relocs[d] BY <1>2, <1>6, <2>3, <2>4, UsedUpFacts DEF Relocs
    <3> QED BY <2>4, <3>1, <3>2
  <2>9. relocs'[d].off = relocs[d].off - count
    <3>1. Clear(relocs[d], addr, count) BY <2>4 DEF Clear
    <3>2. MovedReloc(relocs'[d], relocs[d], addr, count) BY <1>2, <1>7, <2>7, <2>8, <3>1, ShiftFacts
    <3>3. relocs[d].off > addr BY <1>7, <2>4, <2>7
    <3> QED BY <2>7, <3>2, <3>3 DEF MovedReloc
  <2>10. Placed' = relocs[d].off - count BY <1>1, <1>3, <2>4, <2>6, <2>9 DEF Placed
  <2>11. Called(addr, count, to) BY <1>1, <1>3, <1>7, <1>10, <2>4, <2>6, <2>7, <2>10 DEF Called
  <2>12. DeleteStep(j, addr, count) BY <1>1, <1>2, <1>6, <1>9, <2>11, CallCuts
  <2>13. Deletes(1)' = Deletes(1) \ {j} /\ Deletes(d)' = Deletes(d) \ {j}
    BY <1>2, <1>6, <1>9, <2>4, <2>12, StepDeletes
  <2>14. Deletes(1) \ {j} = Deletes(d) \ {j}
    <3>1. ASSUME NEW k \in Deletes(1), k # j PROVE k \in Deletes(d)
      <4>1. k \in later /\ k \in 1 .. NReloc /\ relocs[k].type = "DELETE" BY <1>11, <3>1
      <4>2. d <= k BY <2>2, <4>1
      <4> QED BY <1>3, <2>4, <4>1, <4>2 DEF Deletes
    <3>2. Deletes(d) \subseteq Deletes(1) BY <1>3, <2>4 DEF Deletes
    <3> QED BY <3>1, <3>2
  <2>15. relocs'[d].type = "DELETE"
    <3>1. d \in Deletes(1)' BY <2>3, <2>13
    <3> QED BY <3>1 DEF Deletes
  <2>16. AtDelete'
    <3>1. Deletes(1)' = Deletes(d)' BY <2>13, <2>14
    <3>2. Deletes(i)' = Deletes(d)' BY <2>6 DEF Deletes
    <3>3. i' <= NReloc /\ relocs'[i'].type = "DELETE" BY <1>3, <2>4, <2>6, <2>15
    <3> QED BY <3>1, <3>2, <3>3 DEF AtDelete
  <2>17. i' \in 1 .. NReloc + 1 BY <1>3, <2>4, <2>6
  <2> QED BY <1>1, <1>6, <1>9, <2>11, <2>16, <2>17, CallStep
<1> QED BY <1>13, <1>14

-----------------------------------------------------------------------------
(***************************************************************************)
(* Steps that move no byte.                                                *)
(***************************************************************************)
Still ==
  /\ contents' = contents /\ size' = size /\ sym' = sym
  /\ total = 0 \/ Placed = size
  /\ total' = 0 \/ Placed' = size

LEMMA StillByte ==
  ASSUME TypeOK, Still, NEW k \in 0 .. size - 1
  PROVE  ByteAt(k)' = ByteAt(k)
<1>1. k \in Nat /\ k < size /\ size \in Nat BY DEF TypeOK
<1>2. contents' = contents /\ (total = 0 \/ Placed = size) /\ (total' = 0 \/ Placed' = size) BY DEF Still
<1>3. ByteAt(k) = contents[k]
  <2>1. CASE total = 0
    <3>1. k + total = k BY <1>1, <2>1
    <3> QED BY <3>1 DEF ByteAt
  <2>2. CASE Placed = size BY <1>1, <2>2 DEF ByteAt
  <2> QED BY <1>2, <2>1, <2>2
<1>4. ByteAt(k)' = contents'[k]
  <2>0. ByteAt(k)' = IF k < Placed' THEN contents'[k] ELSE contents'[k + total'] BY DEF ByteAt
  <2>1. CASE total' = 0
    <3>1. k + total' = k BY <1>1, <2>1
    <3> QED BY <2>0, <3>1
  <2>2. CASE Placed' = size BY <1>1, <2>0, <2>2
  <2> QED BY <1>2, <2>1, <2>2
<1> QED BY <1>2, <1>3, <1>4

LEMMA StillRange ==
  ASSUME TypeOK, Still, NEW p \in Nat, NEW m \in Nat, p + m <= size
  PROVE  BytesAt(p, m)' = BytesAt(p, m)
<1>1. size \in Nat BY DEF TypeOK
<1>2. \A k \in p .. p + m - 1 : k \in 0 .. size - 1 BY <1>1
<1>3. \A k \in p .. p + m - 1 : ByteAt(k)' = ByteAt(k) BY <1>2, StillByte
<1>4. BytesAt(p, m)' = {ByteAt(k)' : k \in p .. p + m - 1} BY DEF BytesAt
<1>5. BytesAt(p, m) = {ByteAt(k) : k \in p .. p + m - 1} BY DEF BytesAt
<1> QED BY <1>3, <1>4, <1>5

LEMMA StillText ==
  ASSUME TypeOK, Still, SymsFit(sym, relocs, size), Distinct
  PROVE  Text' = Text /\ Before' = Before /\ Span' = Span /\ Nops' = Nops /\ Distinct'
<1>1. size \in Nat /\ size' = size /\ sym' = sym BY DEF TypeOK, Still
<1>2. Text' = Text
  <2>1. \A k \in 0 .. size - 1 : ByteAt(k)' = ByteAt(k) BY StillByte
  <2>2. Text' = [k \in 0 .. size' - 1 |-> ByteAt(k)'] BY DEF Text
  <2>3. Text' = [k \in 0 .. size - 1 |-> ByteAt(k)'] BY <1>1, <2>2
  <2> QED BY <2>1, <2>3 DEF Text
<1>3. ASSUME NEW l \in Labels
      PROVE  /\ BytesAt(0, sym[l].val)' = BytesAt(0, sym[l].val)
             /\ BytesAt(sym[l].val, sym[l].size)' = BytesAt(sym[l].val, sym[l].size)
  <2>1. PICK p \in Nat, m \in Nat : p = sym[l].val /\ m = sym[l].size BY DEF TypeOK
  <2>2. p + m <= size BY <2>1 DEF SymsFit
  <2>3. BytesAt(p, m)' = BytesAt(p, m) BY <2>2, StillRange
  <2>4. PICK z \in Nat : z = 0 OBVIOUS
  <2>5. z + p <= size BY <1>1, <2>2, <2>4
  <2>6. BytesAt(z, p)' = BytesAt(z, p) BY <2>5, StillRange
  <2>7. BytesAt(0, sym[l].val)' = BytesAt(z, p)' BY <1>1, <2>1, <2>4 DEF BytesAt
  <2>8. BytesAt(sym[l].val, sym[l].size)' = BytesAt(p, m)' BY <1>1, <2>1 DEF BytesAt
  <2> QED BY <2>1, <2>3, <2>4, <2>6, <2>7, <2>8
<1>4. Before' = [l \in Labels |-> BytesAt(0, sym[l].val)'] /\ Span' = [l \in Labels |-> BytesAt(sym[l].val, sym[l].size)']
  BY DEF Before, Span
<1>5. Before' = Before /\ Span' = Span BY <1>3, <1>4 DEF Before, Span
<1>6. Nops' = Nops
  <2>1. PICK z \in Nat, n \in Nat : z = 0 /\ n = size BY <1>1
  <2>2. BytesAt(z, n)' = BytesAt(z, n) BY <2>1, StillRange
  <2>3. BytesAt(0, size)' = BytesAt(z, n)' BY <1>1, <2>1 DEF BytesAt
  <2>4. BytesAt(0, size)' = BytesAt(0, size) BY <2>1, <2>2, <2>3
  <2> QED BY <2>4 DEF Nops
<1>7. Distinct'
  <2>1. \A k \in 0 .. size - 1 : ByteAt(k)' = ByteAt(k) BY StillByte
  <2>2. Distinct' <=> \A j, k \in 0 .. size' - 1 : ByteAt(j)' = ByteAt(k)' => j = k BY DEF Distinct
  <2> QED BY <1>1, <2>1, <2>2 DEF Distinct
<1> QED BY <1>2, <1>5, <1>6, <1>7

\* Relocs are used up or become DELETEs; those that stay an instruction's stay where they are.
Retyped ==
  /\ relocs' \in Relocs
  /\ \A k \in 1 .. NReloc :
       /\ relocs'[k].type \in InsnTypes => relocs[k].type \in InsnTypes /\ relocs'[k].off = relocs[k].off
       /\ relocs'[k].type = "ALIGN" => relocs'[k] = relocs[k]
       /\ relocs[k].type = "DELETE" => relocs'[k] = relocs[k]

LEMMA RetypedOff ==
  ASSUME TypeOK, Geometry', Retyped, size' = size, NEW k \in 1 .. NReloc
  PROVE  /\ relocs'[k] \in Reloc /\ relocs'[k].off \in Nat /\ relocs'[k].add \in Nat
         /\ relocs'[k].type \in InsnTypes => relocs'[k].off < End(relocs'[k]) /\ End(relocs'[k]) <= size
         /\ relocs'[k].type \in {"ALIGN", "DELETE"} =>
              /\ relocs'[k].add > 0
              /\ End(relocs'[k]) = relocs'[k].off + relocs'[k].add
              /\ relocs'[k].off + relocs'[k].add <= size
<1>1. PICK r \in Reloc : r = relocs'[k] BY DEF Retyped, Relocs, Reloc
<1>2. Inside(relocs, size)' BY DEF Geometry
<1>3. /\ r.type \in {"ALIGN", "DELETE"} => r.add > 0
      /\ r.type \in InsnTypes \cup {"DELETE"} => End(r) <= size
  BY <1>1, <1>2 DEF Inside
<1>4. r.off \in Nat /\ r.add \in Nat BY DEF Reloc
<1>5. Extent(r) \in Nat /\ End(r) = r.off + Extent(r) BY ExtentFacts DEF End
<1>6. r.type \in InsnTypes => Extent(r) > 0 BY <1>3, ExtentFacts DEF InsnTypes
<1>7. r.type \in {"ALIGN", "DELETE"} => Extent(r) = r.add BY ExtentFacts
<1>8. r.type \in InsnTypes => r.off < End(r) /\ End(r) <= size BY <1>3, <1>4, <1>5, <1>6
<1>9. r.type \in {"ALIGN", "DELETE"} => r.add > 0 /\ End(r) = r.off + r.add /\ r.off + r.add <= size
  BY <1>3, <1>5, <1>7 DEF InsnTypes
<1> QED BY <1>1, <1>4, <1>8, <1>9

\* No instruction's reloc is at a byte that is given up.
LEMMA RetypedOffSlack ==
  ASSUME TypeOK, Geometry', Retyped, Distinct', size' = size, NEW k \in 1 .. NReloc, relocs'[k].type \in InsnTypes
  PROVE  ByteAt(relocs[k].off)' \notin Slack'
<1> SUFFICES ASSUME ByteAt(relocs[k].off)' \in Slack' PROVE FALSE OBVIOUS
<1>1. PICK m \in Deletes(1)' : ByteAt(relocs[k].off)' \in BytesAt(relocs[m].off, relocs[m].add)' BY DEF Slack
<1>2. m \in 1 .. NReloc /\ relocs'[m].type = "DELETE" BY DEF Deletes
<1>3. PICK a \in Nat, b \in Nat, c \in Nat : a = relocs'[k].off /\ b = relocs'[m].off /\ c = relocs'[m].add
  BY <1>2, RetypedOff
<1>4. ByteAt(relocs[k].off)' = ByteAt(a)' /\ BytesAt(relocs[m].off, relocs[m].add)' = {ByteAt(p)' : p \in b .. b + c - 1}
  BY <1>3 DEF BytesAt, ByteAt
<1>5. PICK p \in b .. b + c - 1 : ByteAt(a)' = ByteAt(p)' BY <1>1, <1>4
<1>6. a < End(relocs'[k]) /\ End(relocs'[k]) <= size /\ End(relocs'[k]) \in Nat BY <1>3, RetypedOff, ExtentFacts
<1>7. b + c <= size /\ End(relocs'[m]) = b + c BY <1>2, <1>3, RetypedOff
<1>8. a \in 0 .. size' - 1 /\ p \in 0 .. size' - 1
  <2>1. size \in Nat BY DEF TypeOK
  <2> QED BY <1>6, <1>7, <2>1
<1>9. a = p
  <2>1. \A x, y \in 0 .. size' - 1 : ByteAt(x)' = ByteAt(y)' => x = y BY DEF Distinct
  <2> QED BY <1>5, <1>8, <2>1
<1>10. InOrder(relocs)' BY DEF Geometry
<1>11. k # m BY <1>2 DEF InsnTypes
<1>12. CASE k < m
  <2>1. End(relocs'[k]) <= b BY <1>2, <1>3, <1>10, <1>12 DEF InOrder
  <2> QED BY <1>6, <1>9, <2>1
<1>13. CASE m < k
  <2>1. End(relocs'[m]) <= a BY <1>2, <1>3, <1>10, <1>13 DEF InOrder, InsnTypes
  <2> QED BY <1>7, <1>9, <2>1
<1> QED BY <1>2, <1>11, <1>12, <1>13

LEMMA ReleaseEdit ==
  ASSUME TypeOK, Geometry, Geometry', Distinct, PadsAreNops, Still, Retyped
  PROVE  Edit!Release /\ Distinct' /\ PadsAreNops'
<1>1. Text' = Text /\ Before' = Before /\ Span' = Span /\ Nops' = Nops /\ Distinct' BY StillText DEF Geometry
<1>2. size' = size /\ size \in Nat BY DEF Still, TypeOK
<1>3. PadsAreNops'
  <2> SUFFICES ASSUME NEW k \in 1 .. NReloc, relocs'[k].type = "ALIGN"
               PROVE  BytesAt(relocs[k].off, relocs[k].add)' \subseteq NopBytes
    BY DEF PadsAreNops
  <2>1. PICK p \in Nat, m \in Nat : p = relocs'[k].off /\ m = relocs'[k].add BY <1>2, RetypedOff
  <2>2. relocs'[k] = relocs[k] BY DEF Retyped
  <2>3. p + m <= size BY <1>2, <2>1, RetypedOff
  <2>4. BytesAt(relocs[k].off, relocs[k].add)' = BytesAt(p, m)' BY <2>1 DEF BytesAt
  <2>5. BytesAt(p, m)' = BytesAt(p, m) BY <2>3, StillRange
  <2>6. BytesAt(p, m) \subseteq NopBytes BY <2>1, <2>2 DEF PadsAreNops
  <2> QED BY <2>4, <2>5, <2>6
<1>4. ASSUME NEW k \in Deletes(1)
      PROVE  /\ k \in Deletes(1)'
             /\ BytesAt(relocs[k].off, relocs[k].add)' = BytesAt(relocs[k].off, relocs[k].add)
  <2>1. k \in 1 .. NReloc /\ relocs[k].type = "DELETE" BY DEF Deletes
  <2>2. relocs'[k] = relocs[k] BY <2>1 DEF Retyped
  <2>3. PICK p \in Nat, m \in Nat : p = relocs'[k].off /\ m = relocs'[k].add BY <1>2, <2>1, RetypedOff
  <2>4. p + m <= size BY <1>2, <2>1, <2>2, <2>3, RetypedOff
  <2>5. BytesAt(relocs[k].off, relocs[k].add)' = BytesAt(p, m)' BY <2>3 DEF BytesAt
  <2>6. BytesAt(p, m)' = BytesAt(p, m) BY <2>4, StillRange
  <2>7. k \in Deletes(1)' BY <2>1, <2>2 DEF Deletes
  <2> QED BY <2>2, <2>3, <2>5, <2>6, <2>7
<1>5. Slack \subseteq Slack'
  <2>1. Slack' = UNION {BytesAt(relocs[k].off, relocs[k].add)' : k \in Deletes(1)'} BY DEF Slack
  <2> QED BY <1>4, <2>1 DEF Slack
<1>6. Slack' \subseteq Edit!Here
  <2> SUFFICES ASSUME NEW b \in Slack' PROVE b \in Edit!Here OBVIOUS
  <2>1. PICK m \in Deletes(1)' : b \in BytesAt(relocs[m].off, relocs[m].add)' BY DEF Slack
  <2>2. m \in 1 .. NReloc /\ relocs'[m].type = "DELETE" BY DEF Deletes
  <2>3. PICK p \in Nat, c \in Nat : p = relocs'[m].off /\ c = relocs'[m].add BY <1>2, <2>2, RetypedOff
  <2>4. p + c <= size BY <1>2, <2>2, <2>3, RetypedOff
  <2>5. BytesAt(relocs[m].off, relocs[m].add)' = BytesAt(p, c)' BY <2>3 DEF BytesAt
  <2>6. BytesAt(p, c)' = Bytes(Text, p, p + c) BY <2>4, StillRange, BytesAreText
  <2>7. PICK x \in p .. (p + c) - 1 : b = Text[x] BY <2>1, <2>5, <2>6 DEF Bytes
  <2>8. x \in DOMAIN Text BY <1>2, <2>4, <2>7 DEF Text
  <2> QED BY <2>7, <2>8 DEF Edit!Here
<1>7. DOMAIN At' = 1 .. NReloc BY DEF At
<1>8. ASSUME NEW k \in 1 .. NReloc PROVE At'[k] \in ({At[k]} \ Slack') \cup {-1}
  <2>1. At'[k] = IF relocs'[k].type \in InsnTypes THEN ByteAt(relocs[k].off)' ELSE -1 BY DEF At
  <2>2. CASE relocs'[k].type \notin InsnTypes BY <2>1, <2>2
  <2>3. CASE relocs'[k].type \in InsnTypes
    <3>1. relocs[k].type \in InsnTypes /\ relocs'[k].off = relocs[k].off BY <2>3 DEF Retyped
    <3>2. PICK a \in Nat : a = relocs'[k].off BY <1>2, RetypedOff
    <3>3. a \in 0 .. size - 1
      <4>1. a < End(relocs'[k]) /\ End(relocs'[k]) <= size /\ End(relocs'[k]) \in Nat BY <1>2, <2>3, <3>2, RetypedOff, ExtentFacts
      <4> QED BY <1>2, <4>1
    <3>4. ByteAt(relocs[k].off)' = ByteAt(a)' BY <3>2 DEF ByteAt
    <3>5. ByteAt(a)' = ByteAt(a) BY <3>3, StillByte
    <3>6. At[k] = ByteAt(a) BY <3>1, <3>2 DEF At
    <3>7. ByteAt(relocs[k].off)' \notin Slack' BY <1>1, <1>2, <2>3, RetypedOffSlack
    <3> QED BY <2>1, <2>3, <3>4, <3>5, <3>6, <3>7
  <2> QED BY <2>2, <2>3
<1>9. Edit!StayOff(Slack') BY <1>8 DEF Edit!StayOff
<1>10. Edit!Release BY <1>1, <1>5, <1>6, <1>7, <1>9 DEF Edit!Release
<1> QED BY <1>1, <1>3, <1>10

-----------------------------------------------------------------------------
(***************************************************************************)
(* Instructions become shorter.                                            *)
(***************************************************************************)
LEMMA Numbers ==
  ASSUME TypeOK, NEW k \in 1 .. NReloc
  PROVE  /\ relocs[k].off \in Nat /\ relocs[k].add \in Nat /\ End(relocs[k]) \in Nat
         /\ relocs[k].off <= End(relocs[k]) /\ size \in Nat
BY RelocFacts, ExtentFacts DEF TypeOK

\* v is relocs, but for reloc j, which gets shorter or is used up.
OneChanged(v, j) ==
  /\ v \in Relocs
  /\ \A k \in 1 .. NReloc : k # j => v[k] = relocs[k]
  /\ relocs[j].type # "RELAX"
  /\ v[j].off = relocs[j].off
  /\ End(v[j]) <= End(relocs[j])
  /\ \/ v[j].type = "NONE"
     \/ v[j].type = "DELETE" /\ v[j].add > 0 /\ End(v[j]) <= size

LEMMA OneChangedGeometry ==
  ASSUME TypeOK, Geometry, NEW v, NEW j \in 1 .. NReloc, OneChanged(v, j)
  PROVE  InOrder(v) /\ Inside(v, size) /\ SymsFit(sym, v, size)
<1>1. /\ \A k \in 1 .. NReloc : k # j => v[k] = relocs[k]
      /\ relocs[j].type # "RELAX" /\ v[j].type # "RELAX" /\ v[j].type \notin InsnTypes
      /\ v[j].off = relocs[j].off
      /\ End(v[j]) <= End(relocs[j])
      /\ v[j].type = "DELETE" => v[j].add > 0 /\ End(v[j]) <= size
  BY DEF OneChanged, InsnTypes
<1>2. End(v[j]) \in Nat
  <2>1. v[j] \in Reloc BY DEF OneChanged, Relocs, Reloc
  <2> QED BY <2>1, ExtentFacts
<1>3. ASSUME NEW a \in 1 .. NReloc, NEW b \in 1 .. NReloc, a < b
      PROVE  End(v[a]) <= v[b].off \/ (b = a + 1 /\ v[b].type = "RELAX")
  <2>1. End(relocs[a]) <= relocs[b].off \/ (b = a + 1 /\ relocs[b].type = "RELAX")
    BY <1>3 DEF Geometry, InOrder
  <2>2. CASE a # j /\ b # j BY <1>1, <2>1, <2>2
  <2>3. CASE b = j
    <3>1. a # j BY <1>3, <2>3
    <3> QED BY <1>1, <2>1, <2>3, <3>1
  <2>4. CASE a = j
    <3>1. b # j /\ v[b] = relocs[b] BY <1>1, <1>3, <2>4
    <3>2. relocs[b].off \in Nat /\ End(relocs[j]) \in Nat BY Numbers
    <3> QED BY <1>1, <1>2, <2>1, <2>4, <3>1, <3>2
  <2> QED BY <2>2, <2>3, <2>4
<1>4. ASSUME NEW k \in 1 .. NReloc, v[k].type = "RELAX"
      PROVE  k > 1 /\ v[k - 1].off = v[k].off /\ v[k - 1].type # "RELAX"
  <2>1. k # j /\ relocs[k].type = "RELAX" BY <1>1, <1>4
  <2>2. k > 1 /\ relocs[k - 1].off = relocs[k].off /\ relocs[k - 1].type # "RELAX"
    BY <2>1 DEF Geometry, InOrder
  <2>3. k - 1 \in 1 .. NReloc BY <2>2, ObjectsAssumption
  <2>4. v[k - 1].off = relocs[k - 1].off /\ v[k - 1].type # "RELAX" BY <1>1, <2>2, <2>3
  <2> QED BY <1>1, <2>1, <2>2, <2>4
<1>5. InOrder(v) BY <1>3, <1>4 DEF InOrder
<1>6. Inside(v, size)
  <2> SUFFICES ASSUME NEW k \in 1 .. NReloc
               PROVE  /\ v[k].type \in {"ALIGN", "DELETE"} => v[k].add > 0
                      /\ v[k].type \in InsnTypes \cup {"DELETE"} => End(v[k]) <= size
    BY DEF Inside
  <2>1. CASE k = j BY <1>1, <2>1 DEF InsnTypes
  <2>2. CASE k # j
    <3>1. v[k] = relocs[k] BY <1>1, <2>2
    <3> QED BY <3>1 DEF Geometry, Inside
  <2> QED BY <2>1, <2>2
<1>7. ASSUME NEW p \in Nat, Boundary(p, relocs) PROVE Boundary(p, v)
  <2> SUFFICES ASSUME NEW k \in 1 .. NReloc PROVE p <= v[k].off \/ End(v[k]) <= p BY DEF Boundary
  <2>1. p <= relocs[k].off \/ End(relocs[k]) <= p BY <1>7 DEF Boundary
  <2>2. CASE k = j BY <1>1, <1>2, <2>1, <2>2, Numbers
  <2>3. CASE k # j BY <1>1, <2>1, <2>3
  <2> QED BY <2>2, <2>3
<1>8. SymsFit(sym, v, size)
  <2> SUFFICES ASSUME NEW l \in Labels
               PROVE  /\ sym[l].val + sym[l].size <= size
                      /\ Boundary(sym[l].val, v) /\ Boundary(sym[l].val + sym[l].size, v)
    BY DEF SymsFit
  <2>1. /\ sym[l].val + sym[l].size <= size
        /\ Boundary(sym[l].val, relocs) /\ Boundary(sym[l].val + sym[l].size, relocs)
    BY DEF Geometry, SymsFit
  <2>2. sym[l].val \in Nat /\ sym[l].val + sym[l].size \in Nat BY DEF TypeOK
  <2> QED BY <1>7, <2>1, <2>2
<1> QED BY <1>5, <1>6, <1>8

\* The instruction of reloc j keeps its first len parcels, and the R_RISCV_RELAX behind it
\* becomes a DELETE of the others.
SplitAt(v, j, len) ==
  /\ v \in Relocs
  /\ \A k \in 1 .. NReloc : k # j /\ k # j + 1 => v[k] = relocs[k]
  /\ v[j].type = "OTHER" /\ v[j].off = relocs[j].off
  /\ v[j + 1].type = "DELETE" /\ v[j + 1].off = relocs[j].off + len
  /\ v[j + 1].add = Extent(relocs[j]) - len

Splittable(j, len) ==
  /\ j \in 1 .. NReloc /\ j < NReloc
  /\ relocs[j].type \in {"CALL", "HI20"} /\ relocs[j + 1].type = "RELAX"
  /\ len \in Nat /\ len > 0 /\ len < Extent(relocs[j])

\* Offsets before and after.
LEMMA SplitNumbers ==
  ASSUME TypeOK, Geometry, NEW v, NEW j, NEW len, Splittable(j, len), SplitAt(v, j, len)
  PROVE  /\ j \in 1 .. NReloc /\ j + 1 \in 1 .. NReloc /\ j \in Nat
         /\ relocs[j].off \in Nat /\ End(relocs[j]) \in Nat /\ End(relocs[j]) <= size /\ size \in Nat
         /\ End(v[j]) = relocs[j].off + 1 /\ v[j].off = relocs[j].off
         /\ v[j + 1].off = relocs[j].off + len /\ End(v[j + 1]) = End(relocs[j]) /\ v[j + 1].add > 0
         /\ len \in Nat /\ len > 0 /\ relocs[j].off + len < End(relocs[j])
<1>1. j \in 1 .. NReloc /\ j + 1 \in 1 .. NReloc /\ j \in Nat BY ObjectsAssumption DEF Splittable
<1>2. relocs[j] \in Reloc /\ relocs[j].off \in Nat /\ End(relocs[j]) \in Nat /\ size \in Nat
  BY <1>1, Numbers, RelocFacts
<1>3. End(relocs[j]) = relocs[j].off + Extent(relocs[j]) /\ Extent(relocs[j]) \in Nat BY <1>2, ExtentFacts DEF End
<1>4. End(relocs[j]) <= size BY <1>1 DEF Geometry, Inside, Splittable, InsnTypes
<1>5. v[j].off = relocs[j].off /\ v[j].type = "OTHER" BY DEF SplitAt
<1>6. End(v[j]) = relocs[j].off + 1 BY <1>5 DEF End, Extent
<1>7. v[j + 1].type = "DELETE" /\ v[j + 1].off = relocs[j].off + len /\ v[j + 1].add = Extent(relocs[j]) - len
  BY DEF SplitAt
<1>8. End(v[j + 1]) = (relocs[j].off + len) + (Extent(relocs[j]) - len) BY <1>7 DEF End, Extent
<1>9. len \in Nat /\ len > 0 /\ len < Extent(relocs[j]) BY DEF Splittable
<1> QED BY <1>1, <1>2, <1>3, <1>4, <1>5, <1>6, <1>7, <1>8, <1>9

LEMMA SplitInOrder ==
  ASSUME TypeOK, Geometry, NEW v, NEW j, NEW len, Splittable(j, len), SplitAt(v, j, len)
  PROVE  InOrder(v)
<1>1. /\ j \in 1 .. NReloc /\ j + 1 \in 1 .. NReloc /\ j \in Nat
      /\ relocs[j].off \in Nat /\ End(relocs[j]) \in Nat
      /\ End(v[j]) = relocs[j].off + 1 /\ v[j].off = relocs[j].off
      /\ v[j + 1].off = relocs[j].off + len /\ End(v[j + 1]) = End(relocs[j])
      /\ len \in Nat /\ len > 0 /\ relocs[j].off + len < End(relocs[j])
  BY SplitNumbers
<1>2. \A k \in 1 .. NReloc : k # j /\ k # j + 1 => v[k] = relocs[k] BY DEF SplitAt
<1>3. v[j].type = "OTHER" /\ v[j + 1].type = "DELETE" BY DEF SplitAt
<1>4. relocs[j].type # "RELAX" /\ relocs[j + 1].type = "RELAX" BY DEF Splittable
\* What is behind the pair is behind the instruction, and has no part in the pair.
<1>5. ASSUME NEW b \in 1 .. NReloc, b > j + 1
      PROVE  End(relocs[j]) <= relocs[b].off /\ (b = j + 2 => relocs[b].type # "RELAX")
  <2>1. End(relocs[j]) <= relocs[b].off \/ (b = j + 1 /\ relocs[b].type = "RELAX")
    BY <1>1, <1>5 DEF Geometry, InOrder
  <2>2. ASSUME b = j + 2, relocs[b].type = "RELAX" PROVE FALSE
    <3>1. b - 1 = j + 1 BY <1>1, <2>2
    <3>2. relocs[b - 1].type # "RELAX" BY <2>2 DEF Geometry, InOrder
    <3> QED BY <1>4, <3>1, <3>2
  <2> QED BY <1>1, <1>5, <2>1, <2>2
<1>6. ASSUME NEW a \in 1 .. NReloc, NEW b \in 1 .. NReloc, a < b
      PROVE  End(v[a]) <= v[b].off \/ (b = a + 1 /\ v[b].type = "RELAX")
  <2>1. End(relocs[a]) <= relocs[b].off \/ (b = a + 1 /\ relocs[b].type = "RELAX")
    BY <1>6 DEF Geometry, InOrder
  <2>2. CASE b < j
    <3>1. a # j /\ a # j + 1 /\ b # j /\ b # j + 1 BY <1>1, <1>6, <2>2
    <3> QED BY <1>2, <2>1, <3>1
  <2>3. CASE b = j
    <3>1. a # j /\ a # j + 1 BY <1>1, <1>6, <2>3
    <3>2. End(relocs[a]) <= relocs[j].off BY <1>4, <2>1, <2>3
    <3> QED BY <1>1, <1>2, <2>3, <3>1, <3>2
  <2>4. CASE b = j + 1 /\ a = j BY <1>1, <2>4
  <2>5. CASE b = j + 1 /\ a < j
    <3>1. End(relocs[a]) <= relocs[j].off BY <1>1, <1>4, <2>5 DEF Geometry, InOrder
    <3>2. v[a] = relocs[a] BY <1>1, <1>2, <2>5
    <3>3. End(relocs[a]) \in Nat BY Numbers
    <3> QED BY <1>1, <2>5, <3>1, <3>2, <3>3
  <2>6. CASE b > j + 1
    <3>1. v[b] = relocs[b] /\ relocs[b].off \in Nat /\ End(relocs[j]) <= relocs[b].off
      BY <1>1, <1>2, <1>5, <2>6, Numbers
    <3>2. CASE a = j \/ a = j + 1 BY <1>1, <3>1, <3>2
    <3>3. CASE a # j /\ a # j + 1 BY <1>2, <2>1, <3>1, <3>3
    <3> QED BY <3>2, <3>3
  <2> QED BY <1>1, <1>6, <2>2, <2>3, <2>4, <2>5, <2>6
<1>7. ASSUME NEW k \in 1 .. NReloc, v[k].type = "RELAX"
      PROVE  k > 1 /\ v[k - 1].off = v[k].off /\ v[k - 1].type # "RELAX"
  <2>1. k # j /\ k # j + 1 /\ v[k] = relocs[k] BY <1>2, <1>3, <1>7
  <2>2. k > 1 /\ relocs[k - 1].off = relocs[k].off /\ relocs[k - 1].type # "RELAX"
    BY <1>7, <2>1 DEF Geometry, InOrder
  <2>3. k - 1 \in 1 .. NReloc BY <2>2, ObjectsAssumption
  <2>4. k - 1 # j /\ k - 1 # j + 1
    <3>1. k - 1 # j BY <1>1, <2>1
    <3>2. k - 1 # j + 1 BY <1>4, <2>2
    <3> QED BY <3>1, <3>2
  <2> QED BY <1>2, <2>1, <2>2, <2>3, <2>4
<1> QED BY <1>6, <1>7 DEF InOrder

LEMMA SplitGeometry ==
  ASSUME TypeOK, Geometry, NEW v, NEW j, NEW len, Splittable(j, len), SplitAt(v, j, len)
  PROVE  InOrder(v) /\ Inside(v, size) /\ SymsFit(sym, v, size)
<1>1. /\ j \in 1 .. NReloc /\ j + 1 \in 1 .. NReloc /\ j \in Nat
      /\ relocs[j].off \in Nat /\ End(relocs[j]) \in Nat /\ End(relocs[j]) <= size /\ size \in Nat
      /\ End(v[j]) = relocs[j].off + 1 /\ v[j].off = relocs[j].off
      /\ v[j + 1].off = relocs[j].off + len /\ End(v[j + 1]) = End(relocs[j]) /\ v[j + 1].add > 0
      /\ len \in Nat /\ len > 0 /\ relocs[j].off + len < End(relocs[j])
  BY SplitNumbers
<1>2. \A k \in 1 .. NReloc : k # j /\ k # j + 1 => v[k] = relocs[k] BY DEF SplitAt
<1>3. v[j].type = "OTHER" BY DEF SplitAt
<1>4. Inside(v, size)
  <2> SUFFICES ASSUME NEW k \in 1 .. NReloc
               PROVE  /\ v[k].type \in {"ALIGN", "DELETE"} => v[k].add > 0
                      /\ v[k].type \in InsnTypes \cup {"DELETE"} => End(v[k]) <= size
    BY DEF Inside
  <2>1. CASE k = j BY <1>1, <1>3, <2>1
  <2>2. CASE k = j + 1 BY <1>1, <2>2
  <2>3. CASE k # j /\ k # j + 1
    <3>1. v[k] = relocs[k] BY <1>2, <2>3
    <3> QED BY <3>1 DEF Geometry, Inside
  <2> QED BY <2>1, <2>2, <2>3
<1>5. ASSUME NEW p \in Nat, Boundary(p, relocs) PROVE Boundary(p, v)
  <2> SUFFICES ASSUME NEW k \in 1 .. NReloc PROVE p <= v[k].off \/ End(v[k]) <= p BY DEF Boundary
  <2>1. p <= relocs[k].off \/ End(relocs[k]) <= p BY <1>5 DEF Boundary
  <2>2. p <= relocs[j].off \/ End(relocs[j]) <= p BY <1>1, <1>5 DEF Boundary
  <2>3. CASE k = j BY <1>1, <2>2, <2>3
  <2>4. CASE k = j + 1 BY <1>1, <2>2, <2>4
  <2>5. CASE k # j /\ k # j + 1 BY <1>2, <2>1, <2>5
  <2> QED BY <2>3, <2>4, <2>5
<1>6. SymsFit(sym, v, size)
  <2> SUFFICES ASSUME NEW l \in Labels
               PROVE  /\ sym[l].val + sym[l].size <= size
                      /\ Boundary(sym[l].val, v) /\ Boundary(sym[l].val + sym[l].size, v)
    BY DEF SymsFit
  <2>1. /\ sym[l].val + sym[l].size <= size
        /\ Boundary(sym[l].val, relocs) /\ Boundary(sym[l].val + sym[l].size, relocs)
    BY DEF Geometry, SymsFit
  <2>2. sym[l].val \in Nat /\ sym[l].val + sym[l].size \in Nat BY DEF TypeOK
  <2> QED BY <1>5, <2>1, <2>2
<1> QED BY <1>4, <1>6, SplitInOrder

-----------------------------------------------------------------------------
(***************************************************************************)
(* Every step keeps the invariant and is a step of SectionEdit.            *)
(***************************************************************************)
\* A reloc stops being R_RISCV_RELAX only with the reloc in front of it.
PairsKept ==
  \A k \in 1 .. NReloc : \/ relocs'[k].type = "RELAX" <=> relocs[k].type = "RELAX"
                         \/ k > 1 /\ relocs'[k - 1].type # relocs[k - 1].type

Good == IInv' /\ Edit!Next /\ PairsKept

\* A step that moves no byte.
LEMMA StillStep ==
  ASSUME IInv, Still, Retyped, Geometry', PairsKept, wrap' = wrap, AtDelete',
         total' = 0 \/ (total' = total /\ pc' = pc), i' \in 1 .. NReloc + 1,
         pc' \in {"relax", "resolve", "align", "done"}
  PROVE  Good
<1>1. TypeOK /\ Freed /\ Geometry /\ Distinct /\ PadsAreNops BY DEF IInv, Geometry
<1>2. contents' = contents /\ size' = size /\ sym' = sym BY DEF Still
<1>3. size \in Nat /\ total \in Nat /\ total' \in Nat /\ total' <= total BY <1>1 DEF TypeOK
<1>4. TypeOK' BY <1>1, <1>2, <1>3 DEF TypeOK, Retyped
<1>5. 0 .. size' + total' - 1 \subseteq 0 .. size + total - 1
  <2>1. PICK n \in Nat, a \in Nat, b \in Nat : n = size /\ a = total /\ b = total' BY <1>3
  <2>2. b <= a BY <1>3, <2>1
  <2>3. 0 .. n + b - 1 \subseteq 0 .. n + a - 1 BY <2>2
  <2> QED BY <1>2, <2>1, <2>3
<1>6. Freed' BY <1>1, <1>2, <1>5 DEF Freed
<1>7. Edit!Release /\ Distinct' /\ PadsAreNops' BY <1>1, ReleaseEdit
<1>8. IInv' BY <1>4, <1>6, <1>7 DEF IInv, Geometry
<1>9. Edit!Next BY <1>7 DEF Edit!Next
<1> QED BY <1>8, <1>9 DEF Good

\* And none of the relocs.
LEMMA KeepRelocs ==
  ASSUME IInv, relocs' = relocs, size' = size, sym' = sym
  PROVE  Retyped /\ Geometry' /\ PairsKept
<1>1. Retyped BY DEF Retyped, IInv, TypeOK
<1>2. Geometry' BY DEF IInv, Geometry
<1>3. PairsKept BY DEF PairsKept
<1> QED BY <1>1, <1>2, <1>3

LEMMA SplitStep ==
  ASSUME IInv, pc = "relax", i <= NReloc, NEW len \in Nat, Splittable(i, len), SplitAt(relocs', i, len),
         i' = i + 2, UNCHANGED <<contents, size, sym, total, pc>>, wrap' = wrap
  PROVE  Good
<1>1. TypeOK /\ Freed /\ Geometry BY DEF IInv, Geometry
<1>2. contents' = contents /\ size' = size /\ sym' = sym /\ total' = total /\ pc' = pc OBVIOUS
<1>3. InOrder(relocs') /\ Inside(relocs', size) /\ SymsFit(sym, relocs', size) BY <1>1, SplitGeometry
<1>4. Geometry' BY <1>2, <1>3 DEF Geometry
<1>5. total = 0 BY <1>1 DEF Freed
<1>6. Still BY <1>2, <1>5 DEF Still
<1>7. /\ relocs' \in Relocs
      /\ \A k \in 1 .. NReloc : k # i /\ k # i + 1 => relocs'[k] = relocs[k]
      /\ relocs'[i].type = "OTHER" /\ relocs'[i].off = relocs[i].off /\ relocs'[i + 1].type = "DELETE"
  BY DEF SplitAt
<1>8. /\ relocs[i].type \in {"CALL", "HI20"} /\ relocs[i + 1].type = "RELAX" /\ i < NReloc /\ i \in Nat
      /\ i \in 1 .. NReloc /\ NReloc \in Nat
  BY ObjectsAssumption DEF Splittable
<1>9. Retyped BY <1>7, <1>8 DEF Retyped, InsnTypes
<1>10. PairsKept
  <2> SUFFICES ASSUME NEW k \in 1 .. NReloc
               PROVE  \/ relocs'[k].type = "RELAX" <=> relocs[k].type = "RELAX"
                      \/ k > 1 /\ relocs'[k - 1].type # relocs[k - 1].type
    BY DEF PairsKept
  <2>1. CASE k = i BY <1>7, <1>8, <2>1
  <2>2. CASE k = i + 1
    <3>1. k > 1 /\ k - 1 = i BY <1>8, <2>2
    <3> QED BY <1>7, <1>8, <3>1
  <2>3. CASE k # i /\ k # i + 1 BY <1>7, <2>3
  <2> QED BY <2>1, <2>2, <2>3
<1>11. AtDelete' BY <1>2 DEF AtDelete
<1>12. i' \in 1 .. NReloc + 1 BY <1>8
<1> QED BY <1>1, <1>2, <1>4, <1>6, <1>9, <1>10, <1>11, <1>12, StillStep DEF TypeOK

LEMMA RelaxCallStep ==
  ASSUME IInv, NEW len \in 1 .. 2, RelaxCall(len), wrap' = wrap
  PROVE  Good
<1> DEFINE r == relocs[i]
           u == [relocs EXCEPT ![i].type = "OTHER"]
           d == [type |-> "DELETE", off |-> r.off + len, add |-> 4 - len]
<1>1. /\ pc = "relax" /\ i <= NReloc /\ r.type = "CALL" /\ Paired(i)
      /\ relocs' = [u EXCEPT ![i + 1] = d]
      /\ i' = i + 2 /\ UNCHANGED <<contents, size, sym, total, pc>>
  BY DEF RelaxCall, Piecewise
<1>2. relocs \in Relocs /\ i \in 1 .. NReloc /\ NReloc \in Nat /\ i + 1 \in 1 .. NReloc /\ i # i + 1
  BY <1>1, ObjectsAssumption DEF IInv, TypeOK, Paired
<1>3. r.off \in Nat /\ r.add \in Nat BY <1>2 DEF Relocs
<1>4. u = [relocs EXCEPT ![i] = [r EXCEPT !.type = "OTHER"]] OBVIOUS
<1>5. [r EXCEPT !.type = "OTHER"] \in [type : Types, off : Nat, add : Nat] BY <1>2 DEF Relocs, Types, InsnTypes
<1>6. u \in Relocs BY <1>2, <1>4, <1>5 DEF Relocs
<1>7. u[i] = [r EXCEPT !.type = "OTHER"] /\ \A k \in 1 .. NReloc : k # i => u[k] = relocs[k]
  BY <1>2, <1>4 DEF Relocs
<1>8. u[i].type = "OTHER" /\ u[i].off = r.off BY <1>2, <1>7 DEF Relocs
<1>9. d \in [type : Types, off : Nat, add : Nat] /\ d.type = "DELETE" /\ d.off = r.off + len /\ d.add = 4 - len
  BY <1>3 DEF Types
<1> HIDE DEF u, d
<1>10. relocs' \in Relocs BY <1>1, <1>2, <1>6, <1>9 DEF Relocs
<1>11. relocs'[i + 1] = d /\ \A k \in 1 .. NReloc : k # i + 1 => relocs'[k] = u[k] BY <1>1, <1>2, <1>6 DEF Relocs
<1>12. Extent(r) = 4 BY <1>1 DEF Extent
<1>13. SplitAt(relocs', i, len) BY <1>2, <1>7, <1>8, <1>9, <1>10, <1>11, <1>12 DEF SplitAt
<1>14. Splittable(i, len) BY <1>1, <1>2, <1>12 DEF Splittable, Paired
<1>15. len \in Nat OBVIOUS
<1> QED BY <1>1, <1>13, <1>14, <1>15, SplitStep

LEMMA RelaxCLuiStep ==
  ASSUME IInv, RelaxCLui, wrap' = wrap
  PROVE  Good
<1> DEFINE r == relocs[i]
           u == [relocs EXCEPT ![i].type = "OTHER"]
           d == [type |-> "DELETE", off |-> r.off + 1, add |-> 1]
<1>1. /\ pc = "relax" /\ i <= NReloc /\ r.type = "HI20" /\ Paired(i)
      /\ relocs' = [u EXCEPT ![i + 1] = d]
      /\ i' = i + 2 /\ UNCHANGED <<contents, size, sym, total, pc>>
  BY DEF RelaxCLui, Piecewise
<1>2. relocs \in Relocs /\ i \in 1 .. NReloc /\ NReloc \in Nat /\ i + 1 \in 1 .. NReloc /\ i # i + 1
  BY <1>1, ObjectsAssumption DEF IInv, TypeOK, Paired
<1>3. r.off \in Nat /\ r.add \in Nat BY <1>2 DEF Relocs
<1>4. u = [relocs EXCEPT ![i] = [r EXCEPT !.type = "OTHER"]] OBVIOUS
<1>5. [r EXCEPT !.type = "OTHER"] \in [type : Types, off : Nat, add : Nat] BY <1>2 DEF Relocs, Types, InsnTypes
<1>6. u \in Relocs BY <1>2, <1>4, <1>5 DEF Relocs
<1>7. u[i] = [r EXCEPT !.type = "OTHER"] /\ \A k \in 1 .. NReloc : k # i => u[k] = relocs[k]
  BY <1>2, <1>4 DEF Relocs
<1>8. u[i].type = "OTHER" /\ u[i].off = r.off BY <1>2, <1>7 DEF Relocs
<1>9. d \in [type : Types, off : Nat, add : Nat] /\ d.type = "DELETE" /\ d.off = r.off + 1 /\ d.add = 1
  BY <1>3 DEF Types
<1> HIDE DEF u, d
<1>10. relocs' \in Relocs BY <1>1, <1>2, <1>6, <1>9 DEF Relocs
<1>11. relocs'[i + 1] = d /\ \A k \in 1 .. NReloc : k # i + 1 => relocs'[k] = u[k] BY <1>1, <1>2, <1>6 DEF Relocs
<1>12. Extent(r) = 2 BY <1>1 DEF Extent
<1>13. SplitAt(relocs', i, 1)
  <2>1. relocs'[i + 1].type = "DELETE" /\ relocs'[i + 1].off = r.off + 1 BY <1>9, <1>11
  <2>2. relocs'[i + 1].add = Extent(r) - 1 BY <1>9, <1>11, <1>12
  <2>3. relocs'[i].type = "OTHER" /\ relocs'[i].off = r.off BY <1>2, <1>8, <1>11
  <2>4. \A k \in 1 .. NReloc : k # i /\ k # i + 1 => relocs'[k] = relocs[k] BY <1>7, <1>11
  <2> QED BY <1>10, <2>1, <2>2, <2>3, <2>4 DEF SplitAt
<1>14. Splittable(i, 1) BY <1>1, <1>2, <1>12 DEF Splittable, Paired
<1> QED BY <1>1, <1>13, <1>14, SplitStep

\* One reloc is used up, or becomes a DELETE of its parcels.
LEMMA OneChangedStep ==
  ASSUME IInv, pc \in {"relax", "align"}, NEW j \in 1 .. NReloc, j = i, OneChanged(relocs', j),
         relocs[j].type # "DELETE", i' \in 1 .. NReloc + 1, UNCHANGED <<contents, size, sym, total, pc>>, wrap' = wrap
  PROVE  Good
<1>1. TypeOK /\ Freed /\ Geometry BY DEF IInv, Geometry
<1>2. contents' = contents /\ size' = size /\ sym' = sym /\ total' = total /\ pc' = pc OBVIOUS
<1>3. InOrder(relocs') /\ Inside(relocs', size) /\ SymsFit(sym, relocs', size) BY <1>1, OneChangedGeometry
<1>4. Geometry' BY <1>2, <1>3 DEF Geometry
<1>5. total = 0 BY <1>1 DEF Freed
<1>6. Still BY <1>2, <1>5 DEF Still
<1>7. /\ relocs' \in Relocs
      /\ \A k \in 1 .. NReloc : k # j => relocs'[k] = relocs[k]
      /\ relocs'[j].type \in {"NONE", "DELETE"} /\ relocs[j].type # "RELAX"
  BY DEF OneChanged
<1>8. Retyped BY <1>7 DEF Retyped, InsnTypes
<1>9. PairsKept BY <1>7 DEF PairsKept
<1>10. AtDelete' BY <1>2 DEF AtDelete
<1> QED BY <1>1, <1>2, <1>4, <1>6, <1>8, <1>9, <1>10, StillStep DEF TypeOK

LEMMA RelaxDropStep ==
  ASSUME IInv, RelaxDrop, wrap' = wrap
  PROVE  Good
<1> DEFINE r == relocs[i]
           d == [type |-> "DELETE", off |-> r.off, add |-> 2]
<1>1. /\ pc = "relax" /\ i <= NReloc /\ r.type = "HI20" /\ Paired(i)
      /\ relocs' = [relocs EXCEPT ![i] = d]
      /\ i' = i + 2 /\ UNCHANGED <<contents, size, sym, total, pc>>
  BY DEF RelaxDrop, Piecewise
<1>2. relocs \in Relocs /\ i \in 1 .. NReloc /\ NReloc \in Nat /\ i < NReloc
  BY <1>1, ObjectsAssumption DEF IInv, TypeOK, Paired
<1>3. r.off \in Nat BY <1>2 DEF Relocs
<1>4. d \in [type : Types, off : Nat, add : Nat] /\ d.type = "DELETE" /\ d.off = r.off /\ d.add = 2
  BY <1>3 DEF Types
<1>5. End(d) = r.off + 2 /\ End(r) = r.off + 2 BY <1>1, <1>4 DEF End, Extent
<1>6. End(r) <= size BY <1>1, <1>2 DEF IInv, Inside, InsnTypes
<1> HIDE DEF d
<1>7. relocs' \in Relocs BY <1>1, <1>2, <1>4 DEF Relocs
<1>8. relocs'[i] = d /\ \A k \in 1 .. NReloc : k # i => relocs'[k] = relocs[k] BY <1>1, <1>2 DEF Relocs
<1>9. OneChanged(relocs', i) BY <1>1, <1>3, <1>4, <1>5, <1>6, <1>7, <1>8 DEF OneChanged
<1>10. i' \in 1 .. NReloc + 1 BY <1>1, <1>2
<1> QED BY <1>1, <1>2, <1>9, <1>10, OneChangedStep

LEMMA KeepRelocStep ==
  ASSUME IInv, KeepReloc, wrap' = wrap
  PROVE  Good
<1>1. /\ pc = "relax" /\ i <= NReloc
      /\ i' = IF relocs[i].type \in {"CALL", "HI20"} /\ Paired(i) THEN i + 2 ELSE i + 1
      /\ contents' = contents /\ size' = size /\ relocs' = relocs /\ sym' = sym /\ total' = total /\ pc' = pc
  BY DEF KeepReloc
<1>2. TypeOK /\ Freed /\ NReloc \in Nat BY ObjectsAssumption DEF IInv
<1>3. i' \in 1 .. NReloc + 1 BY <1>1, <1>2 DEF TypeOK, Paired
<1>4. Still BY <1>1, <1>2 DEF Still, Freed
<1>5. Retyped /\ Geometry' /\ PairsKept BY <1>1, KeepRelocs
<1>6. AtDelete' BY <1>1 DEF AtDelete
<1> QED BY <1>1, <1>3, <1>4, <1>5, <1>6, StillStep

LEMMA StartResolveStep ==
  ASSUME IInv, StartResolve, wrap' = wrap
  PROVE  Good
<1>1. /\ pc = "relax" /\ pc' = "resolve" /\ i' = 1 /\ total' = 0
      /\ contents' = contents /\ size' = size /\ relocs' = relocs /\ sym' = sym
  BY DEF StartResolve
<1>2. TypeOK /\ Freed /\ NReloc \in Nat BY ObjectsAssumption DEF IInv
<1>3. i' \in 1 .. NReloc + 1 BY <1>1, <1>2
<1>4. Still BY <1>1, <1>2 DEF Still, Freed
<1>5. Retyped /\ Geometry' /\ PairsKept BY <1>1, KeepRelocs
<1>6. AtDelete' BY <1>1 DEF AtDelete
<1> QED BY <1>1, <1>3, <1>4, <1>5, <1>6, StillStep

LEMMA ResolveDoneStep ==
  ASSUME IInv, ResolveDone, wrap' = wrap
  PROVE  Good
<1>1. /\ pc = "resolve" /\ Deletes(i) = {} /\ i' = 1 /\ total' = 0
      /\ pc' \in {"relax", "align"}
      /\ contents' = contents /\ size' = size /\ relocs' = relocs /\ sym' = sym
  BY DEF ResolveDone
<1>2. TypeOK /\ Freed /\ AtDelete /\ NReloc \in Nat BY ObjectsAssumption DEF IInv
<1>3. i' \in 1 .. NReloc + 1 BY <1>1, <1>2
<1>4. total = 0 \/ Placed = size
  <2>1. CASE i = 1 /\ total = 0 BY <2>1
  <2>2. CASE i <= NReloc /\ relocs[i].type = "DELETE" /\ Deletes(1) = Deletes(i)
    <3>1. i \in Deletes(i) BY <1>2, <2>2 DEF Deletes, TypeOK
    <3> QED BY <1>1, <3>1
  <2>3. CASE i = NReloc + 1 /\ Deletes(1) = {} BY <1>2, <2>3 DEF Placed
  <2> QED BY <1>1, <1>2, <2>1, <2>2, <2>3 DEF AtDelete
<1>5. Still BY <1>1, <1>4 DEF Still
<1>6. Retyped /\ Geometry' /\ PairsKept BY <1>1, KeepRelocs
<1>7. AtDelete' BY <1>1 DEF AtDelete
<1> QED BY <1>1, <1>3, <1>5, <1>6, <1>7, StillStep

LEMMA KeepInAlignStep ==
  ASSUME IInv, KeepInAlign, wrap' = wrap
  PROVE  Good
<1>1. /\ pc = "align" /\ i <= NReloc /\ i' = i + 1
      /\ contents' = contents /\ size' = size /\ relocs' = relocs /\ sym' = sym /\ total' = total /\ pc' = pc
  BY DEF KeepInAlign
<1>2. TypeOK /\ Freed /\ NReloc \in Nat BY ObjectsAssumption DEF IInv
<1>3. i' \in 1 .. NReloc + 1 BY <1>1, <1>2 DEF TypeOK
<1>4. Still BY <1>1, <1>2 DEF Still, Freed
<1>5. Retyped /\ Geometry' /\ PairsKept BY <1>1, KeepRelocs
<1>6. AtDelete' BY <1>1 DEF AtDelete
<1> QED BY <1>1, <1>3, <1>4, <1>5, <1>6, StillStep

LEMMA EndStep ==
  ASSUME IInv, AlignDone \/ Stopped, wrap' = wrap
  PROVE  Good
<1>1. /\ pc \in {"align", "done"} /\ pc' = "done" /\ i' = i
      /\ contents' = contents /\ size' = size /\ relocs' = relocs /\ sym' = sym /\ total' = total
  BY DEF AlignDone, Stopped
<1>2. TypeOK /\ Freed /\ total = 0 /\ i' \in 1 .. NReloc + 1 BY <1>1 DEF IInv, Freed, TypeOK
<1>3. Still BY <1>1, <1>2 DEF Still
<1>4. Retyped /\ Geometry' /\ PairsKept BY <1>1, KeepRelocs
<1>5. AtDelete' BY <1>1 DEF AtDelete
<1> QED BY <1>1, <1>2, <1>3, <1>4, <1>5, StillStep

\* A deletion changes no R_RISCV_RELAX.
LEMMA CallPairs ==
  ASSUME IInv, NEW j \in 1 .. NReloc, NEW addr, NEW count, Deletable(j, addr, count),
         NEW toaddr, DeleteBytes(addr, count, toaddr, UsedUp(j))
  PROVE  PairsKept
<1>1. TypeOK /\ Geometry BY DEF IInv, Geometry
<1>2. relocs' = [k \in DOMAIN UsedUp(j) |-> ShiftReloc(UsedUp(j)[k], addr, count)] BY DEF DeleteBytes
<1>3. DOMAIN UsedUp(j) = 1 .. NReloc BY <1>1, UsedUpFacts DEF Relocs
<1>4. relocs' = Shifted(j, addr, count) BY <1>2, <1>3 DEF Shifted
<1>5. ASSUME NEW k \in 1 .. NReloc PROVE relocs'[k].type = "RELAX" <=> relocs[k].type = "RELAX"
  <2>1. relocs'[k].type = UsedUp(j)[k].type BY <1>1, <1>4, MovedNumbers
  <2>2. CASE k = j BY <1>1, <2>1, <2>2, UsedUpFacts DEF Deletable
  <2>3. CASE k # j BY <1>1, <2>1, <2>3, UsedUpFacts
  <2> QED BY <2>2, <2>3
<1> QED BY <1>5 DEF PairsKept

LEMMA RelaxAlignStep ==
  ASSUME IInv, NEW nop \in Nat, RelaxAlign(nop), wrap' = wrap
  PROVE  Good
<1> DEFINE r == relocs[i]
           addr == r.off + nop
           count == r.add - nop
<1>1. /\ pc = "align" /\ i <= NReloc /\ r.type = "ALIGN" /\ nop <= r.add
      /\ IF nop = r.add THEN relocs' = UsedUp(i) /\ UNCHANGED <<contents, size, sym>>
                        ELSE DeleteBytes(addr, count, size, UsedUp(i))
      /\ i' = i + 1 /\ total' = total /\ pc' = pc
  BY DEF RelaxAlign, UsedUp, AlignFrom
<1>2. TypeOK /\ Freed /\ Geometry /\ NReloc \in Nat BY ObjectsAssumption DEF IInv, Geometry
<1>3. i \in 1 .. NReloc /\ i' \in 1 .. NReloc + 1 BY <1>1, <1>2 DEF TypeOK
<1>4. total = 0 BY <1>1, <1>2 DEF Freed
<1>5. r \in Reloc /\ r.off \in Nat /\ r.add \in Nat /\ size \in Nat /\ End(r) = r.off + r.add /\ End(r) <= size
  BY <1>1, <1>2, <1>3, RelocFacts, Numbers, ExtentFacts DEF End, Geometry, Inside, InsnTypes
<1>6. CASE nop = r.add
  <2>1. OneChanged(UsedUp(i), i)
    <3>1. /\ UsedUp(i) \in Relocs
          /\ \A k \in 1 .. NReloc : k # i => UsedUp(i)[k] = relocs[k]
          /\ UsedUp(i)[i].type = "NONE" /\ UsedUp(i)[i].off = relocs[i].off
          /\ End(UsedUp(i)[i]) = relocs[i].off
      BY <1>2, <1>3, UsedUpFacts
    <3> QED BY <1>1, <1>5, <3>1 DEF OneChanged
  <2>2. OneChanged(relocs', i) BY <1>1, <1>6, <2>1
  <2>3. UNCHANGED <<contents, size, sym, total, pc>> BY <1>1, <1>6
  <2> QED BY <1>1, <1>3, <2>2, <2>3, OneChangedStep
<1>7. CASE nop # r.add
  <2>1. DeleteBytes(addr, count, size, UsedUp(i)) BY <1>1, <1>7
  <2>2. Deletable(i, addr, count) BY <1>1, <1>5, <1>7 DEF Deletable
  <2>3. size' = size - count BY <2>1 DEF DeleteBytes
  <2>4. Placed' = size - count BY <1>1, <2>3 DEF Placed
  <2>5. Called(addr, count, size) BY <1>1, <1>4, <1>5, <2>4 DEF Called
  <2>6. AtDelete' BY <1>1 DEF AtDelete
  <2>7. IInv' /\ Edit!Next BY <1>1, <1>3, <1>4, <2>1, <2>2, <2>5, <2>6, CallStep
  <2>8. PairsKept BY <1>3, <2>1, <2>2, CallPairs
  <2> QED BY <2>7, <2>8 DEF Good
<1> QED BY <1>6, <1>7

LEMMA ResolveGood ==
  ASSUME IInv, ResolveDelete, wrap' = wrap
  PROVE  Good
<1> DEFINE j == FirstIn(Deletes(i))
           addr == relocs[j].off
           count == relocs[j].add
<1>1. Deletes(i) # {} /\ DeleteBytes(addr, count, ToAddr(j), UsedUp(j)) BY DEF ResolveDelete, UsedUp
<1>2. TypeOK /\ Geometry /\ NReloc \in Nat BY ObjectsAssumption DEF IInv, Geometry
<1>3. Deletes(i) \in SUBSET Nat BY <1>2 DEF Deletes, TypeOK
<1>4. j \in Deletes(i) BY <1>1, <1>3, FirstFacts
<1> HIDE DEF j
<1>5. j \in 1 .. NReloc /\ relocs[j].type = "DELETE" BY <1>2, <1>4 DEF Deletes, TypeOK
<1>6. relocs[j] \in Reloc /\ addr \in Nat /\ count \in Nat /\ count > 0
  BY <1>2, <1>5, RelocFacts DEF Geometry, Inside
<1>7. End(relocs[j]) = addr + count BY <1>5, <1>6, ExtentFacts DEF End
<1>8. Deletable(j, addr, count) BY <1>5, <1>6, <1>7 DEF Deletable
<1>9. PairsKept BY <1>1, <1>5, <1>8, CallPairs
<1> QED BY <1>9, ResolveDeleteStep DEF Good

LEMMA NextGood ==
  ASSUME IInv, Next
  PROVE  Good
<1>1. Step /\ wrap' = wrap BY DEF Next
<1>2. CASE \E len \in 1 .. 2 : RelaxCall(len) BY <1>1, <1>2, RelaxCallStep
<1>3. CASE RelaxDrop BY <1>1, <1>3, RelaxDropStep
<1>4. CASE RelaxCLui BY <1>1, <1>4, RelaxCLuiStep
<1>5. CASE KeepReloc BY <1>1, <1>5, KeepRelocStep
<1>6. CASE StartResolve BY <1>1, <1>6, StartResolveStep
<1>7. CASE ResolveDelete BY <1>1, <1>7, ResolveGood
<1>8. CASE ResolveDone BY <1>1, <1>8, ResolveDoneStep
<1>9. CASE \E j \in DOMAIN relocs : \E nop \in 0 .. relocs[j].add : j = i /\ RelaxAlign(nop)
  <2>1. PICK j \in DOMAIN relocs : \E nop \in 0 .. relocs[j].add : j = i /\ RelaxAlign(nop) BY <1>9
  <2>2. PICK nop \in 0 .. relocs[j].add : RelaxAlign(nop) BY <2>1
  <2>3. nop \in Nat OBVIOUS
  <2> QED BY <1>1, <2>2, <2>3, RelaxAlignStep
<1>10. CASE KeepInAlign BY <1>1, <1>10, KeepInAlignStep
<1>11. CASE AlignDone \/ Stopped BY <1>1, <1>11, EndStep
<1> QED BY <1>1, <1>2, <1>3, <1>4, <1>5, <1>6, <1>7, <1>8, <1>9, <1>10, <1>11 DEF Step

-----------------------------------------------------------------------------
(***************************************************************************)
(* Sections as the assembler writes them.                                  *)
(***************************************************************************)
\* What Init says of the section o of n parcels.
Starts(o, n) ==
  /\ o \in Objects /\ Section(o, n)
  /\ contents = o.contents /\ size = n /\ relocs = o.relocs /\ sym = o.sym
  /\ i = 1 /\ total = 0 /\ pc = "relax" /\ wrap \in BOOLEAN

LEMMA InitSection ==
  ASSUME Init
  PROVE  \E o, n : Starts(o, n)
<1>1. PICK o \in Objects : /\ contents = o.contents /\ size = Cardinality(DOMAIN o.contents)
                           /\ relocs = o.relocs /\ sym = o.sym
                           /\ i = 1 /\ total = 0 /\ pc = "relax" /\ wrap \in BOOLEAN
  BY DEF Init
<1>2. Starts(o, Cardinality(DOMAIN o.contents)) BY <1>1, ObjectsAssumption DEF Starts
<1> QED BY <1>2

LEMMA StartFacts ==
  ASSUME NEW o, NEW n, Starts(o, n)
  PROVE  /\ size \in Nat /\ NReloc \in Nat
         /\ contents \in [0 .. size - 1 -> Nat]
         /\ \A k \in Nat : ByteAt(k) = contents[k]
         /\ \A j, k \in 0 .. size - 1 : contents[j] = contents[k] => j = k
         /\ relocs \in Relocs /\ sym \in [Labels -> [val : Nat, size : Nat]]
         /\ \A k \in 1 .. NReloc : relocs[k].type \in InsnTypes \cup {"RELAX"}
         /\ Geometry
<1>1. Section(o, n) BY DEF Starts
<1>2. \A k \in Nat : ByteAt(k) = contents[k] BY DEF Starts, ByteAt
<1>3. Geometry BY <1>1 DEF Starts, Section, Geometry
<1>4. /\ contents = o.contents /\ size = n /\ relocs = o.relocs /\ sym = o.sym /\ NReloc \in Nat
  BY ObjectsAssumption DEF Starts
<1>5. /\ n \in Nat /\ o.contents \in [0 .. n - 1 -> Nat]
      /\ \A j, k \in 0 .. n - 1 : o.contents[j] = o.contents[k] => j = k
      /\ o.relocs \in Relocs /\ o.sym \in [Labels -> [val : Nat, size : Nat]]
  BY <1>1 DEF Section
<1>6. \A k \in 1 .. NReloc : o.relocs[k].type \in InsnTypes \cup {"RELAX"} BY <1>1 DEF Section
<1> QED BY <1>2, <1>3, <1>4, <1>5, <1>6

LEMMA StartPads ==
  ASSUME NEW o, NEW n, Starts(o, n)
  PROVE  PadsAreNops
<1> SUFFICES ASSUME NEW j \in 1 .. NReloc, relocs[j].type = "ALIGN"
             PROVE  BytesAt(relocs[j].off, relocs[j].add) \subseteq NopBytes
  BY DEF PadsAreNops
<1>1. relocs \in Relocs /\ \A k \in Nat : ByteAt(k) = contents[k] BY StartFacts
<1>2. relocs[j] \in Reloc /\ relocs[j].off \in Nat /\ relocs[j].add \in Nat BY <1>1 DEF Relocs, Reloc
<1>3. End(relocs[j]) = relocs[j].off + relocs[j].add BY <1>2, ExtentFacts DEF End
<1>4. \A p \in relocs[j].off .. End(relocs[j]) - 1 : contents[p] \in NopBytes
  <2>1. contents = o.contents /\ relocs = o.relocs /\ Section(o, n) BY DEF Starts
  <2>2. \A k \in 1 .. NReloc : o.relocs[k].type = "ALIGN" =>
          \A p \in o.relocs[k].off .. End(o.relocs[k]) - 1 : o.contents[p] \in NopBytes
    BY <2>1 DEF Section
  <2> QED BY <2>1, <2>2
<1>5. ASSUME NEW p \in relocs[j].off .. relocs[j].off + relocs[j].add - 1 PROVE ByteAt(p) \in NopBytes
  <2>1. p \in Nat /\ p \in relocs[j].off .. End(relocs[j]) - 1 BY <1>2, <1>3
  <2> QED BY <1>1, <1>4, <2>1
<1> QED BY <1>5 DEF BytesAt

LEMMA InitInv ==
  ASSUME Init
  PROVE  IInv
<1>1. PICK o, n : Starts(o, n) BY InitSection
<1>2. /\ size \in Nat /\ NReloc \in Nat
      /\ contents \in [0 .. size - 1 -> Nat]
      /\ \A k \in Nat : ByteAt(k) = contents[k]
      /\ \A j, k \in 0 .. size - 1 : contents[j] = contents[k] => j = k
      /\ relocs \in Relocs /\ sym \in [Labels -> [val : Nat, size : Nat]]
      /\ Geometry
  BY <1>1, StartFacts
<1>3. i = 1 /\ total = 0 /\ pc = "relax" /\ wrap \in BOOLEAN BY <1>1 DEF Starts
<1>4. TypeOK BY <1>2, <1>3 DEF TypeOK
<1>5. Freed BY <1>2, <1>3 DEF Freed
<1>6. AtDelete BY <1>3 DEF AtDelete
<1>7. Distinct BY <1>2 DEF Distinct
<1>8. PadsAreNops BY <1>1, StartPads
<1> QED BY <1>2, <1>4, <1>5, <1>6, <1>7, <1>8 DEF IInv, Geometry

\* Bytes in front of a symbol are not bytes it covers.
LEMMA InHere ==
  ASSUME TypeOK, NEW p \in Nat, NEW m \in Nat, p + m <= size
  PROVE  BytesAt(p, m) \subseteq Edit!Here
<1>1. BytesAt(p, m) = Bytes(Text, p, p + m) BY BytesAreText
<1>2. size \in Nat BY DEF TypeOK
<1>3. \A x \in p .. (p + m) - 1 : x \in DOMAIN Text BY <1>2 DEF Text
<1> QED BY <1>1, <1>3 DEF Bytes, Edit!Here

LEMMA HereCount ==
  ASSUME IInv
  PROVE  DOMAIN Text = 0 .. Edit!Cardinality(Edit!Here) - 1
<1> DEFINE D == 0 .. size - 1
           H == Edit!Here
<1>1. size \in Nat BY DEF IInv, TypeOK
<1>2. DOMAIN Text = D BY DEF Text
<1>3. H = {Text[k] : k \in D} BY <1>2 DEF Edit!Here
<1>4. Text = [k \in D |-> Text[k]] BY DEF Text
<1>5. \A j, k \in D : Text[j] = Text[k] => j = k BY DEF IInv, Distinct, Text
<1>6. IsFiniteSet(D) /\ Cardinality(D) = size BY <1>1, FS_Interval
<1> HIDE DEF D, H
<1>7. Text \in [D -> H] BY <1>3, <1>4
<1>8. Text \in Surjection(D, H) BY <1>3, <1>7 DEF Surjection
<1>9. Text \in Injection(D, H) BY <1>5, <1>7 DEF Injection, IsInjective
<1>10. Cardinality(H) = Cardinality(D) BY <1>6, <1>8, <1>9, FS_Surjection
<1>11. Edit!Cardinality(H) = size BY <1>6, <1>10, EditCardinality
<1> QED BY <1>2, <1>11 DEF D, H

LEMMA InitEdit ==
  ASSUME Init
  PROVE  Edit!Init
<1>1. PICK o, n : Starts(o, n) BY InitSection
<1>2. IInv /\ TypeOK BY InitInv DEF IInv
<1>3. /\ size \in Nat /\ NReloc \in Nat
      /\ contents \in [0 .. size - 1 -> Nat]
      /\ \A k \in Nat : ByteAt(k) = contents[k]
      /\ relocs \in Relocs /\ sym \in [Labels -> [val : Nat, size : Nat]]
      /\ \A k \in 1 .. NReloc : relocs[k].type \in InsnTypes \cup {"RELAX"}
      /\ Geometry
  BY <1>1, StartFacts
<1>4. DOMAIN Text = 0 .. Edit!Cardinality(Edit!Here) - 1 BY <1>2, HereCount
<1>5. -1 \notin Edit!Here
  <2>1. \A k \in DOMAIN Text : Text[k] \in Nat BY <1>3 DEF Text
  <2>2. -1 \notin Nat OBVIOUS
  <2> QED BY <2>1, <2>2 DEF Edit!Here
<1>6. DOMAIN At = 1 .. NReloc /\ \A k \in 1 .. NReloc : At[k] \in Edit!Here \cup {-1}
  <2>1. DOMAIN At = 1 .. NReloc BY DEF At
  <2> SUFFICES ASSUME NEW k \in 1 .. NReloc, relocs[k].type \in InsnTypes PROVE At[k] \in Edit!Here
    BY <2>1 DEF At
  <2>2. At[k] = ByteAt(relocs[k].off) BY DEF At
  <2>3. relocs[k] \in Reloc /\ relocs[k].off \in Nat BY <1>2, RelocFacts
  <2>4. relocs[k].type = "ALIGN" => relocs[k].add > 0 BY <1>3 DEF Geometry, Inside
  <2>5. Extent(relocs[k]) \in Nat /\ Extent(relocs[k]) > 0 BY <2>3, <2>4, ExtentFacts DEF InsnTypes
  <2>6. End(relocs[k]) <= size /\ End(relocs[k]) = relocs[k].off + Extent(relocs[k]) BY <1>3 DEF Geometry, Inside, End
  <2>7. relocs[k].off \in 0 .. size - 1 BY <1>3, <2>3, <2>5, <2>6
  <2> QED BY <2>2, <2>7 DEF Text, Edit!Here
<1>7. ASSUME NEW l \in Labels
      PROVE  Before[l] \subseteq Edit!Here /\ Span[l] \subseteq Edit!Here \ Before[l]
  <2>1. PICK p \in Nat, m \in Nat : p = sym[l].val /\ m = sym[l].size BY <1>3
  <2>2. p + m <= size BY <1>3, <2>1 DEF Geometry, SymsFit
  <2>3. Before[l] = BytesAt(0, p) /\ Span[l] = BytesAt(p, m) BY <2>1 DEF Before, Span
  <2>4. BytesAt(0, p) \subseteq Edit!Here
    <3>1. 0 + p <= size BY <1>3, <2>2
    <3> QED BY <1>2, <3>1, InHere
  <2>5. BytesAt(p, m) \subseteq Edit!Here BY <1>2, <2>2, InHere
  <2>6. ASSUME NEW x \in 0 .. 0 + p - 1, NEW y \in p .. p + m - 1, ByteAt(x) = ByteAt(y) PROVE FALSE
    <3>1. x \in 0 .. size - 1 /\ y \in 0 .. size - 1 /\ x # y BY <1>3, <2>2
    <3> QED BY <1>2, <2>6, <3>1 DEF IInv, Distinct
  <2>7. BytesAt(p, m) \cap BytesAt(0, p) = {} BY <2>6 DEF BytesAt
  <2> QED BY <2>3, <2>4, <2>5, <2>7
<1>8. DOMAIN Before = Labels /\ DOMAIN Span = Labels BY DEF Before, Span
<1>9. Nops \subseteq Edit!Here
  <2>1. 0 + size <= size BY <1>3
  <2>2. BytesAt(0, size) \subseteq Edit!Here BY <1>2, <1>3, <2>1, InHere
  <2> QED BY <2>2 DEF Nops
<1>10. Slack = {}
  <2>1. Deletes(1) = {} BY <1>3 DEF Deletes, InsnTypes
  <2> QED BY <2>1 DEF Slack
<1> QED BY <1>4, <1>5, <1>6, <1>7, <1>8, <1>9, <1>10 DEF Edit!Init

-----------------------------------------------------------------------------
(***************************************************************************)
(* The theorems.                                                           *)
(***************************************************************************)
LEMMA StutterKeeps ==
  ASSUME IInv, UNCHANGED vars
  PROVE  IInv' /\ UNCHANGED Edit!vars /\ PairsKept
<1>1. /\ contents' = contents /\ size' = size /\ relocs' = relocs /\ sym' = sym /\ i' = i
      /\ total' = total /\ pc' = pc /\ wrap' = wrap
  BY DEF vars
<1>6. Text' = Text /\ At' = At BY <1>1 DEF Text, At, ByteAt, Placed
<1>7. Before' = Before /\ Span' = Span BY <1>1 DEF Before, Span, BytesAt, ByteAt, Placed
<1>8. Slack' = Slack /\ Nops' = Nops BY <1>1 DEF Slack, Nops, BytesAt, ByteAt, Placed, Deletes
<1>9. TypeOK' /\ Freed' /\ AtDelete' BY <1>1 DEF IInv, TypeOK, Freed, AtDelete, Deletes
<1>10. Distinct' BY <1>1 DEF IInv, Distinct, ByteAt, Placed
<1>11. PadsAreNops' BY <1>1 DEF IInv, PadsAreNops, BytesAt, ByteAt, Placed
<1>12. PairsKept BY <1>1 DEF PairsKept
<1>13. IInv' BY <1>1, <1>9, <1>10, <1>11 DEF IInv
<1> QED BY <1>6, <1>7, <1>8, <1>12, <1>13 DEF Edit!vars

\* While bytes are moved block by block, the section is always one that the invariant
\* describes: relocs in order and inside, symbols on boundaries, and the bytes that were
\* freed behind the rest (_bfd_riscv_relax_section, riscv_relax_resolve_delete_relocs).
THEOREM Invariance == Spec => []IInv
<1>1. Init => IInv BY InitInv
<1>2. IInv /\ [Next]_vars => IInv' BY NextGood, StutterKeeps DEF Good
<1> QED BY <1>1, <1>2, PTL DEF Spec

\* Deleting bytes piece by piece implements the edit of the section that SectionEdit
\* describes: only bytes given up and NOPs go, no reloc changes its byte, and symbols lose
\* exactly the bytes that go (_riscv_relax_delete_bytes and its callers).
THEOREM Refinement == Spec => ImplementsEdit
<1>1. Init => Edit!Init BY InitEdit
<1>2. IInv /\ [Next]_vars => [Edit!Next]_Edit!vars BY NextGood, StutterKeeps DEF Good
<1> QED BY <1>1, <1>2, Invariance, PTL DEF Spec, ImplementsEdit, Edit!Spec

LEMMA PairedIs ==
  ASSUME TypeOK, InOrder(relocs), NEW j \in 1 .. NReloc
  PROVE  Paired(j) <=> j < NReloc /\ relocs[j + 1].type = "RELAX"
<1> SUFFICES ASSUME j < NReloc, relocs[j + 1].type = "RELAX" PROVE relocs[j + 1].off = relocs[j].off BY DEF Paired
<1>1. j + 1 \in 1 .. NReloc /\ (j + 1) - 1 = j BY ObjectsAssumption
<1>2. relocs[(j + 1) - 1].off = relocs[j + 1].off BY <1>1 DEF InOrder
<1> QED BY <1>1, <1>2

\* An instruction that can still be shortened keeps the R_RISCV_RELAX that allows it, and
\* never gets one of a neighbour (the relocs rewritten by _riscv_relax_delete_piecewise).
THEOREM Pairs == Spec => PairsStay
<1> DEFINE A == \A j \in 1 .. NReloc :
                  relocs[j].type \in {"CALL", "HI20"} /\ relocs'[j].type = relocs[j].type
                    => (Paired(j) <=> Paired(j)')
<1>1. ASSUME IInv, [Next]_vars, IInv' PROVE A
  <2>1. PairsKept BY <1>1, NextGood, StutterKeeps DEF Good
  <2> SUFFICES ASSUME NEW j \in 1 .. NReloc, relocs'[j].type = relocs[j].type
               PROVE  Paired(j) <=> Paired(j)'
    OBVIOUS
  <2>2. Paired(j) <=> j < NReloc /\ relocs[j + 1].type = "RELAX" BY <1>1, PairedIs DEF IInv
  <2>3. Paired(j)' <=> j < NReloc /\ relocs'[j + 1].type = "RELAX"
    <3>1. TypeOK' /\ InOrder(relocs)' BY <1>1 DEF IInv
    <3>2. ASSUME j < NReloc, relocs'[j + 1].type = "RELAX" PROVE relocs'[j + 1].off = relocs'[j].off
      <4>1. j + 1 \in 1 .. NReloc /\ (j + 1) - 1 = j BY <3>2, ObjectsAssumption
      <4>2. relocs'[(j + 1) - 1].off = relocs'[j + 1].off BY <3>1, <3>2, <4>1 DEF InOrder
      <4> QED BY <4>1, <4>2
    <3> QED BY <3>2 DEF Paired
  <2>4. j < NReloc => (relocs'[j + 1].type = "RELAX" <=> relocs[j + 1].type = "RELAX")
    <3>1. j < NReloc => j + 1 \in 1 .. NReloc /\ (j + 1) - 1 = j BY ObjectsAssumption
    <3> QED BY <2>1, <3>1 DEF PairsKept
  <2> QED BY <2>2, <2>3, <2>4
<1>2. IInv /\ [Next]_vars /\ IInv' => [A]_vars BY <1>1
<1>3. Spec => [][A]_vars BY <1>2, Invariance, PTL DEF Spec
<1> QED BY <1>3 DEF PairsStay
=============================================================================
