-------------------------- MODULE GasOptionsProofs --------------------------
(***************************************************************************)
(* Proofs about GasOptions: look-ups in the subset list are exact, the     *)
(* string printed for it reads back, .option pop restores what its push    *)
(* saved, and the header covers the code, for every file and every nesting.*)
(***************************************************************************)
EXTENDS GasOptions, SequencesExt, FiniteSetTheorems, SequenceTheorems, WellFoundedInduction, TLAPS

-----------------------------------------------------------------------------
(***************************************************************************)
(* Induction over the naturals, from the well-foundedness of finite sets.  *)
(***************************************************************************)
\* Every set of naturals that is not empty has a least member.
LEMMA Least ==
  ASSUME NEW S \in SUBSET Nat, S # {}
  PROVE  \E m \in S : \A k \in S : m <= k
<1> DEFINE T == {1 .. n : n \in S}
<1>1. IsWellFoundedOn(StrictSubsetOrdering(Nat), FiniteSubsetsOf(Nat))
  BY FS_StrictSubsetOrderingWellFounded
<1>2. T \subseteq FiniteSubsetsOf(Nat)
  <2>1. ASSUME NEW n \in S PROVE IsFiniteSet(1 .. n) /\ 1 .. n \in SUBSET Nat
    BY FS_Interval
  <2> QED BY <2>1 DEF FiniteSubsetsOf
<1>3. T # {}
  OBVIOUS
<1>4. \E x \in T : \A y \in T : ~ (<<y, x>> \in StrictSubsetOrdering(Nat))
  BY <1>1, <1>2, <1>3, WFMin
<1>5. PICK m \in S : \A y \in T : ~ (<<y, 1 .. m>> \in StrictSubsetOrdering(Nat))
  BY <1>4
<1>6. ASSUME NEW k \in S, k < m PROVE FALSE
  <2>1. 1 .. k \in T /\ 1 .. k \in SUBSET Nat /\ 1 .. m \in SUBSET Nat
    OBVIOUS
  <2>2. 1 .. k \subseteq 1 .. m /\ 1 .. k # 1 .. m
    <3>1. m \in 1 .. m /\ m \notin 1 .. k BY <1>6
    <3>2. ASSUME NEW z \in 1 .. k PROVE z \in 1 .. m BY <1>6
    <3> QED BY <3>1, <3>2
  <2>3. <<1 .. k, 1 .. m>> \in StrictSubsetOrdering(Nat)
    BY <2>1, <2>2 DEF StrictSubsetOrdering
  <2> QED BY <1>5, <2>1, <2>3
<1> QED BY <1>6

\* A set of naturals that holds 0, and the next of each of its members, is all of them.
LEMMA Induct ==
  ASSUME NEW S \in SUBSET Nat, 0 \in S, \A n \in S : n + 1 \in S
  PROVE  S = Nat
<1> SUFFICES ASSUME Nat \ S # {} PROVE FALSE OBVIOUS
<1>1. PICK m \in Nat \ S : \A k \in Nat \ S : m <= k BY Least, Nat \ S \in SUBSET Nat
<1>2. m # 0 /\ m - 1 \in Nat OBVIOUS
<1>3. m - 1 \in S BY <1>1, <1>2
<1> QED BY <1>3

\* The same over 0 .. N.
LEMMA InductTo ==
  ASSUME NEW N \in Nat, NEW S, 0 \in S, \A n \in 0 .. N : n \in S /\ n < N => n + 1 \in S
  PROVE  0 .. N \subseteq S
<1> DEFINE T == {n \in Nat : n <= N => n \in S}
<1>1. 0 \in T OBVIOUS
<1>2. ASSUME NEW n \in T PROVE n + 1 \in T
  <2>1. CASE n + 1 <= N
    <3>1. n \in 0 .. N /\ n \in S /\ n < N BY <1>2, <2>1
    <3> QED BY <3>1
  <2>2. CASE ~(n + 1 <= N) BY <1>2, <2>2
  <2> QED BY <2>1, <2>2
<1> HIDE DEF T
<1>3. T = Nat
  <2>1. T \in SUBSET Nat BY DEF T
  <2> QED BY <1>1, <1>2, <2>1, Induct
<1> QED BY <1>3 DEF T

\* The least member is what Min chooses.
LEMMA MinFacts ==
  ASSUME NEW S \in SUBSET Nat, S # {}
  PROVE  Min(S) \in S /\ \A k \in S : Min(S) <= k
BY Least DEF Min

-----------------------------------------------------------------------------
(***************************************************************************)
(* Recursion: whatever step does, there is a function that starts at x and *)
(* goes on from each value to the next by step.                            *)
(***************************************************************************)
StaysIn(step, N, X) == \A y \in X : \A n \in 1 .. N : step[<<y, n>>] \in X

Iterates(g, N, X, x, step) ==
  /\ g \in [0 .. N -> X]
  /\ g[0] = x
  /\ \A n \in 1 .. N : g[n] = step[<<g[n - 1], n>>]

LEMMA RecExists ==
  ASSUME NEW N \in Nat, NEW X, NEW x \in X, NEW step, StaysIn(step, N, X)
  PROVE  \E g : Iterates(g, N, X, x, step)
<1> USE DEF StaysIn
<1> DEFINE UpTo(k) == \E g \in [0 .. N -> X] :
                         g[0] = x /\ \A n \in 1 .. N : n <= k => g[n] = step[<<g[n - 1], n>>]
           S == {k \in 0 .. N : UpTo(k)}
<1>1. 0 \in S
  <2> DEFINE g == [n \in 0 .. N |-> x]
  <2>1. g \in [0 .. N -> X] /\ g[0] = x OBVIOUS
  <2>2. ASSUME NEW n \in 1 .. N, n <= 0 PROVE FALSE BY <2>2
  <2> HIDE DEF g
  <2>3. UpTo(0) BY <2>1, <2>2
  <2> QED BY <2>3
<1>2. ASSUME NEW k \in 0 .. N, k \in S, k < N PROVE k + 1 \in S
  <2>1. PICK g \in [0 .. N -> X] :
          g[0] = x /\ \A n \in 1 .. N : n <= k => g[n] = step[<<g[n - 1], n>>]
    BY <1>2
  <2> DEFINE h == [n \in 0 .. N |-> IF n = k + 1 THEN step[<<g[k], k + 1>>] ELSE g[n]]
  <2>2. h \in [0 .. N -> X]
    <3>1. k + 1 \in 1 .. N /\ g[k] \in X BY <1>2
    <3>2. step[<<g[k], k + 1>>] \in X BY <3>1
    <3> QED BY <3>2
  <2>3. h[0] = x BY <2>1, <1>2
  <2>4. ASSUME NEW n \in 1 .. N, n <= k + 1 PROVE h[n] = step[<<h[n - 1], n>>]
    <3>1. n - 1 \in 0 .. N /\ n - 1 # k + 1 /\ n \in 0 .. N BY <2>4
    <3>2. h[n - 1] = g[n - 1] BY <3>1
    <3>3. CASE n = k + 1 BY <3>1, <3>2, <3>3
    <3>4. CASE n # k + 1
      <4>1. n <= k /\ h[n] = g[n] BY <3>1, <3>4, <2>4
      <4> QED BY <4>1, <3>2, <2>1
    <3> QED BY <3>3, <3>4
  <2> HIDE DEF h
  <2>5. UpTo(k + 1) BY <2>2, <2>3, <2>4
  <2> QED BY <2>5, <1>2
<1> HIDE DEF S
<1>3. 0 .. N \subseteq S BY <1>1, <1>2, InductTo
<1>4. N \in S BY <1>3
<1>5. PICK g \in [0 .. N -> X] :
        g[0] = x /\ \A n \in 1 .. N : n <= N => g[n] = step[<<g[n - 1], n>>]
  BY <1>4 DEF S
<1>6. Iterates(g, N, X, x, step) BY <1>5 DEF Iterates
<1> QED BY <1>6

-----------------------------------------------------------------------------
(***************************************************************************)
(* Insertion and removal, by index.                                        *)
(***************************************************************************)
LEMMA InsertAtFacts ==
  ASSUME NEW T, NEW s \in Seq(T), NEW i \in 1 .. Len(s) + 1, NEW e \in T
  PROVE  /\ InsertAt(s, i, e) \in Seq(T)
         /\ Len(InsertAt(s, i, e)) = Len(s) + 1
         /\ \A k \in 1 .. Len(s) + 1 :
              InsertAt(s, i, e)[k] = IF k < i THEN s[k] ELSE IF k = i THEN e ELSE s[k - 1]
<1> DEFINE a == SubSeq(s, 1, i - 1)
           b == SubSeq(s, i, Len(s))
<1>0. Len(s) \in Nat OBVIOUS
<1>1. a \in Seq(T) /\ Len(a) = i - 1 /\ \A k \in 1 .. i - 1 : a[k] = s[k] OBVIOUS
<1>2. b \in Seq(T) /\ Len(b) = Len(s) + 1 - i /\ \A k \in 1 .. Len(s) + 1 - i : b[k] = s[i + k - 1]
  OBVIOUS
<1>3. InsertAt(s, i, e) = (a \o <<e>>) \o b BY DEF InsertAt
<1> HIDE DEF a, b
<1> DEFINE c == a \o <<e>>
<1>4. c \in Seq(T) /\ Len(c) = i /\ \A k \in 1 .. i : c[k] = IF k < i THEN s[k] ELSE e
  BY <1>1
<1> HIDE DEF c
<1>5. c \o b \in Seq(T) /\ Len(c \o b) = Len(s) + 1
  <2>1. Len(c \o b) = Len(c) + Len(b) BY <1>2, <1>4, ConcatProperties
  <2> QED BY <1>0, <1>2, <1>4, <2>1
<1>6. ASSUME NEW k \in 1 .. Len(s) + 1
      PROVE  (c \o b)[k] = IF k < i THEN s[k] ELSE IF k = i THEN e ELSE s[k - 1]
  <2>0. k \in 1 .. Len(c) + Len(b) BY <1>0, <1>2, <1>4
  <2>1. CASE k <= i
    <3>1. (c \o b)[k] = c[k] /\ k \in 1 .. i BY <1>2, <1>4, <2>0, <2>1, ConcatProperties
    <3> QED BY <3>1, <1>4
  <2>2. CASE k > i
    <3>1. k - i \in 1 .. Len(s) + 1 - i /\ k - Len(c) = k - i BY <2>2, <1>4
    <3>2. (c \o b)[k] = b[k - i] BY <1>2, <1>4, <2>0, <2>2, ConcatProperties
    <3>3. i + (k - i) - 1 = k - 1 OBVIOUS
    <3> QED BY <1>2, <2>2, <3>1, <3>2, <3>3
  <2>3. k <= i \/ k > i BY <1>0
  <2> QED BY <2>1, <2>2, <2>3
<1> QED BY <1>3, <1>5, <1>6 DEF c

LEMMA RemoveAtFacts ==
  ASSUME NEW T, NEW s \in Seq(T), NEW i \in 1 .. Len(s)
  PROVE  /\ RemoveAt(s, i) \in Seq(T)
         /\ Len(RemoveAt(s, i)) = Len(s) - 1
         /\ \A k \in 1 .. Len(s) - 1 : RemoveAt(s, i)[k] = IF k < i THEN s[k] ELSE s[k + 1]
<1> DEFINE a == SubSeq(s, 1, i - 1)
           b == SubSeq(s, i + 1, Len(s))
<1>0. Len(s) \in Nat OBVIOUS
<1>1. a \in Seq(T) /\ Len(a) = i - 1 /\ \A k \in 1 .. i - 1 : a[k] = s[k] OBVIOUS
<1>2. b \in Seq(T) /\ Len(b) = Len(s) - i /\ \A k \in 1 .. Len(s) - i : b[k] = s[i + k] OBVIOUS
<1>3. RemoveAt(s, i) = a \o b BY DEF RemoveAt
<1> HIDE DEF a, b
<1>4. a \o b \in Seq(T) /\ Len(a \o b) = Len(s) - 1
  <2>1. Len(a \o b) = Len(a) + Len(b) BY <1>1, <1>2, ConcatProperties
  <2> QED BY <1>0, <1>1, <1>2, <2>1
<1>5. ASSUME NEW k \in 1 .. Len(s) - 1 PROVE (a \o b)[k] = IF k < i THEN s[k] ELSE s[k + 1]
  <2>0. k \in 1 .. Len(a) + Len(b) BY <1>0, <1>1, <1>2
  <2>1. CASE k < i
    <3>1. (a \o b)[k] = a[k] /\ k \in 1 .. i - 1 BY <1>1, <1>2, <2>0, <2>1, ConcatProperties
    <3> QED BY <3>1, <1>1, <2>1
  <2>2. CASE k >= i
    <3>1. k - (i - 1) \in 1 .. Len(s) - i BY <2>2
    <3>2. (a \o b)[k] = b[k - (i - 1)] BY <1>1, <1>2, <2>0, <2>2, ConcatProperties
    <3>3. i + (k - (i - 1)) = k + 1 OBVIOUS
    <3> QED BY <1>2, <2>2, <3>1, <3>2, <3>3
  <2>3. k < i \/ k >= i BY <1>0
  <2> QED BY <2>1, <2>2, <2>3
<1> QED BY <1>3, <1>4, <1>5

-----------------------------------------------------------------------------
(***************************************************************************)
(* The order of the extensions.                                            *)
(***************************************************************************)
LEMMA ExtsFacts ==
  /\ Names = {"e", "i", "f", "d", "c", "zicsr", "zfinx", "zca", "zcf", "ztso"}
  /\ \A x \in Names : Exts[x][1] \in Nat /\ Exts[x][2] \in Nat /\ Exts[x][3] \in Nat
  /\ \A x, y \in Names :
       Exts[x][1] = Exts[y][1] /\ Exts[x][2] = Exts[y][2] /\ Exts[x][3] = Exts[y][3] => x = y
<1>1. Names = {"e", "i", "f", "d", "c", "zicsr", "zfinx", "zca", "zcf", "ztso"}
  BY DEF Names, Exts
<1>2. /\ Exts["e"] = <<0, 1, 0>> /\ Exts["i"] = <<0, 2, 0>> /\ Exts["f"] = <<0, 6, 0>>
      /\ Exts["d"] = <<0, 7, 0>> /\ Exts["c"] = <<0, 10, 0>> /\ Exts["zicsr"] = <<1, 2, 0>>
      /\ Exts["zfinx"] = <<1, 6, 0>> /\ Exts["zca"] = <<1, 10, 0>>
      /\ Exts["zcf"] = <<1, 10, 1>> /\ Exts["ztso"] = <<1, 14, 0>>
  BY DEF Exts
<1>3. \A x \in Names : Exts[x][1] \in Nat /\ Exts[x][2] \in Nat /\ Exts[x][3] \in Nat
  BY <1>1, <1>2
<1>4. \A x, y \in Names :
        Exts[x][1] = Exts[y][1] /\ Exts[x][2] = Exts[y][2] /\ Exts[x][3] = Exts[y][3] => x = y
  BY <1>1, <1>2
<1> QED BY <1>1, <1>3, <1>4

\* riscv_compare_subsets is a strict order: an extension comes before another, after it, or is it.
LEMMA Compare ==
  ASSUME NEW a \in Names, NEW b \in Names
  PROVE  /\ riscv_compare_subsets(a, b) \in Int
         /\ riscv_compare_subsets(a, b) = 0 <=> a = b
         /\ riscv_compare_subsets(a, b) < 0 <=> riscv_compare_subsets(b, a) > 0
<1>1. riscv_compare_subsets(a, b) \in Int
  BY ExtsFacts DEF riscv_compare_subsets
<1>2. riscv_compare_subsets(a, b) = 0 <=> a = b
  <2>1. ASSUME riscv_compare_subsets(a, b) = 0 PROVE a = b
    <3>1. /\ Exts[a][1] = Exts[b][1] /\ Exts[a][2] = Exts[b][2] /\ Exts[a][3] = Exts[b][3]
      BY <2>1, ExtsFacts DEF riscv_compare_subsets
    <3> QED BY <3>1, ExtsFacts
  <2>2. ASSUME a = b PROVE riscv_compare_subsets(a, b) = 0
    BY <2>2, ExtsFacts DEF riscv_compare_subsets
  <2> QED BY <2>1, <2>2
<1>3. riscv_compare_subsets(a, b) < 0 <=> riscv_compare_subsets(b, a) > 0
  BY ExtsFacts DEF riscv_compare_subsets
<1> QED BY <1>1, <1>2, <1>3

LEMMA CompareTrans ==
  ASSUME NEW a \in Names, NEW b \in Names, NEW c \in Names,
         riscv_compare_subsets(a, b) < 0, riscv_compare_subsets(b, c) < 0
  PROVE  riscv_compare_subsets(a, c) < 0
BY ExtsFacts DEF riscv_compare_subsets

-----------------------------------------------------------------------------
(***************************************************************************)
(* One list.                                                               *)
(***************************************************************************)
LEMMA EmptyChain == EmptyList \in Chains
BY DEF EmptyList, Chains, Sorted

\* The look-up, with its shortcut through the tail, tells where x is or belongs.
LEMMA LookupFacts ==
  ASSUME NEW l \in Chains, NEW x \in Names
  PROVE  LET r == riscv_lookup_subset(l, x)
         IN /\ r.found <=> x \in Range(l.names)
            /\ r.at \in 0 .. Len(l.names)
            /\ \A k \in 1 .. r.at : riscv_compare_subsets(l.names[k], x) < 0
            /\ ~r.found => \A k \in r.at + 1 .. Len(l.names) :
                              riscv_compare_subsets(l.names[k], x) > 0
<1> DEFINE s == l.names
           notBefore == {i \in DOMAIN s : riscv_compare_subsets(s[i], x) >= 0}
           at == IF notBefore = {} THEN Len(s) ELSE Min(notBefore) - 1
           r == riscv_lookup_subset(l, x)
<1>0. /\ s \in Seq(Names) /\ Sorted(s) /\ Len(s) \in Nat /\ DOMAIN s = 1 .. Len(s)
      /\ l.tail = IF s = <<>> THEN None ELSE s[Len(s)]
      /\ \A k \in 1 .. Len(s) : s[k] \in Names
  BY DEF Chains, Last
<1>1. r = IF l.tail # None /\ riscv_compare_subsets(l.tail, x) < 0
          THEN [found |-> FALSE, at |-> Len(s)]
          ELSE [found |-> notBefore # {} /\ s[at + 1] = x, at |-> at]
  BY DEF riscv_lookup_subset
<1>2. Range(s) = {s[k] : k \in 1 .. Len(s)} BY <1>0 DEF Range
<1> HIDE DEF s, r
<1>3. ASSUME NEW i \in 1 .. Len(s), NEW j \in 1 .. Len(s), i < j
      PROVE  riscv_compare_subsets(s[i], s[j]) < 0
  BY <1>0, <1>3 DEF Sorted
<1>4. CASE l.tail # None /\ riscv_compare_subsets(l.tail, x) < 0
  <2>1. Len(s) \in 1 .. Len(s) /\ riscv_compare_subsets(s[Len(s)], x) < 0
    <3>1. s # <<>> /\ l.tail = s[Len(s)] BY <1>0, <1>4
    <3>2. Len(s) # 0 BY <1>0, <3>1
    <3> QED BY <1>0, <1>4, <3>1, <3>2
  <2>2. ASSUME NEW k \in 1 .. Len(s) PROVE riscv_compare_subsets(s[k], x) < 0
    <3>1. CASE k = Len(s) BY <2>1, <3>1
    <3>2. CASE k < Len(s) BY <2>1, <3>2, <1>0, <1>3, CompareTrans
    <3>3. k = Len(s) \/ k < Len(s)
      <4>1. Len(s) \in Nat BY <1>0
      <4> QED BY <4>1
    <3> QED BY <3>1, <3>2, <3>3
  <2>3. x \notin Range(s) BY <1>0, <1>2, <2>2, Compare
  <2>4. r = [found |-> FALSE, at |-> Len(s)] BY <1>1, <1>4
  <2> QED BY <1>0, <2>2, <2>3, <2>4 DEF s, r
<1>5. CASE ~(l.tail # None /\ riscv_compare_subsets(l.tail, x) < 0)
  <2>1. r = [found |-> notBefore # {} /\ s[at + 1] = x, at |-> at] BY <1>1, <1>5
  <2>2. CASE notBefore = {}
    <3>1. ASSUME NEW k \in 1 .. Len(s) PROVE riscv_compare_subsets(s[k], x) < 0
      <4>1. ~(riscv_compare_subsets(s[k], x) >= 0) BY <1>0, <2>2
      <4>2. riscv_compare_subsets(s[k], x) \in Int BY <1>0, Compare
      <4> QED BY <4>1, <4>2
    <3>2. x \notin Range(s) BY <1>0, <1>2, <3>1, Compare
    <3>3. r.found = FALSE /\ r.at = Len(s) BY <2>1, <2>2
    <3> QED BY <1>0, <3>1, <3>2, <3>3 DEF s, r
  <2>3. CASE notBefore # {}
    <3> DEFINE p == Min(notBefore)
    <3>1. p \in notBefore /\ \A k \in notBefore : p <= k
      <4>1. notBefore \in SUBSET Nat BY <1>0
      <4> QED BY <4>1, <2>3, MinFacts
    <3> HIDE DEF p
    <3>2. p \in 1 .. Len(s) /\ riscv_compare_subsets(s[p], x) >= 0 BY <1>0, <3>1
    <3>3. ASSUME NEW k \in 1 .. p - 1 PROVE riscv_compare_subsets(s[k], x) < 0
      <4>1. k \in 1 .. Len(s) /\ ~(p <= k) BY <1>0, <3>2
      <4>2. ~(riscv_compare_subsets(s[k], x) >= 0) BY <4>1, <1>0, <3>1
      <4>3. riscv_compare_subsets(s[k], x) \in Int BY <4>1, <1>0, Compare
      <4> QED BY <4>2, <4>3
    <3>4. ASSUME NEW k \in p + 1 .. Len(s) PROVE riscv_compare_subsets(s[k], x) > 0
      <4>1. k \in 1 .. Len(s) /\ p < k BY <1>0, <3>2
      <4>2. riscv_compare_subsets(s[p], s[k]) < 0 BY <4>1, <3>2, <1>3
      <4>3. riscv_compare_subsets(s[k], x) >= 0
        <5> SUFFICES ASSUME riscv_compare_subsets(s[k], x) < 0 PROVE FALSE
          BY <1>0, <4>1, Compare
        <5>1. riscv_compare_subsets(s[p], x) < 0 BY <4>1, <4>2, <3>2, <1>0, CompareTrans
        <5> QED BY <5>1, <3>2, <1>0, Compare
      <4>4. s[k] # x
        <5> SUFFICES ASSUME s[k] = x PROVE FALSE OBVIOUS
        <5> QED BY <4>2, <3>2, <1>0, Compare
      <4> QED BY <4>1, <4>3, <4>4, <1>0, Compare
    <3>5. r.found <=> s[p] = x
    <4>1. at = p - 1 /\ at + 1 = p BY <1>0, <2>3, <3>2 DEF p
    <4>2. r.found <=> (notBefore # {} /\ s[at + 1] = x) BY <2>1
    <4> HIDE DEF at, notBefore
    <4> QED BY <4>1, <4>2, <2>3
    <3>6. r.at = p - 1 BY <2>1, <2>3 DEF p
    <3>7. x \in Range(s) <=> s[p] = x
      <4>1. ASSUME NEW k \in 1 .. Len(s), s[k] = x PROVE k = p
        <5>1. CASE k < p BY <3>2, <3>3, <4>1, <5>1, Compare
        <5>2. CASE k > p BY <3>2, <3>4, <4>1, <5>2, Compare
        <5> QED BY <3>2, <5>1, <5>2
      <4> QED BY <4>1, <1>2, <3>2
    <3>8. r.at \in 0 .. Len(s) BY <3>2, <3>6, <1>0
    <3>9. \A k \in 1 .. r.at : riscv_compare_subsets(s[k], x) < 0 BY <3>3, <3>6
    <3>10. ASSUME ~r.found, NEW k \in r.at + 1 .. Len(s) PROVE riscv_compare_subsets(s[k], x) > 0
      <4>1. s[p] # x BY <3>5, <3>10
      <4>2. k = p \/ k \in p + 1 .. Len(s) BY <3>6, <3>2, <1>0
      <4>3. CASE k = p BY <4>1, <4>3, <3>2, <1>0, Compare
      <4> QED BY <4>2, <4>3, <3>4
    <3> QED BY <3>5, <3>7, <3>8, <3>9, <3>10 DEF s, r
  <2> QED BY <2>2, <2>3
<1> QED BY <1>4, <1>5

LEMMA ChainFacts ==
  ASSUME NEW l \in Chains
  PROVE  /\ l = [names |-> l.names, tail |-> l.tail, str |-> l.str]
         /\ l.names \in Seq(Names) /\ l.str \in Widths \cup {0}
         /\ Len(l.names) \in Nat
         /\ Sorted(l.names)
         /\ l.tail = IF l.names = <<>> THEN None ELSE l.names[Len(l.names)]
         /\ DOMAIN l.names = 1 .. Len(l.names)
         /\ \A k \in 1 .. Len(l.names) : l.names[k] \in Names
         /\ Range(l.names) = {l.names[k] : k \in 1 .. Len(l.names)}
BY DEF Chains, Last, Range

LEMMA SortedDistinct ==
  ASSUME NEW l \in Chains, NEW i \in 1 .. Len(l.names), NEW j \in 1 .. Len(l.names), i # j
  PROVE  l.names[i] # l.names[j]
<1> DEFINE s == l.names
<1>1. /\ \A k \in 1 .. Len(s) : s[k] \in Names
      /\ \A m, n \in 1 .. Len(s) : m < n => riscv_compare_subsets(s[m], s[n]) < 0
      /\ Len(s) \in Nat
  BY ChainFacts DEF Sorted
<1> HIDE DEF s
<1>2. i \in 1 .. Len(s) /\ j \in 1 .. Len(s) BY DEF s
<1>3. i < j \/ j < i BY <1>1, <1>2
<1>4. riscv_compare_subsets(s[i], s[j]) # 0 \/ riscv_compare_subsets(s[j], s[i]) # 0
  BY <1>1, <1>2, <1>3, Compare
<1>5. s[i] # s[j] BY <1>1, <1>2, <1>4, Compare
<1> QED BY <1>5 DEF s

LEMMA SupportsExact ==
  ASSUME NEW l \in Chains, NEW x \in Names
  PROVE  riscv_subset_supports(l, x) <=> x \in Range(l.names)
BY LookupFacts DEF riscv_subset_supports

\* Making a list from sorted names.
LEMMA MakeChain ==
  ASSUME NEW s \in Seq(Names), Sorted(s), NEW t, NEW w \in Widths \cup {0},
         t = IF s = <<>> THEN None ELSE s[Len(s)]
  PROVE  [names |-> s, tail |-> t, str |-> w] \in Chains
<1>1. t \in Names \cup {None}
  <2>1. CASE s = <<>> BY <2>1
  <2>2. CASE s # <<>>
    <3>1. Len(s) \in 1 .. Len(s) BY <2>2
    <3> QED BY <3>1, <2>2
  <2> QED BY <2>1, <2>2
<1> QED BY <1>1 DEF Chains, Last

\* Adding an extension keeps the list in order and its tail at its end.
LEMMA AddFacts ==
  ASSUME NEW l \in Chains, NEW x \in Names
  PROVE  LET a == riscv_add_subset(l, x)
         IN /\ a \in Chains
            /\ a.str = l.str
            /\ Range(a.names) = Range(l.names) \cup {x}
            /\ x \notin Range(l.names) => Len(a.names) = Len(l.names) + 1
<1> DEFINE r == riscv_lookup_subset(l, x)
           s == l.names
           a == riscv_add_subset(l, x)
<1>1. CASE r.found
  BY <1>1, LookupFacts DEF riscv_add_subset
<1>2. CASE ~r.found
  <2> DEFINE u == InsertAt(s, r.at + 1, x)
             t == IF r.at = Len(s) THEN x ELSE l.tail
  <2>0. a = [names |-> u, tail |-> t, str |-> l.str]
    <3>1. l = [names |-> l.names, tail |-> l.tail, str |-> l.str] BY ChainFacts
    <3>2. a = [l EXCEPT !.names = u, !.tail = t] BY <1>2 DEF riscv_add_subset
    <3> HIDE DEF u, t, a
    <3> QED BY <3>1, <3>2
  <2> DEFINE p == r.at + 1
  <2>1. /\ p \in 1 .. Len(s) + 1
        /\ \A k \in 1 .. p - 1 : riscv_compare_subsets(s[k], x) < 0
        /\ \A k \in p .. Len(s) : riscv_compare_subsets(s[k], x) > 0
        /\ r.at = Len(s) <=> p = Len(s) + 1
        /\ x \notin Range(s)
    <3>1. Len(s) \in Nat BY ChainFacts
    <3>2. r.at \in 0 .. Len(s) BY LookupFacts
    <3>3. p - 1 = r.at BY <3>2
    <3>4. /\ \A k \in 1 .. r.at : riscv_compare_subsets(s[k], x) < 0
          /\ \A k \in r.at + 1 .. Len(s) : riscv_compare_subsets(s[k], x) > 0
          /\ x \notin Range(s)
      BY <1>2, LookupFacts
    <3> QED BY <3>1, <3>2, <3>3, <3>4
  <2>2. u = InsertAt(s, p, x) /\ t = IF p = Len(s) + 1 THEN x ELSE l.tail BY <2>1
  <2> HIDE DEF p, u, t, r
  <2>3. /\ u \in Seq(Names) /\ Len(u) = Len(s) + 1
        /\ \A k \in 1 .. Len(s) + 1 : u[k] = IF k < p THEN s[k] ELSE IF k = p THEN x ELSE s[k - 1]
    <3>1. s \in Seq(Names) BY ChainFacts
    <3> HIDE DEF s
    <3>2. p \in 1 .. Len(s) + 1 BY <2>1
    <3>3. InsertAt(s, p, x) \in Seq(Names) BY <3>1, <3>2, InsertAtFacts
    <3>4. Len(InsertAt(s, p, x)) = Len(s) + 1 BY <3>1, <3>2, InsertAtFacts
    <3>5. \A k \in 1 .. Len(s) + 1 :
            InsertAt(s, p, x)[k] = IF k < p THEN s[k] ELSE IF k = p THEN x ELSE s[k - 1]
       BY <3>1, <3>2, InsertAtFacts
    <3> QED BY <2>2, <3>3, <3>4, <3>5
  <2>4. /\ Len(s) \in Nat /\ \A k \in 1 .. Len(s) : s[k] \in Names
        /\ \A m, n \in 1 .. Len(s) : m < n => riscv_compare_subsets(s[m], s[n]) < 0
    BY ChainFacts DEF Sorted
  <2>5. l.tail = IF s = <<>> THEN None ELSE s[Len(s)] BY ChainFacts
  <2>6. Range(s) = {s[k] : k \in 1 .. Len(s)} BY ChainFacts
  <2>7. s \in Seq(Names) /\ l.str \in Widths \cup {0} BY ChainFacts
  <2> HIDE DEF s
  <2>8. ASSUME NEW m \in 1 .. Len(s) + 1, NEW n \in 1 .. Len(s) + 1, m < n
        PROVE  riscv_compare_subsets(u[m], u[n]) < 0
    <3>1. CASE n < p BY <2>1, <2>3, <2>4, <2>8, <3>1
    <3>2. CASE n = p
      <4>1. m \in 1 .. p - 1 /\ u[m] = s[m] /\ u[n] = x BY <2>1, <2>3, <2>4, <2>8, <3>2
      <4> QED BY <4>1, <2>1
    <3>3. CASE n > p /\ m < p
      <4>1. u[m] = s[m] /\ u[n] = s[n - 1] BY <2>1, <2>3, <2>4, <2>8, <3>3
      <4>2. m < n - 1 BY <2>1, <2>4, <2>8, <3>3
      <4>3. m \in 1 .. Len(s) /\ n - 1 \in 1 .. Len(s) BY <2>1, <2>4, <2>8, <3>3
      <4> QED BY <4>1, <4>2, <4>3, <2>4
    <3>4. CASE n > p /\ m = p
      <4>1. u[m] = x /\ u[n] = s[n - 1] BY <2>1, <2>3, <2>4, <2>8, <3>4
      <4>2. n - 1 \in p .. Len(s) /\ n - 1 \in 1 .. Len(s) BY <2>1, <2>4, <2>8, <3>4
      <4> QED BY <4>1, <4>2, <2>1, <2>4, Compare
    <3>5. CASE n > p /\ m > p
      <4>1. u[m] = s[m - 1] /\ u[n] = s[n - 1] BY <2>1, <2>3, <2>4, <2>8, <3>5
      <4>2. m - 1 \in 1 .. Len(s) /\ n - 1 \in 1 .. Len(s) /\ m - 1 < n - 1
        BY <2>1, <2>4, <2>8, <3>5
      <4> QED BY <4>1, <4>2, <2>4
    <3>6. n < p \/ n = p \/ (n > p /\ m < p) \/ (n > p /\ m = p) \/ (n > p /\ m > p)
      BY <2>1, <2>4
    <3> QED BY <3>1, <3>2, <3>3, <3>4, <3>5, <3>6
  <2>9. Sorted(u) BY <2>3, <2>4, <2>8 DEF Sorted
  <2>10. u # <<>> BY <2>3, <2>4
  <2>11. t = u[Len(u)]
    <3>1. Len(s) + 1 \in 1 .. Len(s) + 1 BY <2>4
    <3>2. CASE p = Len(s) + 1 BY <2>2, <2>3, <3>1, <3>2
    <3>3. CASE p # Len(s) + 1
      <4>1. p < Len(s) + 1 /\ Len(s) + 1 - 1 = Len(s) /\ Len(s) # 0 BY <2>1, <2>4, <3>3
      <4>2. u[Len(u)] = s[Len(s)] BY <2>3, <3>1, <4>1, <2>1, <2>4
      <4>3. s # <<>> BY <4>1, <2>7
      <4> QED BY <2>2, <2>5, <3>3, <4>2, <4>3
    <3> QED BY <3>2, <3>3
  <2>12. a \in Chains BY <2>0, <2>3, <2>7, <2>9, <2>10, <2>11, MakeChain
  <2>13. Range(u) = Range(s) \cup {x}
    <3>1. Range(u) = {u[k] : k \in 1 .. Len(s) + 1} BY <2>3 DEF Range
    <3>2. ASSUME NEW k \in 1 .. Len(s) + 1 PROVE u[k] \in Range(s) \cup {x}
      <4>1. CASE k < p
        <5>1. k \in 1 .. Len(s) /\ u[k] = s[k] BY <2>1, <2>3, <2>4, <4>1
        <5> QED BY <5>1, <2>6
      <4>2. CASE k = p BY <2>3, <2>1, <4>2
      <4>3. CASE k > p
        <5>1. k - 1 \in 1 .. Len(s) /\ u[k] = s[k - 1] BY <2>1, <2>3, <2>4, <4>3
        <5> QED BY <5>1, <2>6
      <4>4. k < p \/ k = p \/ k > p BY <2>1, <2>4
      <4> QED BY <4>1, <4>2, <4>3, <4>4
    <3>3. x \in Range(u)
      <4>1. u[p] = x BY <2>1, <2>3, <2>4
      <4> QED BY <4>1, <3>1, <2>1
    <3>4. ASSUME NEW k \in 1 .. Len(s) PROVE s[k] \in Range(u)
      <4>1. CASE k < p
        <5>1. k \in 1 .. Len(s) + 1 /\ u[k] = s[k] BY <2>1, <2>3, <2>4, <4>1
        <5> QED BY <5>1, <3>1
      <4>2. CASE k >= p
        <5>1. k + 1 \in 1 .. Len(s) + 1 /\ k + 1 - 1 = k BY <2>4
        <5>2. u[k + 1] = s[k + 1 - 1] BY <5>1, <2>1, <2>3, <2>4, <4>2
        <5> QED BY <5>1, <5>2, <3>1
      <4>3. k < p \/ k >= p BY <2>1, <2>4
      <4> QED BY <4>1, <4>2, <4>3
    <3> QED BY <3>1, <3>2, <3>3, <3>4, <2>6
  <2>14. a.names = u /\ a.str = l.str BY <2>0
  <2> HIDE DEF a
  <2>15. /\ a.str = l.str
         /\ Range(a.names) = Range(s) \cup {x}
         /\ Len(a.names) = Len(s) + 1
    BY <2>3, <2>13, <2>14
  <2> QED BY <2>12, <2>15 DEF a, s
<1> QED BY <1>1, <1>2

\* Removing one does too: the tail moves to the element before.
LEMMA RemoveFacts ==
  ASSUME NEW l \in Chains, NEW x \in Names
  PROVE  LET a == riscv_remove_subset(l, x)
         IN /\ a \in Chains
            /\ a.str = l.str
            /\ Range(a.names) = Range(l.names) \ {x}
<1> DEFINE s == l.names
           a == riscv_remove_subset(l, x)
<1>1. CASE x \notin Range(s)
  <2>1. a = l BY <1>1 DEF riscv_remove_subset
  <2> QED BY <1>1, <2>1
<1>2. CASE x \in Range(s)
  <2> DEFINE p == Place(l, x)
             u == RemoveAt(s, p)
             t == IF s[Len(s)] # x THEN l.tail
                  ELSE IF Len(s) = 1 THEN None ELSE s[Len(s) - 1]
  <2>0. a = [names |-> u, tail |-> t, str |-> l.str]
    <3>1. l = [names |-> l.names, tail |-> l.tail, str |-> l.str] BY ChainFacts
    <3>2. a = [l EXCEPT !.names = u, !.tail = t] BY <1>2 DEF riscv_remove_subset, Last
    <3> HIDE DEF u, t, a
    <3> QED BY <3>1, <3>2
  <2>1. p \in 1 .. Len(s) /\ s[p] = x
    <3>1. \E i \in DOMAIN s : s[i] = x BY <1>2 DEF Range
    <3>2. DOMAIN s = 1 .. Len(s) BY ChainFacts
    <3> QED BY <3>1, <3>2 DEF Place
  <2>2. u = RemoveAt(s, p) OBVIOUS
  <2>3. /\ Len(s) \in Nat /\ \A k \in 1 .. Len(s) : s[k] \in Names
        /\ \A m, n \in 1 .. Len(s) : m < n => riscv_compare_subsets(s[m], s[n]) < 0
    BY ChainFacts DEF Sorted
  <2>4. l.tail = IF s = <<>> THEN None ELSE s[Len(s)] BY ChainFacts
  <2>5. Range(s) = {s[k] : k \in 1 .. Len(s)} BY ChainFacts
  <2>6. s \in Seq(Names) /\ l.str \in Widths \cup {0} BY ChainFacts
  <2>7. \A m, n \in 1 .. Len(s) : m # n => s[m] # s[n] BY SortedDistinct
  <2>8. t = IF s[Len(s)] # x THEN l.tail ELSE IF Len(s) = 1 THEN None ELSE s[Len(s) - 1]
    OBVIOUS
  <2> HIDE DEF s, p, u, t
  <2>9. u \in Seq(Names) BY <2>1, <2>2, <2>6, RemoveAtFacts
  <2>10. Len(u) = Len(s) - 1 BY <2>1, <2>2, <2>6, RemoveAtFacts
  <2>11. \A k \in 1 .. Len(s) - 1 : u[k] = IF k < p THEN s[k] ELSE s[k + 1]
    BY <2>1, <2>2, <2>6, RemoveAtFacts
  <2>12. DOMAIN u = 1 .. Len(s) - 1 BY <2>9, <2>10
  <2>13. ASSUME NEW k \in 1 .. Len(s) - 1
         PROVE  \E q \in 1 .. Len(s) : q # p /\ u[k] = s[q] /\ q = IF k < p THEN k ELSE k + 1
    <3>1. CASE k < p
      <4>1. k \in 1 .. Len(s) /\ k # p /\ u[k] = s[k] BY <2>1, <2>3, <2>11, <3>1
      <4> QED BY <4>1, <3>1
    <3>2. CASE ~(k < p)
      <4>1. k + 1 \in 1 .. Len(s) /\ k + 1 # p /\ u[k] = s[k + 1] BY <2>1, <2>3, <2>11, <3>2
      <4> QED BY <4>1, <3>2
    <3> QED BY <3>1, <3>2
  <2>14. Sorted(u)
    <3> SUFFICES ASSUME NEW m \in 1 .. Len(s) - 1, NEW n \in 1 .. Len(s) - 1, m < n
                 PROVE  riscv_compare_subsets(u[m], u[n]) < 0
      BY <2>12 DEF Sorted
    <3>1. PICK q \in 1 .. Len(s) : u[m] = s[q] /\ q = IF m < p THEN m ELSE m + 1 BY <2>13
    <3>2. PICK w \in 1 .. Len(s) : u[n] = s[w] /\ w = IF n < p THEN n ELSE n + 1 BY <2>13
    <3>3. q < w BY <3>1, <3>2, <2>1, <2>3
    <3> QED BY <3>1, <3>2, <3>3, <2>3
  <2>15. t = IF u = <<>> THEN None ELSE u[Len(u)]
    <3>0. u = <<>> <=> Len(s) = 1 BY <2>9, <2>10, <2>1, <2>3
    <3>1. s # <<>> /\ Len(s) \in 1 .. Len(s) BY <2>1, <2>3, <2>6
    <3>2. CASE s[Len(s)] # x
      <4>1. p # Len(s) BY <2>1, <3>2
      <4>2. Len(s) # 1 /\ Len(s) - 1 \in 1 .. Len(s) - 1 /\ ~(Len(s) - 1 < p)
        BY <2>1, <2>3, <4>1
      <4>3. u[Len(u)] = s[Len(s) - 1 + 1] BY <2>10, <2>11, <4>2
      <4>4. Len(s) - 1 + 1 = Len(s) BY <2>3
      <4> QED BY <2>4, <2>8, <3>0, <3>1, <3>2, <4>2, <4>3, <4>4
    <3>3. CASE s[Len(s)] = x
      <4>1. p = Len(s) BY <2>1, <2>7, <3>1, <3>3
      <4>2. CASE Len(s) = 1 BY <2>8, <3>0, <3>3, <4>2
      <4>3. CASE Len(s) # 1
        <5>1. Len(s) - 1 \in 1 .. Len(s) - 1 /\ Len(s) - 1 < p BY <2>1, <2>3, <4>1, <4>3
        <5>2. u[Len(u)] = s[Len(s) - 1] BY <2>10, <2>11, <5>1
        <5> QED BY <2>8, <3>0, <3>3, <4>3, <5>2
      <4> QED BY <4>2, <4>3
    <3> QED BY <3>2, <3>3
  <2>16. a \in Chains BY <2>0, <2>6, <2>9, <2>14, <2>15, MakeChain
  <2>17. Range(u) = Range(s) \ {x}
    <3>1. Range(u) = {u[k] : k \in 1 .. Len(s) - 1} BY <2>12 DEF Range
    <3>2. ASSUME NEW k \in 1 .. Len(s) - 1 PROVE u[k] \in Range(s) \ {x}
      BY <2>13, <2>5, <2>7, <2>1
    <3>3. ASSUME NEW k \in 1 .. Len(s), s[k] # x PROVE s[k] \in Range(u)
      <4>1. k # p BY <2>1, <3>3
      <4>2. CASE k < p
        <5>1. k \in 1 .. Len(s) - 1 /\ u[k] = s[k] BY <2>1, <2>3, <2>11, <4>2
        <5> QED BY <5>1, <3>1
      <4>3. CASE k > p
        <5>1. k - 1 \in 1 .. Len(s) - 1 /\ ~(k - 1 < p) /\ k - 1 + 1 = k BY <2>1, <2>3, <4>3
        <5>2. u[k - 1] = s[k - 1 + 1] BY <5>1, <2>11
        <5> QED BY <5>1, <5>2, <3>1
      <4>4. k < p \/ k > p BY <2>1, <2>3, <4>1
      <4> QED BY <4>2, <4>3, <4>4
    <3> QED BY <3>1, <3>2, <3>3, <2>5
  <2>18. a.names = u /\ a.str = l.str BY <2>0
  <2> HIDE DEF a
  <2>19. a.str = l.str /\ Range(a.names) = Range(s) \ {x} BY <2>17, <2>18
  <2> QED BY <2>16, <2>19 DEF a, s
<1> QED BY <1>1, <1>2

-----------------------------------------------------------------------------
(***************************************************************************)
(* The implied extensions.                                                 *)
(***************************************************************************)
LEMMA ImplicitFacts ==
  /\ DOMAIN Implicit = 1 .. 6
  /\ \A r \in 1 .. 6 : Implicit[r][1] \in Names /\ Implicit[r][2] \in Names
  /\ \A r \in 1 .. 6 : Implicit[r][2] # "ztso"
  /\ Implicit[1][1] = "e" /\ Implicit[1][2] = "i"
  /\ \A r \in 2 .. 6 : Implicit[r][2] # "i" /\ Implicit[r][1] # "i"
<1>2. /\ Implicit[1] = <<"e", "i">> /\ Implicit[2] = <<"zcf", "f">> /\ Implicit[3] = <<"d", "f">>
      /\ Implicit[4] = <<"f", "zicsr">> /\ Implicit[5] = <<"zfinx", "zicsr">>
      /\ Implicit[6] = <<"zcf", "zca">>
  BY DEF Implicit
<1>3. \A r \in 1 .. 6 : r = 1 \/ r = 2 \/ r = 3 \/ r = 4 \/ r = 5 \/ r = 6 OBVIOUS
<1>4. \A r \in 2 .. 6 : r = 2 \/ r = 3 \/ r = 4 \/ r = 5 \/ r = 6 OBVIOUS
<1>5. DOMAIN Implicit = 1 .. 6 BY DEF Implicit
<1>6. \A r \in 1 .. 6 : Implicit[r][1] \in Names /\ Implicit[r][2] \in Names
  BY <1>2, <1>3, ExtsFacts
<1>7. \A r \in 1 .. 6 : Implicit[r][2] # "ztso" BY <1>2, <1>3
<1>8. \A r \in 2 .. 6 : Implicit[r][2] # "i" /\ Implicit[r][1] # "i" BY <1>2, <1>4
<1> QED BY <1>2, <1>5, <1>6, <1>7, <1>8

\* Which rules a list still misses, and that none is missed exactly when it is closed.
LEMMA MissingFacts ==
  ASSUME NEW l \in Chains
  PROVE  /\ Missing(l) = {r \in 1 .. 6 : /\ Implicit[r][1] \in Range(l.names)
                                        /\ Implicit[r][2] \notin Range(l.names)}
         /\ Missing(l) # {} => Min(Missing(l)) \in Missing(l)
<1>1. Missing(l) = {r \in 1 .. 6 : /\ Implicit[r][1] \in Range(l.names)
                                   /\ Implicit[r][2] \notin Range(l.names)}
  <2>1. \A r \in 1 .. 6 : /\ riscv_subset_supports(l, Implicit[r][1]) <=> Implicit[r][1] \in Range(l.names)
                          /\ riscv_subset_supports(l, Implicit[r][2]) <=> Implicit[r][2] \in Range(l.names)
    BY ImplicitFacts, SupportsExact
  <2> QED BY <2>1, ImplicitFacts DEF Missing
<1>2. Missing(l) \in SUBSET Nat BY <1>1
<1> QED BY <1>1, <1>2, MinFacts

LEMMA AddMissingFacts ==
  ASSUME NEW l \in Chains
  PROVE  LET a == AddMissing(l)
         IN /\ a \in Chains
            /\ a.str = l.str
            /\ Missing(l) = {} => a = l
            /\ Missing(l) # {} => /\ Len(a.names) = Len(l.names) + 1
                                  /\ a = riscv_add_subset(l, Implicit[Min(Missing(l))][2])
            /\ "ztso" \in Range(a.names) <=> "ztso" \in Range(l.names)
<1>1. CASE Missing(l) = {} BY <1>1 DEF AddMissing
<1>2. CASE Missing(l) # {}
  <2> DEFINE r == Min(Missing(l))
             x == Implicit[r][2]
             a == AddMissing(l)
  <2>1. r \in 1 .. 6 /\ x \notin Range(l.names) BY <1>2, MissingFacts
  <2>2. x \in Names /\ x # "ztso" BY <2>1, ImplicitFacts
  <2>3. a = riscv_add_subset(l, x) BY <1>2 DEF AddMissing
  <2> HIDE DEF r
  <2>4. a \in Chains /\ a.str = l.str BY <2>2, <2>3, AddFacts
  <2>5. Range(a.names) = Range(l.names) \cup {x} BY <2>2, <2>3, AddFacts
  <2>6. Len(a.names) = Len(l.names) + 1 BY <2>1, <2>2, <2>3, AddFacts
  <2> QED BY <1>2, <2>2, <2>3, <2>4, <2>5, <2>6 DEF r
<1> QED BY <1>1, <1>2

LEMMA NamesFinite == IsFiniteSet(Names) /\ Cardinality(Names) \in Nat
<1> DEFINE A == {"e", "i", "f", "d", "c"}
           B == {"zicsr", "zfinx", "zca", "zcf", "ztso"}
<1>1. \A x, y, z, v, w : IsFiniteSet({x, y, z, v, w})
  <2> TAKE x, y, z, v, w
  <2>1. IsFiniteSet({x}) BY FS_Singleton
  <2>2. IsFiniteSet({x} \cup {y}) BY <2>1, FS_AddElement
  <2>3. IsFiniteSet(({x} \cup {y}) \cup {z}) BY <2>2, FS_AddElement
  <2>4. IsFiniteSet((({x} \cup {y}) \cup {z}) \cup {v}) BY <2>3, FS_AddElement
  <2>5. IsFiniteSet(((({x} \cup {y}) \cup {z}) \cup {v}) \cup {w}) BY <2>4, FS_AddElement
  <2>6. {x, y, z, v, w} = ((({x} \cup {y}) \cup {z}) \cup {v}) \cup {w} OBVIOUS
  <2> QED BY <2>5, <2>6
<1>2. IsFiniteSet(A) /\ IsFiniteSet(B) BY <1>1
<1>3. Names = A \cup B BY ExtsFacts
<1>4. IsFiniteSet(Names) BY <1>2, <1>3, FS_Union
<1> QED BY <1>4, FS_CardinalityType

\* A list as long as there are names has them all.
LEMMA FullList ==
  ASSUME NEW l \in Chains
  PROVE  /\ Len(l.names) <= Cardinality(Names)
         /\ Len(l.names) = Cardinality(Names) => Range(l.names) = Names
<1> DEFINE s == l.names
<1>1. s \in [1 .. Len(s) -> Names] /\ Len(s) \in Nat BY ChainFacts
<1>2. IsInjective(s)
  <2>1. DOMAIN s = 1 .. Len(s) BY ChainFacts
  <2>2. \A i, j \in 1 .. Len(s) : i # j => s[i] # s[j] BY SortedDistinct
  <2> HIDE DEF s
  <2> QED BY <2>1, <2>2 DEF IsInjective
<1>3. Range(s) = {s[k] : k \in 1 .. Len(s)} BY ChainFacts
<1> HIDE DEF s
<1>4. s \in Injection(1 .. Len(s), Names) BY <1>1, <1>2 DEF Injection
<1>5. Cardinality(1 .. Len(s)) = Len(s)
  <2>1. ASSUME NEW n \in Nat PROVE Cardinality(1 .. n) = n
    <3>1. Cardinality(1 .. n) = IF 1 > n THEN 0 ELSE n - 1 + 1 BY FS_Interval
    <3> QED BY <3>1
  <2> QED BY <1>1, <2>1
<1>6. /\ Cardinality(1 .. Len(s)) <= Cardinality(Names)
      /\ Cardinality(1 .. Len(s)) = Cardinality(Names) => s \in Surjection(1 .. Len(s), Names)
  BY <1>4, NamesFinite, FS_Injection
<1>7. ASSUME s \in Surjection(1 .. Len(s), Names) PROVE Range(s) = Names
  BY <1>1, <1>3, <1>7 DEF Surjection
<1> QED BY <1>5, <1>6, <1>7 DEF s

\* Applying the rules ends with a list that none of them misses.
LEMMA ImpliedFacts ==
  ASSUME NEW l \in Chains
  PROVE  LET k == riscv_parse_add_implicit_subsets(l)
         IN /\ k \in Chains
            /\ k.str = l.str
            /\ Missing(k) = {}
            /\ "ztso" \in Range(k.names) <=> "ztso" \in Range(l.names)
            /\ Missing(AddMissing(l)) = {} => k = AddMissing(l)
<1> DEFINE N == Cardinality(Names)
           G == CHOOSE g : g = [n \in 0 .. N |-> IF n = 0 THEN l ELSE AddMissing(g[n - 1])]
           step == [p \in Chains \X (1 .. N) |-> AddMissing(p[1])]
<1>0. N \in Nat /\ N # 0
  <2>1. Names # {} BY ExtsFacts
  <2> QED BY <2>1, NamesFinite, FS_EmptySet
<1>1. riscv_parse_add_implicit_subsets(l) = G[N]
  BY DEF riscv_parse_add_implicit_subsets
<1> HIDE DEF N
<1>2. G = [n \in 0 .. N |-> IF n = 0 THEN l ELSE AddMissing(G[n - 1])]
  <2>1. \A y \in Chains : \A n \in 1 .. N : step[<<y, n>>] = AddMissing(y) OBVIOUS
  <2>2. \A y \in Chains : \A n \in 1 .. N : step[<<y, n>>] \in Chains
    BY <2>1, AddMissingFacts
  <2> HIDE DEF step
  <2>3. PICK g \in [0 .. N -> Chains] :
          g[0] = l /\ \A n \in 1 .. N : g[n] = step[<<g[n - 1], n>>]
    <3>1. \E g : Iterates(g, N, Chains, l, step) BY <1>0, <2>2, RecExists DEF StaysIn
    <3> QED BY <3>1 DEF Iterates
  <2>4. \A n \in 1 .. N : g[n] = AddMissing(g[n - 1])
    <3> TAKE n \in 1 .. N
    <3>1. n - 1 \in 0 .. N BY <1>0
    <3> QED BY <3>1, <2>1, <2>3
  <2>5. \A n \in 0 .. N : n # 0 => n \in 1 .. N BY <1>0
  <2>6. g = [n \in 0 .. N |-> IF n = 0 THEN l ELSE AddMissing(g[n - 1])]
    BY <2>3, <2>4, <2>5
  <2> QED BY <2>6
<1> HIDE DEF G, step
<1>3. G[0] = l BY <1>0, <1>2
<1>4. ASSUME NEW n \in 0 .. N, n < N PROVE n + 1 \in 0 .. N /\ G[n + 1] = AddMissing(G[n])
  <2>1. n + 1 \in 0 .. N /\ n + 1 # 0 /\ n + 1 - 1 = n BY <1>0, <1>4
  <2> QED BY <2>1, <1>2
<1> DEFINE S == {n \in 0 .. N : /\ G[n] \in Chains
                                /\ G[n].str = l.str
                                /\ Missing(G[n]) = {} \/ Len(G[n].names) >= n
                                /\ "ztso" \in Range(G[n].names) <=> "ztso" \in Range(l.names)
                                /\ Missing(AddMissing(l)) = {} /\ n # 0 => G[n] = AddMissing(l)}
<1>5. 0 \in S
  <2>1. Len(l.names) >= 0 BY ChainFacts
  <2> QED BY <1>0, <1>3, <2>1
<1>6. ASSUME NEW n \in 0 .. N, n \in S, n < N PROVE n + 1 \in S
  <2> DEFINE k == G[n]
             a == AddMissing(k)
  <2>1. n + 1 \in 0 .. N /\ G[n + 1] = a BY <1>4, <1>6
  <2>2. k \in Chains /\ k.str = l.str /\ (Missing(k) = {} \/ Len(k.names) >= n) BY <1>6
  <2>3. "ztso" \in Range(k.names) <=> "ztso" \in Range(l.names) BY <1>6
  <2>4. a \in Chains /\ a.str = k.str /\ ("ztso" \in Range(a.names) <=> "ztso" \in Range(k.names))
    BY <2>2, AddMissingFacts
  <2>5. Missing(a) = {} \/ Len(a.names) >= n + 1
    <3>1. CASE Missing(k) = {}
      <4>1. a = k BY <2>2, <3>1, AddMissingFacts
      <4> QED BY <3>1, <4>1
    <3>2. CASE Missing(k) # {}
      <4>1. Len(a.names) = Len(k.names) + 1 BY <2>2, <3>2, AddMissingFacts
      <4>2. Len(k.names) \in Nat /\ Len(k.names) >= n BY <2>2, <3>2, ChainFacts
      <4> QED BY <4>1, <4>2
    <3> QED BY <3>1, <3>2
  <2>6. ASSUME Missing(AddMissing(l)) = {} PROVE a = AddMissing(l)
    <3>1. CASE n = 0 BY <1>3, <3>1
    <3>2. CASE n # 0
      <4>1. k = AddMissing(l) BY <1>6, <2>6, <3>2
      <4>2. Missing(k) = {} BY <4>1, <2>6
      <4> QED BY <2>2, <4>1, <4>2, AddMissingFacts
    <3> QED BY <3>1, <3>2
  <2> HIDE DEF k, a
  <2> QED BY <2>1, <2>2, <2>3, <2>4, <2>5, <2>6
<1> HIDE DEF S
<1>7. N \in S
  <2>1. 0 .. N \subseteq S BY <1>0, <1>5, <1>6, InductTo
  <2> QED BY <1>0, <2>1
<1>8. /\ G[N] \in Chains
      /\ G[N].str = l.str
      /\ Missing(G[N]) = {} \/ Len(G[N].names) >= N
      /\ "ztso" \in Range(G[N].names) <=> "ztso" \in Range(l.names)
      /\ Missing(AddMissing(l)) = {} => G[N] = AddMissing(l)
  BY <1>0, <1>7 DEF S
<1>9. Missing(G[N]) = {}
  <2> SUFFICES ASSUME Len(G[N].names) >= N PROVE Missing(G[N]) = {}
    BY <1>8
  <2>1. Len(G[N].names) \in Nat BY <1>8, ChainFacts
  <2>2. Len(G[N].names) <= N /\ (Len(G[N].names) = N => Range(G[N].names) = Names)
    BY <1>8, FullList DEF N
  <2>3. Range(G[N].names) = Names BY <1>0, <2>1, <2>2
  <2>4. \A r \in 1 .. 6 : Implicit[r][2] \in Range(G[N].names) BY <2>3, ImplicitFacts
  <2> QED BY <1>8, <2>4, MissingFacts
<1> QED BY <1>1, <1>8, <1>9

-----------------------------------------------------------------------------
(***************************************************************************)
(* Parsing and updating.                                                   *)
(***************************************************************************)
LEMMA EditFacts ==
  ASSUME NEW l \in Chains, NEW ed \in Edits(Names)
  PROVE  /\ Edit(l, ed) \in Chains
         /\ Edit(l, ed).str = l.str
         /\ ed.ext # "ztso" =>
              ("ztso" \in Range(Edit(l, ed).names) <=> "ztso" \in Range(l.names))
<1>1. ed.ext \in Names BY DEF Edits
<1>2. CASE ed.op = "-"
  <2>1. Edit(l, ed) = riscv_remove_subset(l, ed.ext) BY <1>2 DEF Edit
  <2>2. Range(Edit(l, ed).names) = Range(l.names) \ {ed.ext} BY <1>1, <2>1, RemoveFacts
  <2> QED BY <1>1, <2>1, <2>2, RemoveFacts
<1>3. CASE ed.op # "-"
  <2>1. Edit(l, ed) = riscv_add_subset(l, ed.ext) BY <1>3 DEF Edit
  <2>2. Range(Edit(l, ed).names) = Range(l.names) \cup {ed.ext} BY <1>1, <2>1, AddFacts
  <2> QED BY <1>1, <2>1, <2>2, AddFacts
<1> QED BY <1>2, <1>3

\* The values After takes in EditAll.
LEMMA EditAllDef ==
  ASSUME NEW l \in Chains, NEW es \in Seq(Edits(Names))
  PROVE  \E g \in [0 .. Len(es) -> Chains] :
            /\ g[0] = l
            /\ \A n \in 1 .. Len(es) : g[n] = Edit(g[n - 1], es[n])
            /\ EditAll(l, es) = g[Len(es)]
<1> DEFINE N == Len(es)
           G == CHOOSE g : g = [n \in 0 .. N |-> IF n = 0 THEN l ELSE Edit(g[n - 1], es[n])]
           step == [p \in Chains \X (1 .. N) |-> Edit(p[1], es[p[2]])]
<1>0. N \in Nat OBVIOUS
<1>1. EditAll(l, es) = G[N] BY DEF EditAll
<1>a. \A n \in 1 .. N : es[n] \in Edits(Names) OBVIOUS
<1> HIDE DEF N
<1>2. \A y \in Chains : \A n \in 1 .. N : step[<<y, n>>] = Edit(y, es[n]) OBVIOUS
<1>3. \A y \in Chains : \A n \in 1 .. N : step[<<y, n>>] \in Chains BY <1>2, <1>a, EditFacts
<1> HIDE DEF step
<1>4. PICK g \in [0 .. N -> Chains] :
        g[0] = l /\ \A n \in 1 .. N : g[n] = step[<<g[n - 1], n>>]
  <2>1. \E g : Iterates(g, N, Chains, l, step) BY <1>0, <1>3, RecExists DEF StaysIn
  <2> QED BY <2>1 DEF Iterates
<1>5. \A n \in 1 .. N : g[n] = Edit(g[n - 1], es[n])
  <2> TAKE n \in 1 .. N
  <2>1. n - 1 \in 0 .. N BY <1>0
  <2> QED BY <2>1, <1>2, <1>4
<1>6. \A n \in 0 .. N : n # 0 => n \in 1 .. N BY <1>0
<1>7. g = [n \in 0 .. N |-> IF n = 0 THEN l ELSE Edit(g[n - 1], es[n])]
  BY <1>4, <1>5, <1>6
<1>8. G = [n \in 0 .. N |-> IF n = 0 THEN l ELSE Edit(G[n - 1], es[n])]
  BY <1>7
<1> HIDE DEF G
<1>9. ASSUME NEW n \in 1 .. N PROVE n - 1 \in 0 .. N /\ G[n] = Edit(G[n - 1], es[n])
  BY <1>0, <1>8
<1>10. G[0] = l BY <1>0, <1>8
<1>11. 0 .. N \subseteq {n \in 0 .. N : G[n] \in Chains}
  <2> DEFINE S == {n \in 0 .. N : G[n] \in Chains}
  <2>1. 0 \in S BY <1>0, <1>10
  <2>2. ASSUME NEW n \in 0 .. N, n \in S, n < N PROVE n + 1 \in S
    <3>1. n + 1 \in 1 .. N /\ n + 1 - 1 = n BY <1>0, <2>2
    <3>2. G[n + 1] = Edit(G[n], es[n + 1]) BY <3>1, <1>9
    <3>3. G[n + 1] \in Chains BY <3>1, <3>2, <1>a, <2>2, EditFacts
    <3> QED BY <3>1, <3>3
  <2> HIDE DEF S
  <2>3. 0 .. N \subseteq S BY <1>0, <2>1, <2>2, InductTo
  <2> QED BY <2>3 DEF S
<1>12. G \in [0 .. N -> Chains] BY <1>8, <1>11
<1> QED BY <1>1, <1>9, <1>10, <1>12 DEF N

LEMMA EditAllFacts ==
  ASSUME NEW l \in Chains, NEW es \in Seq(Edits(Names))
  PROVE  /\ EditAll(l, es) \in Chains
         /\ EditAll(l, es).str = l.str
         /\ (\A n \in 1 .. Len(es) : es[n].ext # "ztso") =>
              ("ztso" \in Range(EditAll(l, es).names) <=> "ztso" \in Range(l.names))
<1>0. Len(es) \in Nat OBVIOUS
<1>1. PICK g \in [0 .. Len(es) -> Chains] :
            /\ g[0] = l
            /\ \A n \in 1 .. Len(es) : g[n] = Edit(g[n - 1], es[n])
            /\ EditAll(l, es) = g[Len(es)]
  BY EditAllDef
<1> DEFINE Same(k) == (\A n \in 1 .. Len(es) : es[n].ext # "ztso") =>
                         ("ztso" \in Range(k.names) <=> "ztso" \in Range(l.names))
           S == {n \in 0 .. Len(es) : g[n].str = l.str /\ Same(g[n])}
<1>2. 0 \in S BY <1>0, <1>1
<1>3. ASSUME NEW n \in 0 .. Len(es), n \in S, n < Len(es) PROVE n + 1 \in S
  <2>1. n + 1 \in 1 .. Len(es) /\ n + 1 - 1 = n /\ n + 1 \in 0 .. Len(es) BY <1>0, <1>3
  <2>2. g[n + 1] = Edit(g[n], es[n + 1]) /\ es[n + 1] \in Edits(Names) BY <2>1, <1>1
  <2>3. g[n] \in Chains OBVIOUS
  <2>4. g[n + 1].str = g[n].str BY <2>2, <2>3, EditFacts
  <2>5. es[n + 1].ext # "ztso" =>
          ("ztso" \in Range(g[n + 1].names) <=> "ztso" \in Range(g[n].names))
    BY <2>2, <2>3, EditFacts
  <2> QED BY <2>1, <2>4, <2>5, <1>3
<1> HIDE DEF S
<1>4. 0 .. Len(es) \subseteq S BY <1>0, <1>2, <1>3, InductTo
<1>5. Len(es) \in S /\ Len(es) \in 0 .. Len(es) BY <1>0, <1>4
<1>6. g[Len(es)].str = l.str /\ Same(g[Len(es)]) BY <1>5 DEF S
<1>7. g[Len(es)] \in Chains BY <1>5
<1> HIDE DEF Same
<1> QED BY <1>1, <1>6, <1>7 DEF Same

LEMMA ResetFacts ==
  ASSUME NEW l \in Chains, NEW w \in Widths
  PROVE  LET a == riscv_reset_subsets_list_arch_str(l, w)
         IN a \in Chains /\ a.names = l.names /\ a.str = w
<1> DEFINE a == riscv_reset_subsets_list_arch_str(l, w)
<1>1. l = [names |-> l.names, tail |-> l.tail, str |-> l.str] BY ChainFacts
<1>2. a = [names |-> l.names, tail |-> l.tail, str |-> w]
  BY <1>1 DEF riscv_reset_subsets_list_arch_str
<1>3. a \in Chains BY <1>2, ChainFacts, MakeChain
<1> QED BY <1>2, <1>3

\* A list that passes the checks is legal at the width it was checked for.
LEMMA CheckedFacts ==
  ASSUME NEW l \in Chains, NEW w \in Widths
  PROVE  LET c == Checked(l, w)
         IN /\ c.list \in Chains
            /\ c.xlen = w
            /\ c.ok \in BOOLEAN
            /\ c.ok => Legal(riscv_reset_subsets_list_arch_str(c.list, w))
            /\ "ztso" \in Range(c.list.names) <=> "ztso" \in Range(l.names)
<1> DEFINE k == riscv_parse_add_implicit_subsets(l)
           c == Checked(l, w)
           a == riscv_reset_subsets_list_arch_str(k, w)
<1>1. c.list = k /\ c.xlen = w /\ c.ok = riscv_parse_check_conflicts(k, w) BY DEF Checked
<1>2. /\ k \in Chains /\ Missing(k) = {}
      /\ "ztso" \in Range(k.names) <=> "ztso" \in Range(l.names)
  BY ImpliedFacts
<1> HIDE DEF k
<1>3. {"zcf", "zfinx", "f"} \subseteq Names BY ExtsFacts
<1>4. riscv_parse_check_conflicts(k, w) <=>
        /\ ~("zcf" \in Range(k.names) /\ w > 32)
        /\ ~("zfinx" \in Range(k.names) /\ "f" \in Range(k.names))
  BY <1>2, <1>3, SupportsExact DEF riscv_parse_check_conflicts
<1>5. a.names = k.names /\ a.str = w BY <1>2, ResetFacts
<1>6. \A r \in DOMAIN Implicit : Implicit[r][1] \in Range(k.names) => Implicit[r][2] \in Range(k.names)
  BY <1>2, ImplicitFacts, MissingFacts
<1>7. c.ok \in BOOLEAN BY <1>1 DEF riscv_parse_check_conflicts
<1> HIDE DEF c, a
<1>8. c.ok => Legal(a) BY <1>1, <1>4, <1>5, <1>6 DEF Legal
<1> QED BY <1>1, <1>2, <1>7, <1>8 DEF c, a

\* What comes before the first refused element of a sequence.
LEMMA KnownFacts ==
  ASSUME NEW exts \in Seq(Names \cup {Unknown})
  PROVE  LET bad == {i \in DOMAIN exts : exts[i] = Unknown}
         IN (IF bad = {} THEN exts ELSE SubSeq(exts, 1, Min(bad) - 1)) \in Seq(Names)
<1> DEFINE bad == {i \in DOMAIN exts : exts[i] = Unknown}
<1>0. Len(exts) \in Nat /\ DOMAIN exts = 1 .. Len(exts) OBVIOUS
<1>1. CASE bad = {}
  <2>1. \A i \in 1 .. Len(exts) : exts[i] \in Names BY <1>0, <1>1
  <2> QED BY <1>0, <1>1, <2>1
<1>2. CASE bad # {}
  <2> DEFINE p == Min(bad)
  <2>1. p \in bad /\ \A k \in bad : p <= k
    <3>1. bad \in SUBSET Nat BY <1>0
    <3> QED BY <1>2, <3>1, MinFacts
  <2> HIDE DEF p
  <2>2. p \in 1 .. Len(exts) BY <1>0, <2>1
  <2>3. ASSUME NEW i \in 1 .. p - 1 PROVE exts[i] \in Names
    <3>1. i \in 1 .. Len(exts) /\ ~(p <= i) BY <1>0, <2>2
    <3> QED BY <1>0, <2>1, <3>1
  <2>4. SubSeq(exts, 1, p - 1) \in Seq(Names)
    <3>1. 1 \in Int /\ p - 1 \in Int BY <2>2
    <3> QED BY <2>3, <3>1, SubSeqProperties
  <2> QED BY <1>2, <2>4 DEF p
<1> QED BY <1>1, <1>2

LEMMA UnknownFacts == Unknown \notin Names /\ "c" \in Names
BY ExtsFacts DEF Unknown

LEMMA AddAllFacts ==
  ASSUME NEW l \in Chains, NEW exts \in Seq(Names)
  PROVE  AddAll(l, exts) \in Chains /\ AddAll(l, exts).str = l.str
<1> DEFINE es == [i \in 1 .. Len(exts) |-> [op |-> "+", ext |-> exts[i]]]
<1>1. es \in Seq(Edits(Names)) BY DEF Edits
<1>2. AddAll(l, exts) = EditAll(l, es) BY DEF AddAll
<1> HIDE DEF es
<1> QED BY <1>1, <1>2, EditAllFacts

\* Parsing an ISA string into an empty list.
LEMMA ParseFacts ==
  ASSUME NEW arch \in IsaStrings, NEW w \in Widths
  PROVE  LET r == riscv_parse_subset(EmptyList, arch, w)
         IN /\ r.list \in Chains
            /\ r.xlen \in Widths
            /\ r.ok \in BOOLEAN
            /\ r.ok => Legal(riscv_reset_subsets_list_arch_str(r.list, r.xlen))
<1> DEFINE exts == arch.exts
           bad == {i \in DOMAIN exts : exts[i] = Unknown}
           known == IF bad = {} THEN exts ELSE SubSeq(exts, 1, Min(bad) - 1)
           parsed == AddAll(EmptyList, known)
           r == riscv_parse_subset(EmptyList, arch, w)
<1>0. exts \in Seq(Names \cup {Unknown}) /\ arch.xlen \in Widths \cup {0}
  BY DEF IsaStrings
<1>1. known \in Seq(Names) BY <1>0, KnownFacts
<1>2. r = CASE arch.xlen = 0 -> [ok |-> FALSE, list |-> EmptyList, xlen |-> w]
            [] arch.xlen # 0 /\ bad # {} -> [ok |-> FALSE, list |-> parsed, xlen |-> arch.xlen]
            [] OTHER -> Checked(parsed, arch.xlen)
  BY DEF riscv_parse_subset
<1> HIDE DEF known
<1>3. parsed \in Chains BY <1>1, EmptyChain, AddAllFacts
<1> HIDE DEF parsed, bad, r
<1>4. CASE arch.xlen = 0
  <2>1. r = [ok |-> FALSE, list |-> EmptyList, xlen |-> w] BY <1>2, <1>4
  <2> QED BY <2>1, EmptyChain DEF r
<1>5. CASE arch.xlen # 0 /\ bad # {}
  <2>1. r = [ok |-> FALSE, list |-> parsed, xlen |-> arch.xlen] BY <1>2, <1>5
  <2> QED BY <1>0, <1>3, <1>5, <2>1 DEF r
<1>6. CASE arch.xlen # 0 /\ bad = {}
  <2>1. r = Checked(parsed, arch.xlen) /\ arch.xlen \in Widths BY <1>0, <1>2, <1>6
  <2> QED BY <1>3, <2>1, CheckedFacts DEF r
<1> QED BY <1>4, <1>5, <1>6

\* Updating a list; .option rvc and norvc do not touch ztso.
LEMMA UpdateFacts ==
  ASSUME NEW l \in Chains, NEW es \in Seq(Edits(Names \cup {Unknown})), NEW w \in Widths
  PROVE  LET r == riscv_update_subset(l, es, w)
         IN /\ r.list \in Chains
            /\ r.xlen = w
            /\ r.ok \in BOOLEAN
            /\ r.ok => Legal(riscv_reset_subsets_list_arch_str(r.list, w))
            /\ (\A n \in 1 .. Len(es) : es[n].ext = "c") =>
                 ("ztso" \in Range(r.list.names) <=> "ztso" \in Range(l.names))
<1> DEFINE refused == {i \in DOMAIN es : es[i].ext \in {Unknown, "i", "e"}}
           p == Min(refused)
           done == IF refused = {} THEN es ELSE SubSeq(es, 1, p - 1)
           k == EditAll(l, done)
           r == riscv_update_subset(l, es, w)
<1>0. /\ Len(es) \in Nat /\ DOMAIN es = 1 .. Len(es)
      /\ \A i \in 1 .. Len(es) : es[i] \in Edits(Names \cup {Unknown})
  OBVIOUS
<1>1. \A i \in 1 .. Len(es) : i \notin refused => es[i] \in Edits(Names)
  BY <1>0 DEF Edits
<1>2. refused # {} => p \in refused /\ \A j \in refused : p <= j
  <2>1. refused \in SUBSET Nat BY <1>0
  <2> QED BY <2>1, MinFacts
<1>3. r = IF refused # {} THEN [ok |-> FALSE, list |-> k, xlen |-> w] ELSE Checked(k, w)
  BY DEF riscv_update_subset
<1>4. done = IF refused = {} THEN es ELSE SubSeq(es, 1, p - 1) OBVIOUS
<1>5. refused \subseteq 1 .. Len(es) BY <1>0
<1>6. (\A n \in 1 .. Len(es) : es[n].ext = "c") => refused = {}
  BY <1>0 DEF Unknown
<1> HIDE DEF done, p, refused
<1>7. CASE refused = {}
  <2>1. done = es BY <1>4, <1>7
  <2>2. es \in Seq(Edits(Names))
    <3>1. \A i \in 1 .. Len(es) : es[i] \in Edits(Names) BY <1>1, <1>7
    <3> QED BY <1>0, <3>1
  <2>3. k \in Chains BY <2>1, <2>2, EditAllFacts
  <2>4. r = Checked(k, w) BY <1>3, <1>7
  <2>5. (\A n \in 1 .. Len(es) : es[n].ext = "c") =>
          ("ztso" \in Range(k.names) <=> "ztso" \in Range(l.names))
    BY <2>1, <2>2, EditAllFacts
  <2> HIDE DEF k, r
  <2>6. /\ r.list \in Chains /\ r.xlen = w /\ r.ok \in BOOLEAN
        /\ r.ok => Legal(riscv_reset_subsets_list_arch_str(r.list, w))
        /\ "ztso" \in Range(r.list.names) <=> "ztso" \in Range(k.names)
    BY <2>3, <2>4, CheckedFacts
  <2> QED BY <2>5, <2>6 DEF r
<1>8. CASE refused # {}
  <2>1. done = SubSeq(es, 1, p - 1) BY <1>4, <1>8
  <2>2. p \in 1 .. Len(es) /\ p - 1 \in Int
    <3>1. p \in 1 .. Len(es) BY <1>2, <1>5, <1>8
    <3>2. Len(es) \in Nat BY <1>0
    <3> QED BY <3>1, <3>2
  <2>3. ASSUME NEW i \in 1 .. p - 1 PROVE es[i] \in Edits(Names)
    <3>1. i \in 1 .. Len(es) /\ ~(p <= i) BY <1>0, <2>2
    <3> QED BY <3>1, <1>1, <1>2, <1>8
  <2>4. done \in Seq(Edits(Names))
    <3>1. 1 \in Int OBVIOUS
    <3> QED BY <2>1, <2>2, <2>3, <3>1, SubSeqProperties
  <2>5. k \in Chains BY <2>4, EditAllFacts
  <2>6. r = [ok |-> FALSE, list |-> k, xlen |-> w] BY <1>3, <1>8
  <2> HIDE DEF k, r
  <2> QED BY <1>6, <1>8, <2>5, <2>6 DEF r
<1> QED BY <1>7, <1>8

-----------------------------------------------------------------------------
(***************************************************************************)
(* Reading back what was printed.                                          *)
(***************************************************************************)
\* An extension taken out of a list goes back to its place.
LEMMA AddBack ==
  ASSUME NEW s \in Seq(Names), Sorted(s), NEW p \in 1 .. Len(s),
         NEW k \in Chains, k.names = RemoveAt(s, p)
  PROVE  riscv_add_subset(k, s[p]).names = s
<1> DEFINE x == s[p]
           u == k.names
           r == riscv_lookup_subset(k, x)
<1>0. /\ Len(s) \in Nat /\ DOMAIN s = 1 .. Len(s) /\ \A i \in 1 .. Len(s) : s[i] \in Names
      /\ x \in Names
  OBVIOUS
<1>1. Len(u) = Len(s) - 1 BY RemoveAtFacts
<1>2. \A i \in 1 .. Len(s) - 1 : u[i] = IF i < p THEN s[i] ELSE s[i + 1] BY RemoveAtFacts
<1>3. \A i, j \in 1 .. Len(s) : i < j => riscv_compare_subsets(s[i], s[j]) < 0
  BY <1>0 DEF Sorted
<1>4. ASSUME NEW i \in 1 .. Len(s) - 1, i < p PROVE riscv_compare_subsets(u[i], x) < 0
  <2>1. i \in 1 .. Len(s) /\ u[i] = s[i] BY <1>0, <1>2, <1>4
  <2> QED BY <2>1, <1>3, <1>4
<1>5. ASSUME NEW i \in 1 .. Len(s) - 1, i >= p PROVE riscv_compare_subsets(u[i], x) > 0
  <2>1. i + 1 \in 1 .. Len(s) /\ p < i + 1 /\ u[i] = s[i + 1] BY <1>0, <1>2, <1>5
  <2>2. riscv_compare_subsets(x, s[i + 1]) < 0 BY <2>1, <1>3
  <2> QED BY <2>1, <2>2, <1>0, Compare
<1>6. x \notin Range(u)
  <2>1. Range(u) = {u[i] : i \in 1 .. Len(s) - 1} BY <1>1, ChainFacts
  <2>2. ASSUME NEW i \in 1 .. Len(s) - 1, u[i] = x PROVE FALSE
    <3>1. riscv_compare_subsets(u[i], x) # 0
      <4>1. i < p \/ i >= p BY <1>0
      <4> QED BY <4>1, <1>4, <1>5
    <3>2. riscv_compare_subsets(u[i], x) = 0 BY <2>2, <1>0, Compare
    <3> QED BY <3>1, <3>2
  <2> QED BY <2>1, <2>2
<1>7. /\ ~r.found
      /\ r.at \in 0 .. Len(s) - 1
      /\ \A i \in 1 .. r.at : riscv_compare_subsets(u[i], x) < 0
      /\ \A i \in r.at + 1 .. Len(s) - 1 : riscv_compare_subsets(u[i], x) > 0
  BY <1>0, <1>1, <1>6, LookupFacts
<1> HIDE DEF u, r
<1>8. r.at = p - 1
  <2>0. \A i \in 1 .. Len(s) - 1 : u[i] \in Names
    BY <1>1, ChainFacts DEF u
  <2>1. CASE r.at < p - 1
    <3>1. p - 1 \in 1 .. Len(s) - 1 /\ p - 1 \in r.at + 1 .. Len(s) - 1 /\ p - 1 < p
      BY <1>0, <1>7, <2>1
    <3>2. riscv_compare_subsets(u[p - 1], x) < 0 /\ riscv_compare_subsets(u[p - 1], x) > 0
      BY <3>1, <1>4, <1>7
    <3>3. riscv_compare_subsets(u[p - 1], x) \in Int BY <3>1, <2>0, <1>0, Compare
    <3> QED BY <3>2, <3>3
  <2>2. CASE r.at > p - 1
    <3>1. r.at \in 1 .. Len(s) - 1 /\ r.at \in 1 .. r.at /\ r.at >= p BY <1>0, <1>7, <2>2
    <3>2. riscv_compare_subsets(u[r.at], x) < 0 /\ riscv_compare_subsets(u[r.at], x) > 0
      BY <3>1, <1>5, <1>7
    <3>3. riscv_compare_subsets(u[r.at], x) \in Int BY <3>1, <2>0, <1>0, Compare
    <3> QED BY <3>2, <3>3
  <2> QED BY <1>0, <1>7, <2>1, <2>2
<1>9. riscv_add_subset(k, x).names = InsertAt(u, r.at + 1, x)
  <2>1. k = [names |-> k.names, tail |-> k.tail, str |-> k.str] BY ChainFacts
  <2> DEFINE v == InsertAt(u, r.at + 1, x)
             t == IF r.at = Len(u) THEN x ELSE k.tail
  <2>2. riscv_add_subset(k, x) = [k EXCEPT !.names = v, !.tail = t]
    BY <1>7 DEF riscv_add_subset, u, r
  <2> HIDE DEF v, t
  <2>3. riscv_add_subset(k, x).names = v BY <2>1, <2>2
  <2> QED BY <2>3 DEF v
<1>10. r.at + 1 = p BY <1>0, <1>8
<1>11. u \in Seq(Names) BY ChainFacts DEF u
<1>12. p \in 1 .. Len(u) + 1 BY <1>0, <1>1 DEF u
<1> DEFINE v == InsertAt(u, p, x)
<1> HIDE DEF x
<1>13. v \in Seq(Names) /\ Len(v) = Len(u) + 1 BY <1>0, <1>11, <1>12, InsertAtFacts
<1>15. \A i \in 1 .. Len(u) + 1 : v[i] = IF i < p THEN u[i] ELSE IF i = p THEN x ELSE u[i - 1]
  BY <1>0, <1>11, <1>12, InsertAtFacts
<1> HIDE DEF v
<1>16. Len(v) = Len(s) BY <1>0, <1>1, <1>13 DEF u
<1>17. ASSUME NEW i \in 1 .. Len(v) PROVE v[i] = s[i]
  <2>0. i \in 1 .. Len(s) /\ i \in 1 .. Len(u) + 1 BY <1>13, <1>16
  <2>1. CASE i < p
    <3>1. v[i] = u[i] /\ i \in 1 .. Len(s) - 1 BY <1>0, <1>15, <2>0, <2>1
    <3> QED BY <3>1, <1>2, <2>1 DEF u
  <2>2. CASE i = p
    <3>1. v[i] = x BY <1>0, <1>15, <2>0, <2>2
    <3> QED BY <3>1, <2>2 DEF x
  <2>3. CASE i > p
    <3>1. v[i] = u[i - 1] /\ i - 1 \in 1 .. Len(s) - 1 /\ ~(i - 1 < p) /\ i - 1 + 1 = i
      BY <1>0, <1>15, <2>0, <2>3
    <3> QED BY <3>1, <1>2 DEF u
  <2>4. i < p \/ i = p \/ i > p BY <1>0, <2>0
  <2> QED BY <2>1, <2>2, <2>3, <2>4
<1>18. v = s BY <1>13, <1>16, <1>17, SeqEqual
<1> QED BY <1>9, <1>10, <1>18 DEF v, x

LEMMA SameChain ==
  ASSUME NEW a \in Chains, NEW b \in Chains, a.names = b.names, a.str = b.str
  PROVE  a = b
<1>1. a.tail = b.tail BY ChainFacts
<1>2. a = [names |-> a.names, tail |-> a.tail, str |-> a.str] BY ChainFacts
<1>3. b = [names |-> b.names, tail |-> b.tail, str |-> b.str] BY ChainFacts
<1> QED BY <1>1, <1>2, <1>3

\* Adding sorted names to an empty list gives these names.
LEMMA AddSorted ==
  ASSUME NEW s \in Seq(Names), Sorted(s)
  PROVE  AddAll(EmptyList, s) \in Chains /\ AddAll(EmptyList, s).names = s
<1> DEFINE es == [i \in 1 .. Len(s) |-> [op |-> "+", ext |-> s[i]]]
           N == Len(s)
<1>0. N \in Nat OBVIOUS
<1>1. es \in Seq(Edits(Names)) /\ Len(es) = N BY DEF Edits
<1>2. AddAll(EmptyList, s) = EditAll(EmptyList, es) BY DEF AddAll
<1>3. \A i \in 1 .. N : es[i].op = "+" /\ es[i].ext = s[i] OBVIOUS
<1> HIDE DEF es
<1>4. PICK g \in [0 .. N -> Chains] :
            /\ g[0] = EmptyList
            /\ \A n \in 1 .. N : g[n] = Edit(g[n - 1], es[n])
            /\ EditAll(EmptyList, es) = g[N]
  <2> HIDE DEF N
  <2> QED BY <1>1, EmptyChain, EditAllDef
<1> DEFINE S == {n \in 0 .. N : g[n].names = SubSeq(s, 1, n)}
<1>5. 0 \in S
  <2>1. g[0].names = <<>> BY <1>4 DEF EmptyList
  <2>2. SubSeq(s, 1, 0) = <<>> BY SubSeqEmpty
  <2>3. 0 \in 0 .. N BY <1>0
  <2>4. g[0].names = SubSeq(s, 1, 0) BY <2>1, <2>2
  <2> QED BY <2>3, <2>4
<1>6. ASSUME NEW n \in 0 .. N, n \in S, n < N PROVE n + 1 \in S
  <2> DEFINE v == SubSeq(s, 1, n + 1)
  <2>0. n + 1 \in 1 .. N /\ n + 1 \in 0 .. N /\ n + 1 - 1 = n /\ n \in Int /\ n + 1 \in Int
    BY <1>0, <1>6
  <2>1. g[n + 1] = riscv_add_subset(g[n], s[n + 1])
    <3>1. g[n + 1] = Edit(g[n], es[n + 1]) BY <1>4, <2>0
    <3>2. es[n + 1].op # "-" /\ es[n + 1].ext = s[n + 1] BY <1>3, <2>0
    <3> QED BY <3>1, <3>2 DEF Edit
  <2>2. /\ v \in Seq(Names) /\ Len(v) = n + 1 /\ \A i \in 1 .. n + 1 : v[i] = s[i]
    <3>1. \A i \in 1 .. n + 1 : s[i] \in Names BY <1>0, <2>0
    <3>2. v \in Seq(Names) BY <3>1, <2>0, SubSeqProperties
    <3>3. Len(v) = IF 1 <= n + 1 THEN n + 1 - 1 + 1 ELSE 0 BY <3>1, <2>0, SubSeqProperties
    <3>4. \A i \in 1 .. n + 1 - 1 + 1 : v[i] = s[1 + i - 1] BY <3>1, <2>0, SubSeqProperties
    <3>5. n + 1 - 1 + 1 = n + 1 /\ 1 <= n + 1 BY <2>0
    <3>6. \A i \in 1 .. n + 1 : 1 + i - 1 = i OBVIOUS
    <3> QED BY <3>2, <3>3, <3>4, <3>5, <3>6
  <2> HIDE DEF v
  <2>3. Sorted(v)
    <3>1. ASSUME NEW i \in 1 .. n + 1, NEW j \in 1 .. n + 1, i < j
          PROVE  riscv_compare_subsets(v[i], v[j]) < 0
      <4>1. i \in 1 .. N /\ j \in 1 .. N BY <1>0, <2>0
      <4>2. i \in DOMAIN s /\ j \in DOMAIN s BY <4>1
      <4> QED BY <3>1, <4>2, <2>2 DEF Sorted
    <3>2. DOMAIN v = 1 .. n + 1 BY <2>2
    <3> QED BY <3>1, <3>2 DEF Sorted
  <2>4. g[n] \in Chains OBVIOUS
  <2>5. g[n].names = RemoveAt(v, n + 1)
    <3> DEFINE q == RemoveAt(v, n + 1)
               z == SubSeq(s, 1, n)
    <3>0. n + 1 \in 1 .. Len(v) BY <2>0, <2>2
    <3>1. q \in Seq(Names) BY <2>2, <3>0, RemoveAtFacts
    <3>2. Len(q) = Len(v) - 1 BY <2>2, <3>0, RemoveAtFacts
    <3>3. \A i \in 1 .. Len(v) - 1 : q[i] = IF i < n + 1 THEN v[i] ELSE v[i + 1]
      BY <2>2, <3>0, RemoveAtFacts
    <3>4. \A i \in 1 .. n : s[i] \in Names BY <1>0, <2>0
    <3>5. z \in Seq(Names) BY <3>4, <2>0, SubSeqProperties
    <3>6. Len(z) = IF 1 <= n THEN n - 1 + 1 ELSE 0 BY <3>4, <2>0, SubSeqProperties
    <3>7. \A i \in 1 .. n - 1 + 1 : z[i] = s[1 + i - 1] BY <3>4, <2>0, SubSeqProperties
    <3> HIDE DEF q, z
    <3>8. Len(q) = n /\ Len(z) = n BY <2>0, <2>2, <3>2, <3>6
    <3>9. ASSUME NEW i \in 1 .. n PROVE q[i] = z[i]
      <4>1. i \in 1 .. Len(v) - 1 /\ i < n + 1 /\ i \in 1 .. n + 1 /\ i \in 1 .. n - 1 + 1 /\ 1 + i - 1 = i
        BY <2>0, <2>2
      <4>2. q[i] = v[i] BY <4>1, <3>3
      <4>3. z[i] = s[i] BY <4>1, <3>7
      <4> QED BY <4>1, <4>2, <4>3, <2>2
    <3>10. q = z BY <3>1, <3>5, <3>8, <3>9, SeqEqual
    <3>11. g[n].names = z BY <1>6 DEF z
    <3> QED BY <3>10, <3>11 DEF q
  <2>6. n + 1 \in 1 .. Len(v) /\ v[n + 1] = s[n + 1] BY <2>0, <2>2
  <2>7. riscv_add_subset(g[n], v[n + 1]).names = v BY <2>2, <2>3, <2>4, <2>5, <2>6, AddBack
  <2>8. g[n + 1].names = v BY <2>1, <2>6, <2>7
  <2> QED BY <2>0, <2>8 DEF v
<1>7. N \in S
  <2> HIDE DEF S, N
  <2>1. 0 .. N \subseteq S BY <1>0, <1>5, <1>6, InductTo
  <2> QED BY <1>0, <2>1
<1>8. SubSeq(s, 1, N) = s
  <2>1. \A i \in 1 .. N : s[i] \in Names OBVIOUS
  <2>2. SubSeq(s, 1, N) \in Seq(Names) BY <1>0, <2>1, SubSeqProperties
  <2>3. Len(SubSeq(s, 1, N)) = IF 1 <= N THEN N - 1 + 1 ELSE 0 BY <1>0, <2>1, SubSeqProperties
  <2>4. \A i \in 1 .. N - 1 + 1 : SubSeq(s, 1, N)[i] = s[1 + i - 1] BY <1>0, <2>1, SubSeqProperties
  <2>5. Len(SubSeq(s, 1, N)) = N BY <1>0, <2>3
  <2>6. \A i \in 1 .. N : SubSeq(s, 1, N)[i] = s[i]
    <3> TAKE i \in 1 .. N
    <3>1. i \in 1 .. N - 1 + 1 /\ 1 + i - 1 = i BY <1>0
    <3> QED BY <3>1, <2>4
  <2> QED BY <2>2, <2>5, <2>6, SeqEqual
<1>9. g[N] \in Chains /\ g[N].names = s BY <1>0, <1>7, <1>8
<1> QED BY <1>2, <1>4, <1>9

\* The string printed for a legal list is accepted and gives the list back.
LEMMA ReadBack ==
  ASSUME NEW l \in Chains \cup WildCopies, Legal(l)
  PROVE  LET r == riscv_parse_subset(EmptyList, riscv_arch_str(l), 32)
         IN r.ok /\ r.list.names = l.names
<1> DEFINE s == l.names
           arch == riscv_arch_str(l)
           exts == IF {"e", "i"} \subseteq Range(s) THEN RemoveAt(s, Place(l, "i")) ELSE s
           c == [names |-> s, tail |-> IF s = <<>> THEN None ELSE s[Len(s)], str |-> 0]
           k == AddAll(EmptyList, exts)
           m == riscv_parse_add_implicit_subsets(k)
<1>0. s \in Seq(Names) /\ Sorted(s) /\ DOMAIN s = 1 .. Len(s) /\ Len(s) \in Nat
  <2>1. CASE l \in Chains BY <2>1, ChainFacts
  <2>2. CASE l \in WildCopies
    <3>1. s = <<>> BY <2>2 DEF WildCopies
    <3> QED BY <3>1 DEF Sorted
  <2> QED BY <2>1, <2>2
<1>1. /\ l.str \in Widths
      /\ \A r \in 1 .. 6 : Implicit[r][1] \in Range(s) => Implicit[r][2] \in Range(s)
      /\ ~("zcf" \in Range(s) /\ l.str > 32)
      /\ ~("zfinx" \in Range(s) /\ "f" \in Range(s))
  BY ImplicitFacts DEF Legal
<1>2. arch.xlen = l.str /\ arch.exts = exts BY DEF riscv_arch_str
<1>3. c \in Chains /\ c.names = s /\ c.str = 0 BY <1>0, MakeChain
<1>4. "i" \in Names /\ "zcf" \in Names /\ "zfinx" \in Names /\ "f" \in Names BY ExtsFacts
<1>5. /\ exts \in Seq(Names) /\ k \in Chains /\ k.str = 0
      /\ Missing(AddMissing(k)) = {} /\ AddMissing(k).names = s
  <2>1. CASE ~({"e", "i"} \subseteq Range(s))
    <3>1. exts = s BY <2>1
    <3>2. k \in Chains /\ k.names = s /\ k.str = 0
      <4>1. k = AddAll(EmptyList, s) BY <3>1
      <4>2. AddAll(EmptyList, s).str = EmptyList.str BY <1>0, EmptyChain, AddAllFacts
      <4>3. EmptyList.str = 0 BY DEF EmptyList
      <4> QED BY <1>0, <4>1, <4>2, <4>3, AddSorted
    <3> HIDE DEF k
    <3>3. Missing(k) = {} BY <1>1, <3>2, MissingFacts
    <3>4. AddMissing(k) = k BY <3>2, <3>3, AddMissingFacts
    <3> QED BY <1>0, <3>1, <3>2, <3>3, <3>4
  <2>2. CASE {"e", "i"} \subseteq Range(s)
    <3> DEFINE p == Place(l, "i")
               u == RemoveAt(s, p)
               d == riscv_remove_subset(c, "i")
    <3>1. exts = u BY <2>2
    <3>2. p \in 1 .. Len(s) /\ s[p] = "i"
      <4>1. \E i \in DOMAIN s : s[i] = "i" BY <2>2 DEF Range
      <4> QED BY <1>0, <4>1 DEF Place
    <3>3. d \in Chains /\ Range(d.names) = Range(s) \ {"i"} BY <1>3, <1>4, RemoveFacts
    <3>4. d.names = u
      <4>1. Place(c, "i") = p BY <1>3 DEF Place
      <4>2. d.names = RemoveAt(c.names, Place(c, "i"))
        <5>1. "i" \in Range(c.names) BY <1>3, <2>2
        <5> HIDE DEF c
        <5>2. c = [names |-> c.names, tail |-> c.tail, str |-> c.str] BY <1>3, ChainFacts
        <5> QED BY <5>1, <5>2 DEF riscv_remove_subset
      <4> QED BY <1>3, <4>1, <4>2
    <3>5. u \in Seq(Names) /\ Sorted(u) BY <3>3, <3>4, ChainFacts
    <3> HIDE DEF p, u, d, c
    <3>6. k \in Chains /\ k.names = u /\ k.str = 0
      <4>1. k = AddAll(EmptyList, u) BY <3>1
      <4>2. AddAll(EmptyList, u).str = EmptyList.str BY <3>5, EmptyChain, AddAllFacts
      <4>3. EmptyList.str = 0 BY DEF EmptyList
      <4> QED BY <3>5, <4>1, <4>2, <4>3, AddSorted
    <3> HIDE DEF k
    <3>7. Range(k.names) = Range(s) \ {"i"} BY <3>3, <3>4, <3>6
    <3>8. Missing(k) = {1}
      <4>1. \A r \in 1 .. 6 : r = 1 \/ r \in 2 .. 6 OBVIOUS
      <4>2. \A r \in 2 .. 6 : /\ Implicit[r][1] # "i" /\ Implicit[r][2] # "i" /\ r \in 1 .. 6 BY ImplicitFacts
      <4>3. 1 \in 1 .. 6 /\ Implicit[1][1] = "e" /\ Implicit[1][2] = "i" BY ImplicitFacts
      <4>4. \A r \in 1 .. 6 : r \in Missing(k) <=> /\ Implicit[r][1] \in Range(k.names)
                                                   /\ Implicit[r][2] \notin Range(k.names)
        BY <3>6, MissingFacts
      <4>5. 1 \in Missing(k) BY <2>2, <3>7, <4>3, <4>4
      <4>6. \A r \in 2 .. 6 : r \notin Missing(k) BY <1>1, <3>7, <4>2, <4>4
      <4>7. Missing(k) \subseteq 1 .. 6 BY <3>6, MissingFacts
      <4> QED BY <4>1, <4>5, <4>6, <4>7
    <3>9. Min(Missing(k)) = 1
      <4>1. Min(Missing(k)) \in Missing(k) BY <3>6, <3>8, MissingFacts
      <4> QED BY <3>8, <4>1
    <3>10. AddMissing(k) = riscv_add_subset(k, "i")
      BY <3>6, <3>8, <3>9, AddMissingFacts, ImplicitFacts
    <3>11. riscv_add_subset(k, s[p]).names = s
      BY <1>0, <3>2, <3>6, AddBack DEF u
    <3>12. AddMissing(k).names = s BY <3>2, <3>10, <3>11
    <3>13. AddMissing(k) \in Chains BY <3>6, AddMissingFacts
    <3>14. Missing(AddMissing(k)) = {} BY <1>1, <3>12, <3>13, MissingFacts
    <3> QED BY <3>1, <3>5, <3>6, <3>12, <3>14
  <2> QED BY <2>1, <2>2
<1> HIDE DEF exts, k
<1>6. m = AddMissing(k) /\ m \in Chains /\ m.names = s BY <1>5, ImpliedFacts
<1> HIDE DEF m
<1>7. riscv_parse_check_conflicts(m, l.str)
  BY <1>1, <1>4, <1>6, SupportsExact DEF riscv_parse_check_conflicts
<1>8. {i \in DOMAIN exts : exts[i] = Unknown} = {}
  <2>1. \A i \in DOMAIN exts : exts[i] \in Names BY <1>5
  <2> QED BY <2>1, UnknownFacts
<1>9. riscv_parse_subset(EmptyList, arch, 32) = Checked(k, l.str)
  <2>1. arch.xlen # 0 BY <1>1, <1>2 DEF Widths
  <2> HIDE DEF arch
  <2> QED BY <1>2, <1>8, <2>1 DEF riscv_parse_subset, k
<1>10. Checked(k, l.str).ok /\ Checked(k, l.str).list = m BY <1>7 DEF Checked, m
<1> QED BY <1>6, <1>9, <1>10

-----------------------------------------------------------------------------
(***************************************************************************)
(* The inductive invariant.                                                *)
(***************************************************************************)
AnyList == Chains \cup WildCopies

LEMMA CopyFacts ==
  ASSUME NEW l \in AnyList, NEW c \in riscv_copy_subset_list(l)
  PROVE  c \in AnyList /\ c.names = l.names /\ c.str = l.str
<1>0. l = [names |-> l.names, tail |-> l.tail, str |-> l.str] /\ l.str \in Widths \cup {0}
  <2>1. CASE l \in Chains BY <2>1, ChainFacts
  <2>2. CASE l \in WildCopies BY <2>2 DEF WildCopies
  <2> QED BY <2>1, <2>2 DEF AnyList
<1>1. PICK t : c = [l EXCEPT !.tail = t] /\ t \in IF l.names = <<>> THEN {None, Wild} ELSE {Last(l.names)}
  BY DEF riscv_copy_subset_list
<1>2. c = [names |-> l.names, tail |-> t, str |-> l.str] BY <1>0, <1>1
<1>3. CASE l.names = <<>>
  <2>1. t = None \/ t = Wild BY <1>1, <1>3
  <2>2. Sorted(<<>>) BY DEF Sorted
  <2>3. CASE t = None
    <3>1. c = [names |-> <<>>, tail |-> t, str |-> l.str] BY <1>2, <1>3
    <3>2. <<>> \in Seq(Names) OBVIOUS
    <3>3. c \in Chains BY <1>0, <2>2, <2>3, <3>1, <3>2, MakeChain
    <3> QED BY <1>2, <3>3 DEF AnyList
  <2>4. CASE t = Wild
    <3>1. c \in WildCopies BY <1>0, <1>2, <1>3, <2>4 DEF WildCopies
    <3> QED BY <1>2, <3>1 DEF AnyList
  <2> QED BY <2>1, <2>3, <2>4
<1>4. CASE l.names # <<>>
  <2>1. l \in Chains BY <1>4 DEF AnyList, WildCopies
  <2>2. t = l.names[Len(l.names)] BY <1>1, <1>4 DEF Last
  <2>3. c = l BY <1>0, <1>2, <1>4, <2>1, <2>2, ChainFacts
  <2> QED BY <2>1, <2>3 DEF AnyList
<1> QED BY <1>3, <1>4

\* There is a number for the copy that no open push has.
LEMMA FreshFacts ==
  ASSUME NEW q \in Seq(Pushed), Len(q) <= MaxDepth
  PROVE  LET fresh == Min(Ids \ {q[i].list : i \in DOMAIN q})
         IN fresh \in Ids /\ \A i \in 1 .. Len(q) : q[i].list # fresh
<1> DEFINE used == {q[i].list : i \in DOMAIN q}
           f == [i \in 1 .. Len(q) |-> q[i].list]
<1>0. /\ Len(q) \in Nat /\ DOMAIN q = 1 .. Len(q)
      /\ \A i \in 1 .. Len(q) : q[i].list \in Ids
  <2>1. \A i \in 1 .. Len(q) : q[i] \in Pushed OBVIOUS
  <2>2. \A x \in Pushed : x.list \in Ids BY DEF Pushed
  <2> QED BY <2>1, <2>2
<1>1. MaxDepth \in Nat BY JobsAssumption
<1>2. Ids \ used # {}
  <2> SUFFICES ASSUME Ids \subseteq used PROVE FALSE OBVIOUS
  <2>1. f \in [1 .. Len(q) -> Ids] BY <1>0
  <2>2. \A n \in Ids : \E i \in 1 .. Len(q) : f[i] = n BY <1>0
  <2> HIDE DEF f
  <2>3. f \in Surjection(1 .. Len(q), Ids) BY <2>1, <2>2 DEF Surjection
  <2>4. ExistsSurjection(1 .. Len(q), Ids) BY <2>3 DEF ExistsSurjection
  <2>5. Cardinality(Ids) <= Len(q) BY <1>0, <2>4, FS_SurjCardinalityBound
  <2>6. Cardinality(Ids) = MaxDepth + 1
    <3>1. Cardinality(0 .. MaxDepth) = IF 0 > MaxDepth THEN 0 ELSE MaxDepth - 0 + 1
      BY <1>1, FS_Interval
    <3> QED BY <1>1, <3>1 DEF Ids
  <2> QED BY <1>0, <1>1, <2>5, <2>6
<1>3. Ids \ used \in SUBSET Nat BY <1>1 DEF Ids
<1>4. Min(Ids \ used) \in Ids \ used BY <1>2, <1>3, MinFacts
<1> QED BY <1>0, <1>4

LEMMA ListsFacts ==
  ASSUME TypeOK, NEW n \in Ids
  PROVE  /\ lists[n] \in AnyList
         /\ lists[n].tail # Wild => lists[n] \in Chains
  BY DEF TypeOK, AnyList, WildCopies

LEMMA LiveFacts ==
  ASSUME TypeOK
  PROVE  /\ DOMAIN riscv_opts_stack = 1 .. Len(riscv_opts_stack)
         /\ \A i \in 1 .. Len(riscv_opts_stack) :
              /\ riscv_opts_stack[i].list \in Ids
              /\ riscv_opts_stack[i].options \in Options
         /\ Live \subseteq Ids
<1>1. DOMAIN riscv_opts_stack = 1 .. Len(riscv_opts_stack) BY DEF TypeOK
<1>2. \A i \in 1 .. Len(riscv_opts_stack) :
              /\ riscv_opts_stack[i].list \in Ids
              /\ riscv_opts_stack[i].options \in Options
  <2>1. \A i \in 1 .. Len(riscv_opts_stack) : riscv_opts_stack[i] \in Pushed BY DEF TypeOK
  <2>2. \A x \in Pushed : x.list \in Ids /\ x.options \in Options BY DEF Pushed
  <2> QED BY <2>1, <2>2
<1> QED BY <1>1, <1>2 DEF TypeOK, Live

\* The list in force is replaced, the flags follow it and nothing is taken back.
LEMMA IsaStep ==
  ASSUME IInv, NEW k \in Chains, phase = "asm",
         lists' = [lists EXCEPT ![subset_list] = k],
         UNCHANGED <<subset_list, riscv_opts_stack, pushed, phase, code>>,
         elf_flags.rvc => elf_flags'.rvc, elf_flags.tso => elf_flags'.tso,
         riscv_opts'.rvc => elf_flags'.rvc, "ztso" \in Range(k.names) => elf_flags'.tso,
         errors => errors', ~errors' => Legal(k)
  PROVE  StackKept' /\ Announced' /\ FlagsCoverCode' /\ AbiSupported' /\ LegalLists'
<1>0. TypeOK BY DEF IInv
<1>1. lists \in [Ids -> AnyList] /\ subset_list \in Ids BY <1>0 DEF TypeOK, AnyList
<1>2. lists'[subset_list] = k /\ \A n \in Ids : n # subset_list => lists'[n] = lists[n] BY <1>1
<1>3. StackKept' BY <1>0, <1>2, LiveFacts DEF IInv, StackKept
<1>4. Live' = Live BY DEF Live
<1>5. Announced'
  <2>1. \A n \in Live : "ztso" \in Range(lists'[n].names) => elf_flags'.tso
    BY <1>0, <1>2, LiveFacts DEF IInv, Announced
  <2>2. \A i \in 1 .. Len(riscv_opts_stack) : riscv_opts_stack[i].options.rvc => elf_flags'.rvc
    BY DEF IInv, Announced
  <2> QED BY <1>4, <2>1, <2>2 DEF Announced
<1>6. FlagsCoverCode' BY DEF IInv, FlagsCoverCode
<1>7. AbiSupported' BY DEF AbiSupported
<1>8. LegalLists'
  <2>1. ASSUME ~errors', NEW n \in Live PROVE Legal(lists'[n])
    <3>1. CASE n = subset_list BY <1>2, <2>1, <3>1
    <3>2. CASE n # subset_list
      <4>1. Legal(lists[n]) BY <2>1 DEF IInv, LegalLists
      <4>2. lists'[n] = lists[n] BY <1>0, <1>2, <3>2, LiveFacts
      <4> QED BY <4>1, <4>2
    <3> QED BY <3>1, <3>2
  <2> QED BY <1>4, <2>1 DEF LegalLists
<1> QED BY <1>3, <1>5, <1>6, <1>7, <1>8

\* Nothing but the flags of the options and the file's own state changes.
LEMMA SteadyStep ==
  ASSUME IInv, phase' # "written",
         UNCHANGED <<lists, subset_list, riscv_opts_stack, pushed, code>>,
         riscv_opts'.rvc = riscv_opts.rvc,
         elf_flags.rvc => elf_flags'.rvc, elf_flags.tso => elf_flags'.tso,
         errors => errors'
  PROVE  StackKept' /\ Announced' /\ FlagsCoverCode' /\ AbiSupported' /\ LegalLists'
<1>1. Live' = Live BY DEF Live
<1>2. StackKept' BY DEF IInv, StackKept
<1>3. Announced' BY <1>1 DEF IInv, Announced
<1>4. FlagsCoverCode' BY DEF IInv, FlagsCoverCode
<1>5. AbiSupported' BY DEF AbiSupported
<1>6. LegalLists' BY <1>1 DEF IInv, LegalLists
<1> QED BY <1>2, <1>3, <1>4, <1>5, <1>6

LEMMA FlagsFacts ==
  ASSUME NEW e \in ElfFlags, NEW v \in BOOLEAN, NEW l
  PROVE  LET f == riscv_set_tso(riscv_set_rvc(e, v), l)
             g == riscv_set_rvc(e, v)
         IN /\ f \in ElfFlags /\ g \in ElfFlags
            /\ e.rvc => f.rvc /\ g.rvc
            /\ e.tso => f.tso /\ g.tso
            /\ v => f.rvc /\ g.rvc
            /\ riscv_subset_supports(l, "ztso") => f.tso
            /\ f.float = e.float /\ g.float = e.float
BY DEF ElfFlags, riscv_set_tso, riscv_set_rvc

LEMMA CompressedBool ==
  ASSUME NEW l \in Chains
  PROVE  Compressed(l) \in BOOLEAN
BY DEF Compressed

\* A parsed or updated list comes into force.
LEMMA NewIsaStep ==
  ASSUME IInv, NEW r, NewIsa(r), phase = "asm",
         UNCHANGED <<riscv_opts_stack, pushed, phase, code>>,
         r.list \in Chains, r.xlen \in Widths, r.ok \in BOOLEAN,
         r.ok => Legal(riscv_reset_subsets_list_arch_str(r.list, r.xlen))
  PROVE  /\ StackKept' /\ Announced' /\ FlagsCoverCode' /\ AbiSupported' /\ LegalLists'
         /\ lists' \in [Ids -> Chains \cup WildCopies] /\ subset_list' \in Ids
         /\ riscv_opts' \in Options /\ xlen' \in Widths /\ elf_flags' \in ElfFlags
         /\ errors' \in BOOLEAN
<1> DEFINE k == riscv_reset_subsets_list_arch_str(r.list, r.xlen)
           v == Compressed(r.list)
<1>0. TypeOK BY DEF IInv
<1>1. k \in Chains /\ k.names = r.list.names BY ResetFacts
<1>2. /\ lists' = [lists EXCEPT ![subset_list] = k]
      /\ xlen' = r.xlen
      /\ riscv_opts' = [riscv_opts EXCEPT !.rvc = v]
      /\ elf_flags' = riscv_set_tso(riscv_set_rvc(elf_flags, v), r.list)
      /\ errors' = (errors \/ ~r.ok)
      /\ subset_list' = subset_list
  BY DEF NewIsa
<1>3. v \in BOOLEAN BY CompressedBool
<1> HIDE DEF k, v
<1>4. riscv_opts' \in Options /\ riscv_opts'.rvc = v BY <1>0, <1>2, <1>3 DEF TypeOK, Options
<1>5. elf_flags \in ElfFlags BY <1>0 DEF TypeOK
<1>6. /\ elf_flags' \in ElfFlags
      /\ elf_flags.rvc => elf_flags'.rvc
      /\ elf_flags.tso => elf_flags'.tso
      /\ v => elf_flags'.rvc
      /\ riscv_subset_supports(r.list, "ztso") => elf_flags'.tso
  BY <1>2, <1>3, <1>5, FlagsFacts
<1>7. "ztso" \in Names BY ExtsFacts
<1>8. "ztso" \in Range(k.names) => elf_flags'.tso BY <1>1, <1>6, <1>7, SupportsExact
<1>9. ~errors' => Legal(k) BY <1>2 DEF k
<1>10. errors => errors' BY <1>2
<1>11. StackKept' /\ Announced' /\ FlagsCoverCode' /\ AbiSupported' /\ LegalLists'
  BY <1>1, <1>2, <1>4, <1>6, <1>8, <1>9, <1>10, IsaStep
<1>12. lists' \in [Ids -> Chains \cup WildCopies] /\ subset_list' \in Ids
  BY <1>0, <1>1, <1>2 DEF TypeOK
<1>13. errors' \in BOOLEAN BY <1>0, <1>2 DEF TypeOK
<1> QED BY <1>2, <1>4, <1>6, <1>11, <1>12, <1>13

LEMMA InitIInv == Init => IInv
<1> SUFFICES ASSUME Init PROVE IInv OBVIOUS
<1>1. PICK j \in Jobs : \E m \in j.march, a \in j.mabi :
    \E r \in {riscv_parse_subset(EmptyList, m, 32)} :
       /\ job = j
       /\ lists = [n \in Ids |-> IF n = 0 THEN riscv_reset_subsets_list_arch_str(r.list, r.xlen)
                                 ELSE EmptyList]
       /\ subset_list = 0
       /\ riscv_opts = [rvc |-> Compressed(r.list), relax |-> TRUE]
       /\ riscv_opts_stack = <<>>
       /\ xlen = r.xlen
       /\ mach = r.xlen
       /\ abi = a
       /\ elf_flags = riscv_set_tso(
                        riscv_set_rvc([rvc |-> FALSE, tso |-> FALSE, rve |-> FALSE,
                                       float |-> "default"], Compressed(r.list)), r.list)
       /\ start_assemble = FALSE
       /\ errors = ~r.ok
       /\ phase = "asm"
       /\ code = {}
       /\ pushed = <<>>
       /\ lines = 0
  BY DEF Init
<1>2. PICK m \in j.march, a \in j.mabi :
    \E r \in {riscv_parse_subset(EmptyList, m, 32)} :
       /\ job = j
       /\ lists = [n \in Ids |-> IF n = 0 THEN riscv_reset_subsets_list_arch_str(r.list, r.xlen)
                                 ELSE EmptyList]
       /\ subset_list = 0
       /\ riscv_opts = [rvc |-> Compressed(r.list), relax |-> TRUE]
       /\ riscv_opts_stack = <<>>
       /\ xlen = r.xlen
       /\ mach = r.xlen
       /\ abi = a
       /\ elf_flags = riscv_set_tso(
                        riscv_set_rvc([rvc |-> FALSE, tso |-> FALSE, rve |-> FALSE,
                                       float |-> "default"], Compressed(r.list)), r.list)
       /\ start_assemble = FALSE
       /\ errors = ~r.ok
       /\ phase = "asm"
       /\ code = {}
       /\ pushed = <<>>
       /\ lines = 0
  BY <1>1
<1> DEFINE r == riscv_parse_subset(EmptyList, m, 32)
           k == riscv_reset_subsets_list_arch_str(r.list, r.xlen)
           e == [rvc |-> FALSE, tso |-> FALSE, rve |-> FALSE, float |-> "default"]
           v == Compressed(r.list)
<1>3. m \in IsaStrings /\ a \in Abis /\ MaxDepth \in Nat BY JobsAssumption
<1>4. r.list \in Chains /\ r.xlen \in Widths /\ r.ok \in BOOLEAN /\ (r.ok => Legal(k))
  BY <1>3, ParseFacts DEF Widths
<1>5. k \in Chains /\ k.names = r.list.names BY <1>4, ResetFacts
<1>6. /\ job = j
      /\ lists = [n \in Ids |-> IF n = 0 THEN k ELSE EmptyList]
      /\ subset_list = 0
      /\ riscv_opts = [rvc |-> v, relax |-> TRUE]
      /\ riscv_opts_stack = <<>>
      /\ xlen = r.xlen /\ mach = r.xlen /\ abi = a
      /\ elf_flags = riscv_set_tso(riscv_set_rvc(e, v), r.list)
      /\ start_assemble = FALSE /\ errors = ~r.ok /\ phase = "asm" /\ code = {}
      /\ pushed = <<>> /\ lines = 0
  BY <1>2
<1> HIDE DEF r, k, v, e
<1>7. e \in ElfFlags BY DEF e, ElfFlags, FloatAbis
<1>8. v \in BOOLEAN BY <1>4, CompressedBool DEF v
<1>9. elf_flags \in ElfFlags /\ (v => elf_flags.rvc) /\ (riscv_subset_supports(r.list, "ztso") => elf_flags.tso)
  BY <1>6, <1>7, <1>8, FlagsFacts
<1>10. 0 \in Ids /\ lists[0] = k BY <1>3, <1>6 DEF Ids
<1>11. TypeOK
  <2>1. lists \in [Ids -> Chains \cup WildCopies] BY <1>5, <1>6, EmptyChain
  <2>2. riscv_opts \in Options BY <1>6, <1>8 DEF Options
  <2>3. riscv_opts_stack \in Seq(Pushed) /\ Len(riscv_opts_stack) <= MaxDepth BY <1>3, <1>6
  <2>4. pushed \in Seq([options : Options, names : Seq(Names), xlen : Widths]) BY <1>6
  <2> QED BY <1>3, <1>4, <1>6, <1>9, <1>10, <2>1, <2>2, <2>3, <2>4 DEF TypeOK
<1>12. Live = {0} BY <1>6 DEF Live
<1>13. StackKept BY <1>6 DEF StackKept
<1>14. "ztso" \in Names BY ExtsFacts
<1>15. Announced
  <2>1. "ztso" \in Range(k.names) => elf_flags.tso BY <1>4, <1>5, <1>9, <1>14, SupportsExact
  <2>2. riscv_opts.rvc => elf_flags.rvc BY <1>6, <1>9
  <2> QED BY <1>6, <1>10, <1>12, <2>1, <2>2 DEF Announced
<1>16. FlagsCoverCode /\ AbiSupported BY <1>6 DEF FlagsCoverCode, AbiSupported
<1>17. LegalLists BY <1>4, <1>6, <1>10, <1>12 DEF LegalLists
<1> QED BY <1>11, <1>13, <1>15, <1>16, <1>17 DEF IInv

LEMMA RvcStep ==
  ASSUME IInv, NEW on \in BOOLEAN, option_rvc(on), UNCHANGED job
  PROVE  IInv'
<1> DEFINE es == <<[op |-> IF on THEN "+" ELSE "-", ext |-> "c"]>>
           r == riscv_update_subset(list, es, xlen)
           k == riscv_reset_subsets_list_arch_str(r.list, xlen)
<1>0. TypeOK BY DEF IInv
<1>1. list \in Chains BY <1>0, ListsFacts DEF option_rvc, NotWild, list, TypeOK
<1>2. xlen \in Widths BY <1>0 DEF TypeOK
<1>3. /\ es \in Seq(Edits(Names \cup {Unknown}))
      /\ \A n \in 1 .. Len(es) : es[n].ext = "c"
  BY UnknownFacts DEF Edits
<1>4. /\ lists' = [lists EXCEPT ![subset_list] = k]
      /\ riscv_opts' = [riscv_opts EXCEPT !.rvc = on]
      /\ elf_flags' = riscv_set_rvc(elf_flags, on)
      /\ errors' = (errors \/ ~r.ok)
  BY DEF option_rvc
<1>5. /\ phase = "asm" /\ lines' = lines + 1
      /\ UNCHANGED <<subset_list, xlen, riscv_opts_stack, mach, abi, start_assemble, phase, code, pushed>>
  BY DEF option_rvc, Line
<1> HIDE DEF es
<1>6. /\ r.list \in Chains /\ r.ok \in BOOLEAN
      /\ r.ok => Legal(k)
      /\ "ztso" \in Range(r.list.names) <=> "ztso" \in Range(list.names)
  BY <1>1, <1>2, <1>3, UpdateFacts
<1> HIDE DEF r
<1>7. k \in Chains /\ k.names = r.list.names BY <1>2, <1>6, ResetFacts
<1> HIDE DEF k
<1>8. riscv_opts' \in Options /\ riscv_opts'.rvc = on BY <1>0, <1>4 DEF TypeOK, Options
<1>9. /\ elf_flags' \in ElfFlags
      /\ elf_flags.rvc => elf_flags'.rvc
      /\ elf_flags.tso => elf_flags'.tso
      /\ on => elf_flags'.rvc
  <2>1. elf_flags \in ElfFlags BY <1>0 DEF TypeOK
  <2> QED BY <1>4, <2>1, FlagsFacts
<1>10. "ztso" \in Range(k.names) => elf_flags'.tso
  <2>1. "ztso" \in Range(list.names) => elf_flags.tso BY DEF IInv, Announced, Live, list
  <2> QED BY <1>6, <1>7, <1>9, <2>1
<1>11. (~errors' => Legal(k)) /\ (errors => errors') /\ errors' \in BOOLEAN
  BY <1>0, <1>4, <1>6 DEF TypeOK
<1>12. StackKept' /\ Announced' /\ FlagsCoverCode' /\ AbiSupported' /\ LegalLists'
  BY <1>4, <1>5, <1>7, <1>8, <1>9, <1>10, <1>11, IsaStep
<1>13. TypeOK' BY <1>0, <1>4, <1>5, <1>7, <1>8, <1>9, <1>11 DEF TypeOK
<1> QED BY <1>12, <1>13 DEF IInv

LEMMA ArchEditStep ==
  ASSUME IInv, NEW edits \in job.edits, option_arch_edit(edits), UNCHANGED job
  PROVE  IInv'
<1> DEFINE r == riscv_update_subset(list, edits, xlen)
<1>0. TypeOK BY DEF IInv
<1>1. list \in Chains BY <1>0, ListsFacts DEF option_arch_edit, NotWild, list, TypeOK
<1>2. xlen \in Widths /\ edits \in Seq(Edits(Names \cup {Unknown})) BY <1>0, JobsAssumption DEF TypeOK
<1>3. /\ NewIsa(r) /\ phase = "asm" /\ lines' = lines + 1
      /\ UNCHANGED <<riscv_opts_stack, mach, abi, start_assemble, phase, code, pushed>>
  BY DEF option_arch_edit, Line
<1>4. /\ r.list \in Chains /\ r.ok \in BOOLEAN /\ r.xlen = xlen
      /\ r.ok => Legal(riscv_reset_subsets_list_arch_str(r.list, xlen))
  BY <1>1, <1>2, UpdateFacts
<1> HIDE DEF r
<1>5. /\ StackKept' /\ Announced' /\ FlagsCoverCode' /\ AbiSupported' /\ LegalLists'
      /\ lists' \in [Ids -> Chains \cup WildCopies] /\ subset_list' \in Ids
      /\ riscv_opts' \in Options /\ xlen' \in Widths /\ elf_flags' \in ElfFlags
      /\ errors' \in BOOLEAN
  BY <1>2, <1>3, <1>4, NewIsaStep
<1>6. TypeOK' BY <1>0, <1>3, <1>5 DEF TypeOK
<1> QED BY <1>5, <1>6 DEF IInv

LEMMA ArchStep ==
  ASSUME IInv, NEW arch \in job.archs, option_arch(arch) \/ s_riscv_attribute(arch), UNCHANGED job
  PROVE  IInv'
<1> DEFINE r == riscv_parse_subset(EmptyList, arch, xlen)
<1>0. TypeOK BY DEF IInv
<1>1. xlen \in Widths /\ arch \in IsaStrings BY <1>0, JobsAssumption DEF TypeOK
<1>2. NewIsa(r)
  BY DEF option_arch, s_riscv_attribute, riscv_set_arch, riscv_release_subset_list
<1>3. /\ phase = "asm" /\ lines' = lines + 1
      /\ UNCHANGED <<riscv_opts_stack, abi, start_assemble, phase, code, pushed>>
      /\ mach' = mach \/ mach' = xlen'
  BY DEF option_arch, s_riscv_attribute, Line
<1>4. /\ r.list \in Chains /\ r.ok \in BOOLEAN /\ r.xlen \in Widths
      /\ r.ok => Legal(riscv_reset_subsets_list_arch_str(r.list, r.xlen))
  BY <1>1, ParseFacts
<1> HIDE DEF r
<1>5. /\ StackKept' /\ Announced' /\ FlagsCoverCode' /\ AbiSupported' /\ LegalLists'
      /\ lists' \in [Ids -> Chains \cup WildCopies] /\ subset_list' \in Ids
      /\ riscv_opts' \in Options /\ xlen' \in Widths /\ elf_flags' \in ElfFlags
      /\ errors' \in BOOLEAN
  BY <1>2, <1>3, <1>4, NewIsaStep
<1>6. TypeOK' BY <1>0, <1>3, <1>5 DEF TypeOK
<1> QED BY <1>5, <1>6 DEF IInv

LEMMA PushStep ==
  ASSUME IInv, option_push, UNCHANGED job
  PROVE  IInv'
<1> DEFINE q == riscv_opts_stack'
           N == Len(riscv_opts_stack)
           rec == [options |-> riscv_opts, list |-> subset_list]
           old == [options |-> riscv_opts, names |-> list.names, xlen |-> xlen]
           T == [options : Options, names : Seq(Names), xlen : Widths]
           fresh == Min(Ids \ {q[i].list : i \in DOMAIN q})
<1>0. TypeOK /\ StackKept BY DEF IInv
<1>1. /\ phase = "asm" /\ lines' = lines + 1 /\ N < MaxDepth
      /\ q = <<rec>> \o riscv_opts_stack
      /\ subset_list' = fresh
      /\ pushed' = <<old>> \o pushed
      /\ UNCHANGED <<riscv_opts, xlen, mach, abi, elf_flags, start_assemble, errors, phase, code>>
  BY DEF option_push, Line
<1>2. PICK c \in riscv_copy_subset_list(list) : lists' = [lists EXCEPT ![fresh] = c]
  BY DEF option_push
<1>3. list \in AnyList /\ subset_list \in Ids BY <1>0, ListsFacts DEF list, TypeOK
<1>4. c \in AnyList /\ c.names = list.names /\ c.str = list.str BY <1>3, CopyFacts
<1>5. list.names \in Seq(Names)
  <2>1. CASE list \in Chains BY <2>1, ChainFacts
  <2>2. CASE list \in WildCopies
    <3>1. list.names = <<>> BY <2>2 DEF WildCopies
    <3> QED BY <3>1
  <2> QED BY <1>3, <2>1, <2>2 DEF AnyList
<1>6. rec \in Pushed /\ old \in T BY <1>0, <1>3, <1>5 DEF TypeOK, Pushed
<1>7. /\ riscv_opts_stack \in Seq(Pushed) /\ N \in Nat
      /\ pushed \in Seq(T) /\ Len(pushed) = N
  BY <1>0 DEF TypeOK, StackKept
<1>8. /\ q \in Seq(Pushed) /\ Len(q) = N + 1 /\ q[1] = rec
      /\ \A i \in 2 .. N + 1 : q[i] = riscv_opts_stack[i - 1]
  <2> HIDE DEF rec, q
  <2>1. <<rec>> \in Seq(Pushed) /\ Len(<<rec>>) = 1 /\ <<rec>>[1] = rec BY <1>6
  <2>2. q \in Seq(Pushed) /\ Len(q) = 1 + N BY <1>1, <1>7, <2>1, ConcatProperties
  <2>3. \A i \in 1 .. 1 + N : q[i] = IF i <= 1 THEN <<rec>>[i] ELSE riscv_opts_stack[i - 1]
    BY <1>1, <1>7, <2>1, ConcatProperties
  <2> QED BY <1>7, <2>1, <2>2, <2>3
<1>9. /\ pushed' \in Seq(T) /\ Len(pushed') = N + 1 /\ pushed'[1] = old
      /\ \A i \in 2 .. N + 1 : pushed'[i] = pushed[i - 1]
  <2> HIDE DEF old, T
  <2>1. <<old>> \in Seq(T) /\ Len(<<old>>) = 1 /\ <<old>>[1] = old BY <1>6
  <2>2. pushed' \in Seq(T) /\ Len(pushed') = 1 + N BY <1>1, <1>7, <2>1, ConcatProperties
  <2>3. \A i \in 1 .. 1 + N : pushed'[i] = IF i <= 1 THEN <<old>>[i] ELSE pushed[i - 1]
    BY <1>1, <1>7, <2>1, ConcatProperties
  <2> QED BY <1>7, <2>1, <2>2, <2>3
<1>10. Len(q) <= MaxDepth
  <2>1. MaxDepth \in Nat BY JobsAssumption
  <2> HIDE DEF q, N
  <2> QED BY <1>1, <1>7, <1>8, <2>1
<1>11. fresh \in Ids /\ \A i \in 1 .. N + 1 : q[i].list # fresh
  BY <1>8, <1>10, FreshFacts
<1>12. lists \in [Ids -> AnyList] BY <1>0 DEF TypeOK, AnyList
<1> HIDE DEF fresh, q, rec, old, T
<1>13. /\ lists' \in [Ids -> AnyList] /\ lists'[fresh] = c
       /\ \A n \in Ids : n # fresh => lists'[n] = lists[n]
  BY <1>2, <1>4, <1>11, <1>12
<1>14. TypeOK'
  <2>1. q \in Seq(Pushed) /\ Len(q) <= MaxDepth BY <1>8, <1>10
  <2>2. lists' \in [Ids -> Chains \cup WildCopies] BY <1>13 DEF AnyList
  <2>3. pushed' \in Seq([options : Options, names : Seq(Names), xlen : Widths]) BY <1>9 DEF T
  <2> QED BY <1>0, <1>1, <1>11, <2>1, <2>2, <2>3 DEF TypeOK, q
<1>15. rec.options = riscv_opts /\ rec.list = subset_list /\ old.options = riscv_opts /\ old.names = list.names
  BY DEF rec, old
<1>16. \A i \in 1 .. N + 1 : q[i].list \in Ids
  <2>1. \A i \in 1 .. N + 1 : q[i] \in Pushed BY <1>7, <1>8
  <2> QED BY <2>1 DEF Pushed
<1>17. \A i \in 1 .. N + 1 : i = 1 \/ (i \in 2 .. N + 1 /\ i - 1 \in 1 .. N) BY <1>7
<1>18. \A i \in 1 .. N : /\ riscv_opts_stack[i].list # subset_list
                         /\ riscv_opts_stack[i].options = pushed[i].options
                         /\ lists[riscv_opts_stack[i].list].names = pushed[i].names
                         /\ \A k \in 1 .. N : i # k => riscv_opts_stack[i].list # riscv_opts_stack[k].list
  BY <1>0 DEF StackKept
<1>19. \A i \in 1 .. N + 1 : lists'[q[i].list] = lists[q[i].list] BY <1>11, <1>13, <1>16
<1>20. StackKept'
  <2>1. ASSUME NEW i \in 1 .. N + 1
        PROVE  /\ q[i].options = pushed'[i].options
               /\ lists'[q[i].list].names = pushed'[i].names
    <3>1. CASE i = 1 BY <1>8, <1>9, <1>15, <1>19, <3>1 DEF list
    <3>2. CASE i \in 2 .. N + 1 /\ i - 1 \in 1 .. N
      <4>1. q[i] = riscv_opts_stack[i - 1] /\ pushed'[i] = pushed[i - 1] BY <1>8, <1>9, <3>2
      <4> QED BY <1>18, <1>19, <3>2, <4>1
    <3> QED BY <1>17, <3>1, <3>2
  <2>2. ASSUME NEW i \in 1 .. N + 1, NEW k \in 1 .. N + 1, i # k PROVE q[i].list # q[k].list
    <3>1. CASE i = 1
      <4>1. k \in 2 .. N + 1 /\ k - 1 \in 1 .. N BY <1>17, <2>2, <3>1
      <4> QED BY <1>8, <1>15, <1>18, <3>1, <4>1
    <3>2. CASE k = 1
      <4>1. i \in 2 .. N + 1 /\ i - 1 \in 1 .. N BY <1>17, <2>2, <3>2
      <4> QED BY <1>8, <1>15, <1>18, <3>2, <4>1
    <3>3. CASE i # 1 /\ k # 1
      <4>1. i \in 2 .. N + 1 /\ i - 1 \in 1 .. N /\ k \in 2 .. N + 1 /\ k - 1 \in 1 .. N
        BY <1>17, <3>3
      <4>2. i - 1 # k - 1 BY <2>2, <1>7
      <4> QED BY <1>8, <1>18, <4>1, <4>2
    <3> QED BY <3>1, <3>2, <3>3
  <2>3. riscv_opts_stack' = q /\ subset_list' = fresh BY <1>1 DEF q
  <2>4. Len(q) = N + 1 /\ Len(pushed') = N + 1 BY <1>8, <1>9
  <2>5. \A i \in 1 .. N + 1 : q[i].list # fresh BY <1>11
  <2> QED BY <2>1, <2>2, <2>3, <2>4, <2>5 DEF StackKept
<1>21. \A n \in Live' : n = fresh \/ n \in Live
  <2>1. DOMAIN q = 1 .. N + 1 BY <1>8
  <2>2. Live' = {fresh} \cup {q[i].list : i \in 1 .. N + 1} BY <1>1, <2>1 DEF Live, q
  <2>3. ASSUME NEW i \in 1 .. N + 1 PROVE q[i].list \in Live
    <3>1. CASE i = 1 BY <1>8, <1>15, <3>1 DEF Live
    <3>2. CASE i \in 2 .. N + 1 /\ i - 1 \in 1 .. N
      <4>1. i - 1 \in DOMAIN riscv_opts_stack /\ q[i] = riscv_opts_stack[i - 1] BY <1>7, <1>8, <3>2
      <4> QED BY <4>1 DEF Live
    <3> QED BY <1>17, <3>1, <3>2
  <2> QED BY <2>2, <2>3
<1>22. \A n \in Live' : \E m \in Live : lists'[n].names = lists[m].names /\ lists'[n].str = lists[m].str
  <2> TAKE n \in Live'
  <2>1. CASE n = fresh
    <3>1. subset_list \in Live BY DEF Live
    <3> QED BY <1>4, <1>13, <2>1, <3>1 DEF list
  <2>2. CASE n # fresh
    <3>1. n \in Live /\ n \in Ids BY <1>0, <1>21, <2>2, LiveFacts
    <3> QED BY <1>13, <2>2, <3>1
  <2> QED BY <2>1, <2>2
<1>23. Announced'
  <2>1. \A n \in Live' : "ztso" \in Range(lists'[n].names) => elf_flags.tso
    BY <1>22 DEF IInv, Announced
  <2>2. ASSUME NEW i \in 1 .. N + 1, q[i].options.rvc PROVE elf_flags.rvc
    <3>1. CASE i = 1 BY <1>8, <1>15, <2>2, <3>1 DEF IInv, Announced
    <3>2. CASE i \in 2 .. N + 1 /\ i - 1 \in 1 .. N
      BY <1>8, <2>2, <3>2 DEF IInv, Announced
    <3> QED BY <1>17, <3>1, <3>2
  <2>3. riscv_opts.rvc => elf_flags.rvc BY DEF IInv, Announced
  <2> QED BY <1>1, <1>8, <2>1, <2>2, <2>3 DEF Announced, q
<1>24. LegalLists'
  <2>1. ASSUME ~errors, NEW n \in Live' PROVE Legal(lists'[n])
    <3>1. PICK m \in Live : lists'[n].names = lists[m].names /\ lists'[n].str = lists[m].str
      BY <1>22
    <3>2. Legal(lists[m]) BY <2>1 DEF IInv, LegalLists
    <3> QED BY <3>1, <3>2 DEF Legal
  <2> QED BY <1>1, <2>1 DEF LegalLists
<1>25. FlagsCoverCode' /\ AbiSupported'
  BY <1>1 DEF IInv, FlagsCoverCode, AbiSupported
<1> QED BY <1>14, <1>20, <1>23, <1>24, <1>25 DEF IInv

\* What a pop does, and that it is what its push saw.
LEMMA PopStep ==
  ASSUME IInv, option_pop, UNCHANGED job
  PROVE  /\ IInv'
         /\ lists'[subset_list'].names = Head(pushed).names
         /\ riscv_opts' = Head(pushed).options
<1> DEFINE s == riscv_opts_stack
           N == Len(s)
           T == [options : Options, names : Seq(Names), xlen : Widths]
<1>0. TypeOK /\ StackKept BY DEF IInv
<1>1. /\ phase = "asm" /\ lines' = lines + 1 /\ s # <<>>
      /\ riscv_opts' = Head(s).options
      /\ subset_list' = Head(s).list
      /\ lists' = [lists EXCEPT ![subset_list] = EmptyList]
      /\ riscv_opts_stack' = Tail(s)
      /\ pushed' = Tail(pushed)
      /\ UNCHANGED <<xlen, mach, abi, elf_flags, start_assemble, errors, phase, code>>
  BY DEF option_pop, Line, riscv_release_subset_list
<1>2. s \in Seq(Pushed) /\ N \in Nat /\ pushed \in Seq(T) /\ Len(pushed) = N /\ N <= MaxDepth
  BY <1>0 DEF TypeOK, StackKept
<1>3. N > 0 /\ pushed # <<>> BY <1>1, <1>2
<1>4. /\ Head(s) = s[1] /\ Tail(s) \in Seq(Pushed) /\ Len(Tail(s)) = N - 1
      /\ \A i \in 1 .. N - 1 : Tail(s)[i] = s[i + 1]
  BY <1>1, <1>2, <1>3
<1>5. /\ Head(pushed) = pushed[1] /\ Tail(pushed) \in Seq(T) /\ Len(Tail(pushed)) = N - 1
      /\ \A i \in 1 .. N - 1 : Tail(pushed)[i] = pushed[i + 1]
  BY <1>2, <1>3
<1>6. \A i \in 1 .. N : /\ s[i].list # subset_list
                        /\ s[i].options = pushed[i].options
                        /\ lists[s[i].list].names = pushed[i].names
                        /\ \A k \in 1 .. N : i # k => s[i].list # s[k].list
                        /\ s[i].list \in Ids /\ s[i].options \in Options
  BY <1>0, LiveFacts DEF StackKept
<1>7. lists \in [Ids -> AnyList] /\ subset_list \in Ids BY <1>0 DEF TypeOK, AnyList
<1> HIDE DEF s
<1>8. /\ lists' \in [Ids -> AnyList]
      /\ \A n \in Ids : n # subset_list => lists'[n] = lists[n]
  BY <1>1, <1>7, EmptyChain DEF AnyList
<1>9. 1 \in 1 .. N /\ \A i \in 1 .. N - 1 : i + 1 \in 1 .. N /\ i + 1 # 1 BY <1>2, <1>3
<1>10. \A i \in 1 .. N : lists'[s[i].list] = lists[s[i].list] BY <1>6, <1>8
<1>11. /\ lists'[subset_list'].names = Head(pushed).names
       /\ riscv_opts' = Head(pushed).options
  BY <1>1, <1>4, <1>5, <1>6, <1>9, <1>10
<1>12. TypeOK'
  <2>1. subset_list' \in Ids /\ riscv_opts' \in Options BY <1>1, <1>4, <1>6, <1>9
  <2>2. riscv_opts_stack' \in Seq(Pushed) /\ Len(riscv_opts_stack') <= MaxDepth
    BY <1>1, <1>2, <1>4, JobsAssumption
  <2>3. pushed' \in Seq([options : Options, names : Seq(Names), xlen : Widths]) BY <1>1, <1>5
  <2>4. lists' \in [Ids -> Chains \cup WildCopies] BY <1>8 DEF AnyList
  <2> QED BY <1>0, <1>1, <2>1, <2>2, <2>3, <2>4 DEF TypeOK
<1>13. StackKept'
  <2>1. \A i \in 1 .. N - 1 :
          /\ Tail(s)[i].list # Head(s).list
          /\ Tail(s)[i].options = Tail(pushed)[i].options
          /\ lists'[Tail(s)[i].list].names = Tail(pushed)[i].names
          /\ \A k \in 1 .. N - 1 : i # k => Tail(s)[i].list # Tail(s)[k].list
    <3> TAKE i \in 1 .. N - 1
    <3>1. i + 1 \in 1 .. N /\ i + 1 # 1 /\ Tail(s)[i] = s[i + 1] /\ Tail(pushed)[i] = pushed[i + 1]
      BY <1>4, <1>5, <1>9
    <3>2. \A k \in 1 .. N - 1 : /\ k + 1 \in 1 .. N /\ Tail(s)[k] = s[k + 1]
                                /\ i # k => i + 1 # k + 1
      BY <1>2, <1>4, <1>9
    <3>3. Tail(s)[i].list # Head(s).list BY <1>4, <1>6, <1>9, <3>1
    <3>4. Tail(s)[i].options = Tail(pushed)[i].options BY <1>6, <3>1
    <3>5. lists'[Tail(s)[i].list].names = Tail(pushed)[i].names
      <4>1. lists'[s[i + 1].list] = lists[s[i + 1].list] BY <1>10, <3>1
      <4>2. lists[s[i + 1].list].names = pushed[i + 1].names BY <1>6, <3>1
      <4> QED BY <3>1, <4>1, <4>2
    <3>6. \A k \in 1 .. N - 1 : i # k => Tail(s)[i].list # Tail(s)[k].list BY <1>6, <3>1, <3>2
    <3> QED BY <3>3, <3>4, <3>5, <3>6
  <2> QED BY <1>1, <1>4, <1>5, <2>1 DEF StackKept
<1>14. Live' \subseteq {s[i].list : i \in 1 .. N}
  <2>1. DOMAIN Tail(s) = 1 .. N - 1 BY <1>4
  <2>2. Live' = {Head(s).list} \cup {Tail(s)[i].list : i \in 1 .. N - 1} BY <1>1, <2>1 DEF Live
  <2>3. \A i \in 1 .. N - 1 : Tail(s)[i].list \in {s[k].list : k \in 1 .. N} BY <1>4, <1>9
  <2> QED BY <1>4, <1>9, <2>2, <2>3
<1>15. {s[i].list : i \in 1 .. N} \subseteq Live BY <1>0, LiveFacts DEF Live, s
<1>16. \A n \in Live' : n \in Live /\ lists'[n] = lists[n] BY <1>10, <1>14, <1>15
<1>17. Announced'
  <2>1. \A i \in 1 .. N : s[i].options.rvc => elf_flags.rvc BY DEF IInv, Announced, s
  <2>2. \A i \in 1 .. N - 1 : Tail(s)[i].options.rvc => elf_flags.rvc BY <1>4, <1>9, <2>1
  <2>3. Head(s).options.rvc => elf_flags.rvc BY <1>4, <1>9, <2>1
  <2>4. \A n \in Live' : "ztso" \in Range(lists'[n].names) => elf_flags.tso
    BY <1>16 DEF IInv, Announced
  <2> QED BY <1>1, <1>4, <2>2, <2>3, <2>4 DEF Announced
<1>18. LegalLists' BY <1>1, <1>16 DEF IInv, LegalLists
<1>19. FlagsCoverCode' /\ AbiSupported' BY <1>1 DEF IInv, FlagsCoverCode, AbiSupported
<1> QED BY <1>11, <1>12, <1>13, <1>17, <1>18, <1>19 DEF IInv

LEMMA AbiFacts ==
  ASSUME IInv, riscv_set_abi_by_arch
  PROVE  /\ abi' \in Abis /\ elf_flags' \in ElfFlags /\ errors' \in BOOLEAN
         /\ elf_flags'.rvc = elf_flags.rvc /\ elf_flags'.tso = elf_flags.tso
         /\ elf_flags'.float = AbiByArch.float
         /\ errors => errors'
         /\ AbiClash => errors'
<1>0. TypeOK BY DEF IInv
<1>1. abi \in Abis /\ elf_flags \in ElfFlags /\ errors \in BOOLEAN /\ xlen \in Widths BY <1>0 DEF TypeOK
<1>2. AbiByArch \in Abis BY <1>1 DEF AbiByArch, Abis, FloatAbis, riscv_subset_supports
<1>3. AbiByArch.float \in FloatAbis /\ AbiByArch.rve \in BOOLEAN BY <1>2 DEF Abis
<1>4. /\ abi' = AbiByArch /\ errors' = (errors \/ AbiClash)
      /\ elf_flags' = [elf_flags EXCEPT !.float = AbiByArch.float, !.rve = @ \/ AbiByArch.rve]
  BY DEF riscv_set_abi_by_arch
<1>5. errors' \in BOOLEAN /\ (errors => errors') /\ (AbiClash => errors') BY <1>1, <1>4 DEF AbiClash
<1>6. /\ elf_flags' \in ElfFlags
      /\ elf_flags'.rvc = elf_flags.rvc /\ elf_flags'.tso = elf_flags.tso
      /\ elf_flags'.float = AbiByArch.float
  BY <1>1, <1>3, <1>4 DEF ElfFlags
<1> QED BY <1>2, <1>4, <1>5, <1>6

LEMMA AssembleStep ==
  ASSUME IInv, md_assemble, UNCHANGED job
  PROVE  IInv'
<1> DEFINE new == [rvc |-> riscv_opts.rvc /\ Compressed(list),
                   tso |-> riscv_subset_supports(list, "ztso"), xlen |-> xlen]
<1>0. TypeOK BY DEF IInv
<1>1. /\ phase = "asm" /\ lines' = lines + 1 /\ start_assemble' = TRUE
      /\ code' = code \cup {new}
      /\ UNCHANGED <<lists, subset_list, riscv_opts, xlen, riscv_opts_stack, mach, phase, pushed>>
  BY DEF md_assemble, Line, isa
<1>2. list \in Chains BY <1>0, ListsFacts DEF md_assemble, NotWild, list, TypeOK
<1>3. /\ abi' \in Abis /\ elf_flags' \in ElfFlags /\ errors' \in BOOLEAN
      /\ elf_flags'.rvc = elf_flags.rvc /\ elf_flags'.tso = elf_flags.tso
      /\ errors => errors'
  <2>1. CASE start_assemble BY <1>0, <2>1 DEF md_assemble, TypeOK
  <2>2. CASE ~start_assemble BY <2>2, AbiFacts DEF md_assemble
  <2> QED BY <2>1, <2>2
<1>4. new \in [rvc : BOOLEAN, tso : BOOLEAN, xlen : Widths]
  <2>1. riscv_subset_supports(list, "ztso") \in BOOLEAN BY DEF riscv_subset_supports, riscv_lookup_subset
  <2> QED BY <1>0, <1>2, <2>1, CompressedBool DEF TypeOK, Options
<1>5. (new.rvc => elf_flags.rvc) /\ (new.tso => elf_flags.tso)
  <2>1. "ztso" \in Names BY ExtsFacts
  <2>2. "ztso" \in Range(list.names) => elf_flags.tso BY DEF IInv, Announced, Live, list
  <2>3. riscv_opts.rvc => elf_flags.rvc BY DEF IInv, Announced
  <2> QED BY <1>2, <2>1, <2>2, <2>3, SupportsExact
<1> HIDE DEF new
<1>6. TypeOK' BY <1>0, <1>1, <1>3, <1>4 DEF TypeOK
<1>7. Live' = Live BY <1>1 DEF Live
<1>8. StackKept' BY <1>1 DEF IInv, StackKept
<1>9. Announced' BY <1>1, <1>3, <1>7 DEF IInv, Announced
<1>10. FlagsCoverCode' BY <1>1, <1>3, <1>5 DEF IInv, FlagsCoverCode
<1>11. AbiSupported' BY <1>1 DEF AbiSupported
<1>12. LegalLists' BY <1>1, <1>3, <1>7 DEF IInv, LegalLists
<1> QED BY <1>6, <1>8, <1>9, <1>10, <1>11, <1>12 DEF IInv

LEMMA FinalStep ==
  ASSUME IInv, riscv_elf_final_processing, UNCHANGED job
  PROVE  IInv'
<1>0. TypeOK BY DEF IInv
<1>1. /\ riscv_set_abi_by_arch /\ phase' = "written"
      /\ UNCHANGED <<lists, subset_list, riscv_opts, xlen, riscv_opts_stack, mach, start_assemble,
                     code, pushed, lines>>
  BY DEF riscv_elf_final_processing, isa
<1>2. list \in Chains BY <1>0, ListsFacts DEF riscv_elf_final_processing, NotWild, list, TypeOK
<1>3. /\ abi' \in Abis /\ elf_flags' \in ElfFlags /\ errors' \in BOOLEAN
      /\ elf_flags'.rvc = elf_flags.rvc /\ elf_flags'.tso = elf_flags.tso
      /\ elf_flags'.float = AbiByArch.float
      /\ errors => errors'
      /\ AbiClash => errors'
  BY <1>1, AbiFacts
<1>4. TypeOK' BY <1>0, <1>1, <1>3 DEF TypeOK
<1>5. Live' = Live /\ list' = list BY <1>1 DEF Live, list
<1>6. StackKept' BY <1>1 DEF IInv, StackKept
<1>7. Announced' BY <1>1, <1>3, <1>5 DEF IInv, Announced
<1>8. FlagsCoverCode' BY <1>1, <1>3 DEF IInv, FlagsCoverCode
<1>9. LegalLists' BY <1>1, <1>3, <1>5 DEF IInv, LegalLists
<1>10. AbiSupported'
  <2>0. "f" \in Names /\ "d" \in Names BY ExtsFacts
  <2>1. /\ riscv_subset_supports(list, "f") <=> "f" \in Range(list.names)
        /\ riscv_subset_supports(list, "d") <=> "d" \in Range(list.names)
    BY <1>2, <2>0, SupportsExact
  <2>2. abi' = AbiByArch BY <1>1 DEF riscv_set_abi_by_arch
  <2>3. CASE abi.given
    <3>1. abi' = abi /\ elf_flags'.float = abi.float BY <1>3, <2>2, <2>3 DEF AbiByArch
    <3>2. ASSUME ~errors' PROVE /\ abi.float = "single" => "f" \in Range(list.names)
                                /\ abi.float = "double" => "d" \in Range(list.names)
      <4>1. ~AbiClash BY <1>3, <3>2
      <4> QED BY <2>1, <2>3, <4>1 DEF AbiClash
    <3> QED BY <1>5, <3>1, <3>2 DEF AbiSupported
  <2>4. CASE ~abi.given
    <3>1. AbiByArch = [given |-> FALSE, xlen |-> xlen,
             float |-> IF riscv_subset_supports(list, "d") THEN "double" ELSE "soft",
             rve |-> ~riscv_subset_supports(list, "d") /\ riscv_subset_supports(list, "e")]
      BY <2>4 DEF AbiByArch
    <3>2. ~abi'.given BY <2>2, <3>1
    <3>3. elf_flags'.float = IF riscv_subset_supports(list, "d") THEN "double" ELSE "soft"
      BY <1>3, <3>1
    <3> QED BY <1>5, <2>1, <3>2, <3>3 DEF AbiSupported
  <2> QED BY <2>3, <2>4
<1> QED BY <1>4, <1>6, <1>7, <1>8, <1>9, <1>10 DEF IInv

LEMMA OtherStep ==
  ASSUME IInv, UNCHANGED job,
         \/ \E on \in BOOLEAN : option_relax(on)
         \/ option_pop_empty \/ s_riscv_attribute_late \/ WildRead
  PROVE  IInv'
<1>0. TypeOK BY DEF IInv
<1>1. /\ UNCHANGED <<lists, subset_list, xlen, riscv_opts_stack, mach, abi, elf_flags,
                     start_assemble, code, pushed>>
      /\ lines' = lines \/ lines' = lines + 1
      /\ phase' \in {"asm", "fatal", "crash"}
      /\ errors' = errors \/ errors' = TRUE
      /\ riscv_opts' = riscv_opts \/ \E on \in BOOLEAN : riscv_opts' = [riscv_opts EXCEPT !.relax = on]
  BY DEF option_relax, option_pop_empty, s_riscv_attribute_late, WildRead, Line, isa
<1>2. riscv_opts \in Options BY <1>0 DEF TypeOK
<1>3. riscv_opts' \in Options /\ riscv_opts'.rvc = riscv_opts.rvc BY <1>1, <1>2 DEF Options
<1>4. lines' \in Nat /\ errors' \in BOOLEAN /\ phase' # "written"
      /\ phase' \in {"asm", "written", "fatal", "crash"}
  <2>1. lines \in Nat /\ errors \in BOOLEAN BY <1>0 DEF TypeOK
  <2>2. lines' \in Nat BY <1>1, <2>1
  <2>3. errors' \in BOOLEAN BY <1>1, <2>1
  <2>4. phase' # "written" /\ phase' \in {"asm", "written", "fatal", "crash"} BY <1>1
  <2> QED BY <2>2, <2>3, <2>4
<1>5. StackKept' /\ Announced' /\ FlagsCoverCode' /\ AbiSupported' /\ LegalLists'
  <2>1. errors => errors' BY <1>1
  <2> QED BY <1>1, <1>3, <1>4, <2>1, SteadyStep
<1>6. TypeOK' BY <1>0, <1>1, <1>3, <1>4 DEF TypeOK
<1> QED BY <1>5, <1>6 DEF IInv

LEMMA NextIInv == IInv /\ [Next]_vars => IInv'
<1> SUFFICES ASSUME IInv, [Next]_vars PROVE IInv' OBVIOUS
<1>1. CASE Next
  <2>0. ReadFile /\ UNCHANGED job BY <1>1 DEF Next
  <2>1. ASSUME NEW on \in BOOLEAN, option_rvc(on) PROVE IInv' BY <2>0, <2>1, RvcStep
  <2>2. ASSUME NEW edits \in job.edits, option_arch_edit(edits) PROVE IInv'
    BY <2>0, <2>2, ArchEditStep
  <2>3. ASSUME NEW arch \in job.archs, option_arch(arch) \/ s_riscv_attribute(arch) PROVE IInv'
    BY <2>0, <2>3, ArchStep
  <2>4. CASE option_push BY <2>0, <2>4, PushStep
  <2>5. CASE option_pop BY <2>0, <2>5, PopStep
  <2>6. CASE md_assemble BY <2>0, <2>6, AssembleStep
  <2>7. CASE riscv_elf_final_processing BY <2>0, <2>7, FinalStep
  <2>8. CASE \/ \E on \in BOOLEAN : option_relax(on)
             \/ option_pop_empty \/ s_riscv_attribute_late \/ WildRead
    BY <2>0, <2>8, OtherStep
  <2> QED BY <2>0, <2>1, <2>2, <2>3, <2>4, <2>5, <2>6, <2>7, <2>8 DEF ReadFile
<1>2. CASE UNCHANGED vars
  <2>1. UNCHANGED <<job, lists, subset_list, riscv_opts, xlen, riscv_opts_stack, mach, abi, elf_flags,
                    start_assemble, errors, phase, code, pushed, lines>>
    BY <1>2 DEF vars, isa
  <2>2. TypeOK' BY <2>1 DEF IInv, TypeOK
  <2>3. Live' = Live /\ list' = list BY <2>1 DEF Live, list
  <2>4. StackKept' /\ Announced' BY <2>1, <2>3 DEF IInv, StackKept, Announced
  <2>5. FlagsCoverCode' /\ AbiSupported' BY <2>1, <2>3 DEF IInv, FlagsCoverCode, AbiSupported
  <2>6. LegalLists' BY <2>1, <2>3 DEF IInv, LegalLists
  <2> QED BY <2>2, <2>4, <2>5, <2>6 DEF IInv
<1> QED BY <1>1, <1>2

-----------------------------------------------------------------------------
\* The invariant of the options of gas: every list is sorted and ends at its tail, every
\* open push has a list of its own, and the header announces all that is in force.
THEOREM Invariance == Spec => []IInv
BY InitIInv, NextIInv, PTL DEF Spec

\* After any sequence of directives a look-up in a subset list, with its shortcut through
\* the tail, is exact, and the ISA string printed for the list reads back as the same
\* list: riscv_lookup_subset, riscv_add_subset, riscv_remove_subset, riscv_arch_str.
THEOREM ListsStayIntact == Spec => []ListIntact
<1>1. IInv => ListIntact
  <2> SUFFICES ASSUME IInv PROVE ListIntact OBVIOUS
  <2>0. TypeOK BY DEF IInv
  <2>1. LookupExact
    <3> SUFFICES ASSUME NEW n \in Live, lists[n].tail # Wild
                 PROVE  /\ lists[n].tail \in Range(lists[n].names) \cup {None}
                        /\ \A x \in Names : riscv_subset_supports(lists[n], x) <=> x \in Range(lists[n].names)
      BY DEF LookupExact
    <3>1. lists[n] \in Chains BY <2>0, LiveFacts, ListsFacts
    <3>2. lists[n].tail \in Range(lists[n].names) \cup {None}
      <4>1. CASE lists[n].names = <<>> BY <3>1, <4>1, ChainFacts
      <4>2. CASE lists[n].names # <<>>
        <5>1. lists[n].names \in Seq(Names) /\ lists[n].tail = lists[n].names[Len(lists[n].names)]
          BY <3>1, <4>2, ChainFacts
        <5>2. Len(lists[n].names) \in DOMAIN lists[n].names BY <4>2, <5>1
        <5> QED BY <5>1, <5>2 DEF Range
      <4> QED BY <4>1, <4>2
    <3> QED BY <3>1, <3>2, SupportsExact
  <2>2. ArchReadsBack
    <3> SUFFICES ASSUME ~errors, NEW n \in Live
                 PROVE  LET r == riscv_parse_subset(EmptyList, riscv_arch_str(lists[n]), 32)
                        IN r.ok /\ r.list.names = lists[n].names
      BY DEF ArchReadsBack
    <3>1. Legal(lists[n]) BY DEF IInv, LegalLists
    <3>2. lists[n] \in Chains \cup WildCopies BY <2>0, LiveFacts, ListsFacts DEF AnyList
    <3> QED BY <3>1, <3>2, ReadBack
  <2> QED BY <2>1, <2>2 DEF ListIntact
<1> QED BY <1>1, Invariance, PTL

\* Compressed and total store order code is announced in the header also when its region
\* has been popped, and a file written without an error has the registers of its calling
\* convention: riscv_set_rvc, riscv_set_tso, riscv_set_abi_by_arch.
THEOREM HeaderCovers == Spec => []HeaderCoversCode
<1>1. IInv => HeaderCoversCode BY DEF IInv, HeaderCoversCode
<1> QED BY <1>1, Invariance, PTL

\* .option pop brings back the options and extensions of its own push, at any depth.
THEOREM PopsRestore == Spec => PopRestores
<1>1. IInv /\ [Next]_vars => [option_pop => /\ lists'[subset_list'].names = Head(pushed).names
                                            /\ riscv_opts' = Head(pushed).options]_vars
  <2> SUFFICES ASSUME IInv, Next, option_pop
               PROVE  /\ lists'[subset_list'].names = Head(pushed).names
                      /\ riscv_opts' = Head(pushed).options
    OBVIOUS
  <2>1. UNCHANGED job BY DEF Next
  <2> QED BY <2>1, PopStep
<1> QED BY <1>1, Invariance, PTL DEF Spec, PopRestores
=============================================================================
