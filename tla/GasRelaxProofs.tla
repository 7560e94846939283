--------------------------- MODULE GasRelaxProofs ---------------------------
(***************************************************************************)
(* Proofs about the frags of the assembler.  GasRelax, for every program   *)
(* of frags and every reach: when relax_segment is done, branches arrive   *)
(* and pads are filled.  MappingSymbols, for every list of lines: mapping  *)
(* symbols are made in offset order.                                       *)
(***************************************************************************)
EXTENDS GasRelax, MappingSymbols, FiniteSetTheorems, WellFoundedInduction, TLAPS

-----------------------------------------------------------------------------
(* Sizes *)

\* A multiple leaves no remainder.
LEMMA NoRemainder ==
  ASSUME NEW m \in Nat \ {0}, NEW z \in Int
  PROVE  (z * m) % m = 0
<1> DEFINE b == z * m
<1>1. b \in Int OBVIOUS
<1>2. b = m * (b \div m) + (b % m) /\ b \div m \in Int /\ b % m \in 0 .. m - 1 BY <1>1
<1>3. b % m = (z - (b \div m)) * m BY <1>2
<1> QED BY <1>2, <1>3

\* The padding of an alignment is a number.
LEMMA AlignInt ==
  ASSUME NEW f \in Frag, f.type = "align", NEW a, a \in Int
  PROVE  relax_align(f, a) \in Int
<1>1. f.off \in Nat \ {0} BY DEF Frag
<1>2. (- a) % f.off \in Int BY <1>1
<1> QED BY <1>2 DEF relax_align

\* relax_align gives the least padding to the boundary, or none.
LEMMA AlignFacts ==
  ASSUME NEW f \in Frag, f.type = "align", NEW a \in Int
  PROVE  \/ (a + relax_align(f, a)) % f.off = 0 /\ relax_align(f, a) \in 0 .. f.off - 1
         \/ f.skip # 0 /\ relax_align(f, a) = 0
<1> DEFINE m == f.off
           pad == (- a) % m
<1>1. m \in Nat \ {0} /\ f.skip \in Nat BY DEF Frag
<1>2. pad \in 0 .. m - 1 BY <1>1
<1>3. (a + pad) % m = 0
  <2> DEFINE q == (- a) \div m
  <2>1. q \in Int /\ - a = q * m + pad BY <1>1
  <2>2. a + pad = (- q) * m BY <1>1, <1>2, <2>1
  <2>3. - q \in Int BY <2>1
  <2> HIDE DEF q, pad, m
  <2> QED BY <1>1, <2>2, <2>3, NoRemainder
<1> HIDE DEF pad
<1> QED BY <1>1, <1>2, <1>3 DEF relax_align, pad

\* What relaxed_branch_length says of the displacement.
LEMMA LengthFacts ==
  ASSUME NEW f \in Frag, NEW i, NEW a, NEW n, n = relaxed_branch_length(f, i, a)
  PROVE  /\ n \in {2, 4, 6, 8}
         /\ f.to = 0 => n = IF f.jump THEN 4 ELSE 8
         /\ f.to # 0 =>
              LET val == a[f.to] - (a[i] + f.fix)
                  short == f.rvc /\ Fits(val, IF f.jump THEN RvcJump ELSE RvcBranch)
              IN /\ n = 2 <=> short
                 /\ n = 4 <=> ~ short /\ (f.jump \/ Fits(val, Branch))
                 /\ n \in {6, 8} => ~ f.jump
BY DEF relaxed_branch_length

\* The size of a frag is a number.
LEMMA SizeInt ==
  ASSUME TypeOK, NEW k \in Frags
  PROVE  Size(k) \in Int /\ prog[k] \in Frag /\ prog[k].fix \in Int /\ addr[k] \in Int
<1>1. prog[k] \in Frag BY DEF TypeOK, Frags
<1>2. prog[k].fix \in Int /\ addr[k] \in Int /\ var[k] \in Int BY <1>1 DEF TypeOK, Frag
<1>3. prog[k].type = "align" => relax_align(prog[k], addr[k] + prog[k].fix) \in Int
  BY <1>1, <1>2, AlignInt
<1> QED BY <1>1, <1>2, <1>3 DEF Size

-----------------------------------------------------------------------------
(* The invariant *)

\* Zeroed frags satisfy it: the estimate has placed nothing yet.
LEMMA InitIInv == Init => IInv
<1> SUFFICES ASSUME Init PROVE IInv OBVIOUS
<1>0. PICK s \in FragSets : \E p \in [1 .. s.n -> s.frags] : prog = Append(p, LastFrag) BY DEF Init
<1>1. PICK p \in [1 .. s.n -> s.frags] : prog = Append(p, LastFrag) BY <1>0
<1>2. s.n \in Nat /\ \A f \in s.frags : f \in Frag /\ f.to <= s.n + 1 BY FragsAssumption
<1>3. LastFrag \in Frag BY DEF LastFrag, Frag, FragTypes
<1>4. p \in Seq(Frag) /\ Len(p) = s.n BY <1>2
<1>5. prog \in Seq(Frag) /\ Len(prog) = s.n + 1 /\ prog[s.n + 1] = LastFrag
  BY <1>1, <1>3, <1>4
<1>6. \A i \in 1 .. s.n : prog[i] = p[i] BY <1>1, <1>4
<1>7. \A i \in Frags : prog[i].to <= Last
  <2> SUFFICES ASSUME NEW i \in 1 .. s.n + 1 PROVE prog[i].to <= s.n + 1
    BY <1>5 DEF Frags, Last
  <2>1. CASE i \in 1 .. s.n BY <1>2, <1>6, <2>1
  <2>2. CASE i = s.n + 1 BY <1>2, <1>5, <2>2 DEF LastFrag
  <2> QED BY <1>2, <2>1, <2>2
<1>8. TypeOK
  <2>1. prog \in Seq(Frag) /\ prog # << >> /\ prog[Last].type = "fill"
    BY <1>2, <1>5 DEF Last, LastFrag
  <2>2. addr \in [Frags -> Int] /\ var \in [Frags -> Int] /\ len \in [Frags -> Int] BY DEF Init
  <2>3. at \in Frags BY <1>2, <1>5 DEF Init, Frags
  <2>4. {stretched, changed} \subseteq BOOLEAN BY Zenon DEF Init
  <2> QED BY <1>7, <2>1, <2>2, <2>3, <2>4 DEF Init, TypeOK
<1>9. Contiguous BY <1>8 DEF Init, Contiguous, TypeOK, Frags, Last
<1> QED BY <1>8, <1>9 DEF Init, IInv, Fixpoint

\* A step of the loop over the frags keeps it: the frag c has moved by the stretch and
\* grown by g, and unless something has grown it is settled.
LEMMA TripStep ==
  ASSUME IInv, pc = "relax", NEW c \in Frags, c = at, NEW g \in Int,
         addr' = Moved, NextFrag(g), TypeOK', Len(prog') = Len(prog),
         \A k \in Frags \ {c} : prog'[k] = prog[k] /\ var'[k] = var[k] /\ len'[k] = len[k],
         changed => changed',
         c < Last /\ prog'[c].type # "org" =>
           addr'[c] + prog'[c].fix + Size(c)' = addr[c + 1] + stretch + g,
         stretch = 0 /\ g = 0 => Settled(c)'
  PROVE  IInv'
<1> USE DEF Frags, Last
<1>1. /\ addr \in [Frags -> Int] /\ stretch \in Int /\ iterations \in Int /\ Last \in Nat
      /\ c \in 1 .. Last /\ stretched \in BOOLEAN
  BY DEF IInv, TypeOK
<1>2. \A k \in Frags : addr'[k] = IF k = c THEN addr[k] + stretch ELSE addr[k]
  BY <1>1 DEF Moved
<1>3. \A k \in Frags \ {c} : Size(k)' = Size(k) BY <1>2 DEF Size
<1>4. CASE c < Last
  <2>1. at' = c + 1 /\ stretch' = stretch + g /\ stretched' = (stretched \/ g # 0) /\ pc' = "relax"
    BY <1>4 DEF NextFrag
  <2>2. Contiguous'
    <3> SUFFICES ASSUME NEW k \in 1 .. Last - 1, prog'[k].type # "org"
                 PROVE  Place(k + 1)' = addr'[k] + prog'[k].fix + Size(k)'
      BY <2>1 DEF Contiguous
    <3>1. k \in Frags /\ k + 1 \in Frags BY <1>1
    <3>2. CASE k = c
      <4>1. Place(k + 1)' = addr[k + 1] + stretch' BY <1>2, <2>1, <3>1, <3>2 DEF Place
      <4>2. Place(k + 1)' = addr[c + 1] + stretch + g BY <1>1, <2>1, <3>1, <3>2, <4>1
      <4> QED BY <1>4, <3>2, <4>2
    <3>3. CASE k # c
      <4>1. Place(k + 1) = addr[k] + prog[k].fix + Size(k)
        BY <3>3 DEF IInv, Contiguous
      <4>2. Place(k + 1)' = Place(k + 1)
        BY <1>1, <1>2, <2>1, <3>1, <3>3 DEF Place
      <4> QED BY <1>2, <1>3, <3>1, <3>3, <4>1, <4>2
    <3> QED BY <3>2, <3>3
  <2>3. ASSUME ~ stretched' PROVE stretch' = 0 /\ \A k \in 1 .. at' - 1 : Settled(k)'
    <3>0. ~ stretched /\ g = 0 BY <2>1, <2>3, Zenon
    <3>1. ~ stretched /\ g = 0 /\ stretch = 0 /\ stretch' = 0
      BY <1>1, <2>1, <3>0 DEF IInv, Fixpoint
    <3>2. addr' = addr BY <1>1, <3>1 DEF Moved
    <3>3. ASSUME NEW k \in 1 .. c - 1 PROVE Settled(k)'
      <4>1. Settled(k) BY <3>1 DEF IInv, Fixpoint
      <4>2. k \in Frags \ {c} BY <1>1
      <4>3. prog'[k] = prog[k] /\ var'[k] = var[k] /\ len'[k] = len[k] BY <4>2
      <4> QED BY <3>2, <4>1, <4>3 DEF Settled
    <3>4. \A k \in 1 .. (c + 1) - 1 : k = c \/ k \in 1 .. c - 1 BY <1>1
    <3> QED BY <2>1, <3>1, <3>3, <3>4
  <2> QED BY <2>1, <2>2, <2>3 DEF IInv, Fixpoint
<1>5. CASE c = Last
  <2>1. at' = 1 /\ stretch' = 0 /\ stretched' = FALSE /\ pc' \in {"check", "relax", "fatal"}
    BY <1>5 DEF NextFrag
  <2>2. Contiguous'
    <3> SUFFICES ASSUME NEW k \in 1 .. Last - 1, prog'[k].type # "org"
                 PROVE  Place(k + 1)' = addr'[k] + prog'[k].fix + Size(k)'
      BY <2>1 DEF Contiguous
    <3>1. k \in Frags \ {c} /\ k + 1 \in Frags /\ k + 1 # 1 BY <1>1, <1>5
    <3>2. Place(k + 1) = addr[k] + prog[k].fix + Size(k)
      BY <3>1 DEF IInv, Contiguous
    <3>3. Place(k + 1)' = Place(k + 1)
      BY <1>1, <1>2, <2>1, <3>1 DEF Place
    <3> QED BY <1>2, <1>3, <3>1, <3>2, <3>3
  <2>3. ASSUME pc' = "check" PROVE \A k \in Frags : Settled(k)'
    <3>1. ~ stretched /\ g = 0 /\ stretch = 0
      BY <1>1, <1>5, <2>3 DEF IInv, Fixpoint, NextFrag
    <3>2. addr' = addr BY <1>1, <3>1 DEF Moved
    <3>3. ASSUME NEW k \in 1 .. c - 1 PROVE Settled(k)'
      <4>1. Settled(k) BY <3>1 DEF IInv, Fixpoint
      <4>2. k \in Frags \ {c} BY <1>1
      <4>3. prog'[k] = prog[k] /\ var'[k] = var[k] /\ len'[k] = len[k] BY <4>2
      <4> QED BY <3>2, <4>1, <4>3 DEF Settled
    <3>4. \A k \in Frags : k = c \/ k \in 1 .. c - 1 BY <1>1, <1>5
    <3> QED BY <3>1, <3>3, <3>4
  <2> QED BY <2>1, <2>2, <2>3 DEF IInv, Fixpoint
<1> QED BY <1>1, <1>4, <1>5

\* What the loop changes has its type.
LEMMA TripTypes ==
  ASSUME TypeOK, pc = "relax", NEW g \in Int, addr' = Moved, NextFrag(g), UNCHANGED here,
         Len(prog') = Len(prog), prog' \in Seq(Frag), prog'[Last].type = "fill",
         \A i \in Frags : prog'[i].to <= Last,
         var' \in [Frags -> Int], len' \in [Frags -> Int], changed' \in BOOLEAN
  PROVE  TypeOK'
<1> USE DEF Frags, Last
<1>1. /\ addr \in [Frags -> Int] /\ {stretch, iterations, here} \subseteq Int /\ at \in 1 .. Last
      /\ Last \in Nat /\ stretched \in BOOLEAN
  BY DEF TypeOK
<1>2. addr' \in [Frags -> Int]
  <2>1. addr[at] + stretch \in Int BY <1>1
  <2>2. addr' = [addr EXCEPT ![at] = addr[at] + stretch] BY DEF Moved
  <2> QED BY <1>1, <2>1, <2>2
<1>3. at' \in Frags /\ {stretch', iterations'} \subseteq Int
      /\ pc' \in {"relax", "check", "fatal"}
  BY <1>1 DEF NextFrag
<1>4. prog' # << >> BY <1>1
<1>5. stretched' \in BOOLEAN BY <1>1, Zenon DEF NextFrag
<1> QED BY <1>1, <1>2, <1>3, <1>4, <1>5 DEF TypeOK

LEMMA EstimateStep ==
  ASSUME IInv, Estimate
  PROVE  IInv'
<1> USE DEF Frags, Last
<1> DEFINE f == prog[at]
           a == [addr EXCEPT ![at] = here]
           size == IF f.type = "branch" THEN relaxed_branch_length(f, at, a)
                   ELSE IF f.type = "align" THEN relax_align(f, here + f.fix)
                   ELSE 0
<1>1. /\ addr \in [Frags -> Int] /\ here \in Int /\ Last \in Nat /\ at \in 1 .. Last
      /\ f \in Frag /\ f.fix \in Int /\ var \in [Frags -> Int]
  <2>1. TypeOK /\ at \in Frags BY DEF IInv, TypeOK
  <2>2. f \in Frag /\ f.fix \in Int BY <2>1, SizeInt
  <2> QED BY <2>1, <2>2 DEF TypeOK
<1>2. size \in Int
  <2>1. CASE f.type = "branch"
    <3>1. relaxed_branch_length(f, at, a) \in {2, 4, 6, 8} BY DEF relaxed_branch_length
    <3> QED BY <2>1, <3>1
  <2>2. CASE f.type = "align"
    <3>1. here + f.fix \in Int BY <1>1
    <3>2. relax_align(f, here + f.fix) \in Int BY <1>1, <2>2, <3>1, AlignInt
    <3> QED BY <2>2, <3>2
  <2> QED BY <2>1, <2>2
<1>3. /\ pc = "estimate" /\ prog' = prog /\ addr' = a /\ len' = len /\ changed' = changed
      /\ var' = IF f.type = "branch" THEN [var EXCEPT ![at] = size] ELSE var
      /\ stretch' = 0 /\ stretched' = FALSE
  BY DEF Estimate
<1>4. IF at < Last THEN at' = at + 1 /\ here' = here + f.fix + size /\ pc' = pc /\ iterations' = iterations
      ELSE at' = 1 /\ here' = 0 /\ pc' = "relax" /\ iterations' = Last * Last
  BY DEF Estimate
<1> HIDE DEF size
<1>5. TypeOK'
  <2>1. addr' \in [Frags -> Int] /\ var' \in [Frags -> Int] BY <1>1, <1>2, <1>3
  <2>2. at' \in Frags /\ {here', stretch', iterations'} \subseteq Int /\ pc' \in {"estimate", "relax"}
    <3>1. CASE at < Last
      <4>1. at' = at + 1 /\ at' \in 1 .. Last BY <1>1, <1>4, <3>1
      <4>2. here' = here + f.fix + size /\ here' \in Int BY <1>1, <1>2, <1>4, <3>1
      <4>3. pc' = "estimate" /\ iterations' = iterations BY <1>3, <1>4, <3>1
      <4>4. iterations \in Int BY DEF IInv, TypeOK
      <4> QED BY <1>3, <4>1, <4>2, <4>3, <4>4
    <3>2. CASE ~(at < Last)
      <4>1. at' = 1 /\ here' = 0 /\ pc' = "relax" /\ iterations' = Last * Last BY <1>4, <3>2
      <4>2. Last * Last \in Int /\ 1 \in 1 .. Last BY <1>1
      <4> QED BY <1>3, <4>1, <4>2
    <3> QED BY <3>1, <3>2
  <2>3. {stretched', changed'} \subseteq BOOLEAN BY <1>3, Zenon DEF IInv, TypeOK
  <2> QED BY <1>3, <2>1, <2>2, <2>3 DEF IInv, TypeOK
<1>6. PICK c \in Frags : c = at BY <1>1
<1>7. \A k \in Frags : addr'[k] = (IF k = c THEN here ELSE addr[k])
  BY <1>1, <1>3, <1>6
<1>8. ASSUME NEW k \in Frags, k # c PROVE Size(k)' = Size(k)
  BY <1>1, <1>3, <1>6, <1>7, <1>8 DEF Size
<1>9. prog[c].type # "org" => Size(c)' = size
  <2>1. addr'[c] = here BY <1>7
  <2>2. var'[c] = IF f.type = "branch" THEN size ELSE var[c] BY <1>1, <1>3, <1>6
  <2> QED BY <1>1, <1>3, <1>6, <2>1, <2>2 DEF Size, size
<1>10. Contiguous'
  <2> SUFFICES ASSUME NEW k \in 1 .. Last - 1, prog[k].type # "org", pc' = "estimate" => k < at'
               PROVE  Place(k + 1)' = addr'[k] + prog[k].fix + Size(k)'
    BY <1>3 DEF Contiguous
  <2>1. k \in Frags /\ k + 1 \in Frags /\ k + 1 # 1 /\ k <= c BY <1>1, <1>3, <1>4, <1>6
  <2>2. CASE k = c
    <3>1. at' = k + 1 /\ here' = here + f.fix + size /\ pc' = "estimate" BY <1>1, <1>3, <1>4, <1>6, <2>2
    <3>2. Place(k + 1)' = here' BY <3>1 DEF Place
    <3> QED BY <1>6, <1>7, <1>9, <2>1, <2>2, <3>1, <3>2
  <2>3. CASE k # c
    <3>1. k < at BY <1>1, <1>6, <2>1, <2>3
    <3>2. Place(k + 1) = addr[k] + prog[k].fix + Size(k)
      BY <1>3, <3>1 DEF IInv, Contiguous
    <3>3. addr'[k + 1] = Place(k + 1) BY <1>3, <1>6, <1>7, <2>1 DEF Place
    <3>4. Place(k + 1)' = addr'[k + 1]
      BY <1>1, <1>3, <1>4, <1>6, <2>1, <2>3, <1>5 DEF Place, TypeOK
    <3> QED BY <1>7, <1>8, <2>1, <2>3, <3>2, <3>3, <3>4
  <2> QED BY <2>2, <2>3
<1>11. pc' \in {"estimate", "relax"} /\ (pc' = "relax" => at' = 1) BY <1>3, <1>4
<1>12. Fixpoint' BY <1>3, <1>11 DEF Fixpoint
<1> QED BY <1>5, <1>10, <1>12 DEF IInv

LEMMA FillStep ==
  ASSUME IInv, RelaxFill
  PROVE  IInv'
<1> USE DEF Frags, Last
<1>1. PICK c \in Frags : c = at BY DEF IInv, TypeOK
<1>2. /\ pc = "relax" /\ prog[c].type = "fill" /\ addr' = Moved /\ NextFrag(0)
      /\ UNCHANGED <<prog, var, len, here, changed>>
  BY <1>1 DEF RelaxFill
<1>3. TypeOK /\ TypeOK'
  <2>1. TypeOK BY DEF IInv
  <2>2. /\ Len(prog') = Len(prog) /\ prog' \in Seq(Frag) /\ prog'[Last].type = "fill"
        /\ (\A i \in Frags : prog'[i].to <= Last)
        /\ var' \in [Frags -> Int] /\ len' \in [Frags -> Int] /\ changed' \in BOOLEAN
    BY <1>2, <2>1, Zenon DEF TypeOK
  <2> QED BY <1>2, <2>1, <2>2, TripTypes
<1>4. Size(c) = 0 /\ Size(c)' = 0 BY <1>2 DEF Size
<1>5. c < Last => addr'[c] + prog'[c].fix + Size(c)' = addr[c + 1] + stretch + 0
  <2> SUFFICES ASSUME c < Last PROVE addr'[c] + prog'[c].fix + Size(c)' = addr[c + 1] + stretch + 0 OBVIOUS
  <2>1. c \in 1 .. Last - 1 /\ c + 1 \in Frags BY <1>3 DEF TypeOK
  <2>2. addr[c + 1] = addr[c] + prog[c].fix + Size(c)
    BY <1>1, <1>2, <2>1 DEF IInv, Contiguous, Place
  <2>3. addr'[c] = addr[c] + stretch BY <1>1, <1>2, <1>3 DEF Moved, TypeOK
  <2>4. addr[c] \in Int /\ prog[c].fix \in Int /\ stretch \in Int BY <1>3, SizeInt DEF TypeOK
  <2> QED BY <1>2, <1>4, <2>2, <2>3, <2>4
<1>6. Settled(c)' BY <1>2 DEF Settled
<1> QED BY <1>1, <1>2, <1>3, <1>5, <1>6, TripStep

LEMMA BranchStep ==
  ASSUME IInv, RelaxBranch
  PROVE  IInv'
<1> USE DEF Frags, Last
<1>1. PICK c \in Frags : c = at BY DEF IInv, TypeOK
<1> DEFINE new == relaxed_branch_length(prog[c], c, Moved)
<1>2. /\ pc = "relax" /\ prog[c].type = "branch" /\ addr' = Moved /\ NextFrag(new - var[c])
      /\ var' = [var EXCEPT ![c] = new] /\ len' = [len EXCEPT ![c] = new]
      /\ UNCHANGED <<prog, here, changed>>
  BY <1>1 DEF RelaxBranch
<1>3. new \in Int
  <2>1. new \in {2, 4, 6, 8} BY DEF relaxed_branch_length
  <2> QED BY <2>1
<1>4. new = relaxed_branch_length(prog'[c], c, addr') BY <1>2
<1> HIDE DEF new
<1>5. TypeOK /\ var[c] \in Int /\ var'[c] = new /\ len'[c] = new BY <1>2 DEF IInv, TypeOK
<1>6. var' \in [Frags -> Int] /\ len' \in [Frags -> Int] /\ new - var[c] \in Int
  <2>1. var \in [Frags -> Int] /\ len \in [Frags -> Int] BY <1>5 DEF TypeOK
  <2>2. var' \in [Frags -> Int] /\ len' \in [Frags -> Int] BY <1>2, <1>3, <2>1
  <2> QED BY <1>3, <1>5, <2>2
<1>7. TypeOK' BY <1>2, <1>5, <1>6, TripTypes DEF TypeOK
<1>8. Size(c) = var[c] /\ Size(c)' = new BY <1>2, <1>5 DEF Size
<1>9. c < Last => addr'[c] + prog'[c].fix + Size(c)' = addr[c + 1] + stretch + (new - var[c])
  <2> SUFFICES ASSUME c < Last
               PROVE  addr'[c] + prog'[c].fix + Size(c)' = addr[c + 1] + stretch + (new - var[c]) OBVIOUS
  <2>1. c \in 1 .. Last - 1 /\ c + 1 \in Frags BY <1>5 DEF TypeOK
  <2>2. addr[c + 1] = addr[c] + prog[c].fix + Size(c)
    BY <1>1, <1>2, <2>1 DEF IInv, Contiguous, Place
  <2>3. addr'[c] = addr[c] + stretch BY <1>1, <1>2, <1>5 DEF Moved, TypeOK
  <2>4. addr[c] \in Int /\ prog[c].fix \in Int /\ stretch \in Int BY <1>5, SizeInt DEF TypeOK
  <2>5. prog'[c].fix = prog[c].fix BY <1>2
  <2>6. var[c] \in Int BY <1>5
  <2> HIDE DEF Frags, Last
  <2> QED BY <1>3, <1>8, <2>2, <2>3, <2>4, <2>5, <2>6
<1>10. Settled(c)' BY <1>2, <1>4, <1>5 DEF Settled
<1>11. \A k \in Frags \ {c} : prog'[k] = prog[k] /\ var'[k] = var[k] /\ len'[k] = len[k]
  BY <1>2, <1>5 DEF TypeOK
<1> QED BY <1>1, <1>2, <1>6, <1>7, <1>9, <1>10, <1>11, TripStep

LEMMA AlignStep ==
  ASSUME IInv, RelaxAlign
  PROVE  IInv'
<1> USE DEF Frags, Last
<1>1. PICK c \in Frags : c = at BY DEF IInv, TypeOK
<1> DEFINE new == relax_align(prog[c], Moved[c] + prog[c].fix)
           old == relax_align(prog[c], addr[c] + prog[c].fix)
<1>2. /\ pc = "relax" /\ prog[c].type = "align" /\ addr' = Moved /\ NextFrag(new - old)
      /\ UNCHANGED <<prog, var, len, here, changed>>
  BY <1>1 DEF RelaxAlign
<1>3. TypeOK /\ Moved[c] = addr[c] + stretch /\ addr[c] \in Int /\ stretch \in Int
  BY <1>1 DEF Moved, IInv, TypeOK
<1>4. prog[c] \in Frag /\ prog[c].fix \in Int BY <1>3, SizeInt
<1>5. new \in Int /\ old \in Int
  <2>1. Moved[c] + prog[c].fix \in Int /\ addr[c] + prog[c].fix \in Int BY <1>3, <1>4
  <2> QED BY <1>2, <1>4, <2>1, AlignInt
<1>6. Size(c) = old /\ Size(c)' = new BY <1>2 DEF Size
<1> HIDE DEF new, old
<1>7. TypeOK'
  <2>1. /\ prog' \in Seq(Frag) /\ Len(prog') = Len(prog) /\ prog'[Last].type = "fill"
        /\ \A i \in Frags : prog'[i].to <= Last
    BY <1>2, <1>3 DEF TypeOK
  <2>2. var' \in [Frags -> Int] /\ len' \in [Frags -> Int] BY <1>2, <1>3 DEF TypeOK
  <2>3. changed' \in BOOLEAN BY <1>2, <1>3, Zenon DEF TypeOK
  <2>4. new - old \in Int BY <1>5
  <2> QED BY <1>2, <1>3, <2>1, <2>2, <2>3, <2>4, TripTypes
<1>8. c < Last => addr'[c] + prog'[c].fix + Size(c)' = addr[c + 1] + stretch + (new - old)
  <2> SUFFICES ASSUME c < Last
               PROVE  addr'[c] + prog'[c].fix + Size(c)' = addr[c + 1] + stretch + (new - old) OBVIOUS
  <2>1. c \in 1 .. Last - 1 /\ c + 1 \in Frags BY <1>3 DEF TypeOK
  <2>2. addr[c + 1] = addr[c] + prog[c].fix + Size(c)
    BY <1>1, <1>2, <2>1 DEF IInv, Contiguous, Place
  <2>3. addr'[c] = addr[c] + stretch /\ prog'[c].fix = prog[c].fix BY <1>2, <1>3
  <2> HIDE DEF Frags, Last
  <2> QED BY <1>3, <1>4, <1>5, <1>6, <2>2, <2>3
<1>9. Settled(c)' BY <1>2 DEF Settled
<1> QED BY <1>1, <1>2, <1>5, <1>7, <1>8, <1>9, TripStep

\* What a reported .org becomes.
LEMMA ClosedOrg ==
  ASSUME NEW f \in Frag, NEW d \in Int
  PROVE  LET n == [f EXCEPT !.type = "align", !.skip = 0, !.off = 1, !.fix = d]
         IN n \in Frag /\ n.type = "align" /\ n.off = 1 /\ n.fix = d /\ n.to = f.to
<1> DEFINE R == [type : FragTypes, fix : Int, to : Nat, off : Int, skip : Nat,
                 jump : BOOLEAN, rvc : BOOLEAN]
           n == [f EXCEPT !.type = "align", !.skip = 0, !.off = 1, !.fix = d]
<1>1. f \in R BY DEF Frag
<1>2. n.type = "align" /\ n.off = 1 /\ n.fix = d /\ n.to = f.to BY <1>1
<1>3. n = [[[[f EXCEPT !.type = "align"] EXCEPT !.skip = 0] EXCEPT !.off = 1] EXCEPT !.fix = d] OBVIOUS
<1>4. [f EXCEPT !.type = "align"] \in R BY <1>1 DEF FragTypes
<1>5. ASSUME NEW r \in R PROVE [r EXCEPT !.skip = 0] \in R BY <1>5
<1>6. ASSUME NEW r \in R PROVE [r EXCEPT !.off = 1] \in R BY <1>6
<1>7. ASSUME NEW r \in R PROVE [r EXCEPT !.fix = d] \in R BY <1>7
<1> HIDE DEF n, R
<1>8. n \in R BY <1>3, <1>4, <1>5, <1>6, <1>7
<1>9. n.off > 0 BY <1>2
<1> QED BY <1>2, <1>8, <1>9 DEF Frag, n, R

\* An .org that is backwards too late becomes a fill of the bytes it has.
LEMMA OrgStep ==
  ASSUME IInv, RelaxOrg
  PROVE  IInv'
<1> USE DEF Frags, Last
<1>1. PICK c \in Frags : c = at BY DEF IInv, TypeOK
<1> DEFINE f == prog[c]
           target == OrgTarget(f, Moved)
           after == addr[c + 1] + stretch
<1>2. /\ pc = "relax" /\ f.type = "org" /\ addr' = Moved /\ UNCHANGED <<last, var, len, here, pass>>
      /\ \/ /\ Moved[c] + f.fix <= target /\ NextFrag(target - after)
            /\ UNCHANGED <<prog, changed, errors>>
         \/ /\ NextFrag(0) /\ changed' = TRUE
            /\ UNCHANGED <<prog, errors>>
         \/ /\ NextFrag(0)
            /\ prog' = [prog EXCEPT ![c] = [f EXCEPT
                  !.type = "align", !.skip = 0, !.off = 1, !.fix = after - Moved[c]]]
            /\ UNCHANGED changed
  BY <1>1 DEF RelaxOrg
<1>3. /\ TypeOK /\ c \in 1 .. Last - 1 /\ c + 1 \in Frags /\ Last \in Nat
      /\ addr \in [Frags -> Int] /\ stretch \in Int /\ f \in Frag /\ f.fix \in Int
  <2>1. TypeOK /\ Last \in Nat /\ c \in 1 .. Last /\ addr \in [Frags -> Int] /\ stretch \in Int
    BY DEF IInv, TypeOK
  <2>2. c # Last BY <1>2, <2>1 DEF TypeOK
  <2> QED BY <2>1, <2>2, SizeInt
<1>4. Moved[c] = addr[c] + stretch /\ Moved \in [Frags -> Int] /\ addr[c + 1] \in Int /\ addr[c] \in Int
  BY <1>1, <1>3 DEF Moved
<1>5. target \in Int /\ after \in Int
  <2>1. f.off \in Int /\ f.to \in Nat /\ f.to <= Last BY <1>3 DEF Frag, TypeOK
  <2>2. f.to # 0 => Moved[f.to] \in Int BY <1>3, <1>4, <2>1
  <2>3. after \in Int BY <1>3, <1>4
  <2>4. target \in Int
    <3> DEFINE M == Moved
    <3>1. target = OrgTarget(f, M) OBVIOUS
    <3>2. f.to # 0 => M[f.to] \in Int BY <2>2
    <3> HIDE DEF M, f, target
    <3> QED BY <2>1, <3>1, <3>2 DEF OrgTarget
  <2> QED BY <2>3, <2>4
<1>6. stretch = 0 => Moved = addr /\ after = addr[c + 1]
  BY <1>1, <1>3, <1>4 DEF Moved
<1>7. CASE NextFrag(target - after) /\ UNCHANGED <<prog, changed, errors>>
  <2>1. target - after \in Int BY <1>5
  <2>2. TypeOK' BY <1>2, <1>3, <1>7, <2>1, TripTypes DEF TypeOK
  <2>3. stretch = 0 /\ target - after = 0 => Settled(c)'
    <3> SUFFICES ASSUME stretch = 0, target - after = 0 PROVE Settled(c)' OBVIOUS
    <3>1. addr' = addr /\ addr[c + 1] = target BY <1>2, <1>4, <1>5, <1>6
    <3> QED BY <1>2, <1>6, <1>7, <3>1 DEF Settled
  <2>4. \A k \in Frags \ {c} : prog'[k] = prog[k] /\ var'[k] = var[k] /\ len'[k] = len[k]
    BY <1>2, <1>7
  <2>5. prog'[c].type = "org" BY <1>2, <1>7
  <2> HIDE DEF target, after, f
  <2> QED BY <1>1, <1>2, <1>7, <2>1, <2>2, <2>3, <2>4, <2>5, TripStep
<1>8. CASE NextFrag(0) /\ changed' = TRUE /\ UNCHANGED <<prog, errors>>
  <2>0. changed' \in BOOLEAN BY <1>8, Zenon
  <2>1. TypeOK'
    <3>1. /\ prog' \in Seq(Frag) /\ Len(prog') = Len(prog) /\ prog'[Last].type = "fill"
          /\ (\A i \in Frags : prog'[i].to <= Last)
          /\ var' \in [Frags -> Int] /\ len' \in [Frags -> Int]
      BY <1>2, <1>3, <1>8 DEF TypeOK
    <3>2. pc = "relax" /\ addr' = Moved /\ here' = here /\ TypeOK /\ NextFrag(0) /\ 0 \in Int
      BY <1>2, <1>3, <1>8
    <3> QED BY <2>0, <3>1, <3>2, TripTypes
  <2>2. Settled(c)' BY <1>2, <1>8 DEF Settled
  <2>3. prog'[c].type = "org" BY <1>2, <1>8
  <2> HIDE DEF target, after, f
  <2> QED BY <1>1, <1>2, <1>8, <2>1, <2>2, <2>3, TripStep
<1>9. CASE /\ NextFrag(0) /\ UNCHANGED changed
           /\ prog' = [prog EXCEPT ![c] = [f EXCEPT
                  !.type = "align", !.skip = 0, !.off = 1, !.fix = after - Moved[c]]]
  <2> DEFINE n == [f EXCEPT !.type = "align", !.skip = 0, !.off = 1, !.fix = after - Moved[c]]
  <2>1. n \in Frag /\ n.type = "align" /\ n.off = 1 /\ n.fix = after - Moved[c] /\ n.to = f.to
    <3>1. after - Moved[c] \in Int BY <1>4, <1>5
    <3> QED BY <1>3, <3>1, ClosedOrg
  <2>2. prog' = [prog EXCEPT ![c] = n] BY <1>9
  <2> HIDE DEF n
  <2>3. /\ prog' \in Seq(Frag) /\ Len(prog') = Len(prog) /\ prog'[c] = n
        /\ \A k \in Frags \ {c} : prog'[k] = prog[k]
    BY <1>3, <2>1, <2>2 DEF TypeOK
  <2>4. prog'[Last].type = "fill" /\ \A i \in Frags : prog'[i].to <= Last
    BY <1>3, <2>1, <2>3 DEF TypeOK
  <2> HIDE DEF target, after, f
  <2>5. TypeOK'
    <3>1. changed' \in BOOLEAN BY <1>3, <1>9, Zenon DEF TypeOK
    <3>2. var' \in [Frags -> Int] /\ len' \in [Frags -> Int] BY <1>2, <1>3 DEF TypeOK
    <3>3. pc = "relax" /\ addr' = Moved /\ here' = here /\ TypeOK /\ NextFrag(0) /\ 0 \in Int
      BY <1>2, <1>3, <1>9
    <3>4. prog' \in Seq(Frag) /\ Len(prog') = Len(prog) BY <2>3
    <3> QED BY <2>4, <3>1, <3>2, <3>3, <3>4, TripTypes
  <2>6. Size(c)' = 0
    <3>1. addr'[c] + n.fix \in Int BY <1>2, <1>4, <1>5, <2>1
    <3>2. (- (addr'[c] + n.fix)) % 1 = 0 BY <3>1
    <3> QED BY <2>1, <2>3, <3>2 DEF Size, relax_align
  <2>7. addr'[c] + prog'[c].fix + Size(c)' = addr[c + 1] + stretch + 0
    BY <1>2, <1>3, <1>4, <1>5, <2>1, <2>3, <2>6 DEF after
  <2>8. Settled(c)' BY <2>1, <2>3 DEF Settled
  <2> QED BY <1>1, <1>2, <1>9, <2>3, <2>5, <2>7, <2>8, TripStep
<1> QED BY <1>2, <1>7, <1>8, <1>9

\* The loops around it.
LEMMA OtherSteps ==
  ASSUME IInv, Check \/ Convert
  PROVE  IInv'
<1> USE DEF Frags, Last
<1>1. CASE Check
  <2>1. /\ pc = "check" /\ changed' = FALSE /\ UNCHANGED <<prog, addr, var, len, at, here, stretch, stretched, iterations>>
        /\ pc' = IF changed \/ last # addr THEN "estimate" ELSE "convert"
    BY <1>1 DEF Check
  <2>2. TypeOK' BY <2>1 DEF IInv, TypeOK
  <2>3. at = 1 /\ stretch = 0 BY <2>1 DEF IInv, Fixpoint
  <2>4. CASE pc' = "estimate"
    <3>1. Contiguous' BY <2>1, <2>3, <2>4 DEF Contiguous
    <3> QED BY <2>2, <2>4, <3>1 DEF IInv, Fixpoint
  <2>5. CASE pc' = "convert"
    <3>1. ~ changed BY <2>1, <2>5
    <3>2. Contiguous' BY <2>1, <2>5 DEF IInv, Contiguous, Place, Size
    <3>3. \A k \in Frags : Settled(k)' BY <2>1, <3>1 DEF IInv, Fixpoint, Settled
    <3> QED BY <2>1, <2>2, <2>3, <2>5, <3>2, <3>3 DEF IInv, Fixpoint
  <2> QED BY <2>1, <2>4, <2>5
<1>2. CASE Convert
  <2> DEFINE good == prog[at].type = "branch" =>
                       len[at] = var[at] /\ addr[at + 1] - addr[at] = prog[at].fix + var[at]
  <2>1. /\ pc = "convert" /\ UNCHANGED <<prog, addr, var, len, here, stretch, stretched, iterations, changed>>
        /\ pc' = IF ~ good THEN "abort" ELSE IF at < Last THEN pc ELSE "done"
        /\ at' = IF good /\ at < Last THEN at + 1 ELSE at
    BY <1>2 DEF Convert
  <2>2. at \in 1 .. Last /\ Last \in Nat /\ TypeOK /\ stretch = 0 /\ at \in Frags
    BY <2>1 DEF IInv, TypeOK, Fixpoint
  <2>3. good
    <3> SUFFICES ASSUME prog[at].type = "branch"
                 PROVE  len[at] = var[at] /\ addr[at + 1] - addr[at] = prog[at].fix + var[at]
      OBVIOUS
    <3>1. at \in 1 .. Last - 1 /\ at + 1 \in Frags BY <2>2 DEF TypeOK
    <3>2. addr[at + 1] = addr[at] + prog[at].fix + var[at]
      BY <2>1, <2>2, <3>1 DEF IInv, Contiguous, Place, Size
    <3>3. len[at] = var[at] BY <2>1, <2>2 DEF IInv, Fixpoint, Settled
    <3>4. addr[at] \in Int /\ prog[at].fix \in Int /\ var[at] \in Int BY <2>2, SizeInt DEF TypeOK
    <3> QED BY <3>2, <3>3, <3>4
  <2> HIDE DEF good
  <2>4. at' \in Frags /\ pc' \in {"convert", "done"} BY <2>1, <2>2, <2>3
  <2>5. TypeOK' BY <2>1, <2>4 DEF IInv, TypeOK
  <2>6. Contiguous'
    <3>1. \A k \in Frags : Place(k)' = addr[k] /\ Place(k) = addr[k]
      BY <2>1, <2>2, <2>4 DEF Place, TypeOK
    <3> SUFFICES ASSUME NEW k \in 1 .. Last - 1, prog[k].type # "org"
                 PROVE  Place(k + 1)' = addr'[k] + prog'[k].fix + Size(k)'
      BY <2>1, <2>4 DEF Contiguous
    <3>2. k + 1 \in Frags BY <2>2
    <3>3. Place(k + 1) = addr[k] + prog[k].fix + Size(k) BY <2>1 DEF IInv, Contiguous
    <3> QED BY <2>1, <3>1, <3>2, <3>3 DEF Size
  <2>7. \A k \in Frags : Settled(k)' BY <2>1 DEF IInv, Fixpoint, Settled
  <2> QED BY <2>1, <2>2, <2>4, <2>5, <2>6, <2>7 DEF IInv, Fixpoint
<1> QED BY <1>1, <1>2

\* The inductive invariant holds in every run of relax_segment and its callers.
THEOREM Invariance == Spec => []IInv
<1>1. Init => IInv BY InitIInv
<1>2. IInv /\ [Next]_vars => IInv'
  <2> SUFFICES ASSUME IInv, [Next]_vars PROVE IInv' OBVIOUS
  <2>1. CASE UNCHANGED vars
    BY <2>1 DEF vars, IInv, TypeOK, Contiguous, Fixpoint, Frags, Last, Place, Size, Settled
  <2>2. CASE Next
    BY <2>1, <2>2, EstimateStep, FillStep, BranchStep, AlignStep, OrgStep, OtherSteps DEF Next, Stopped
  <2> QED BY <2>1, <2>2
<1> QED BY <1>1, <1>2, PTL DEF Spec

-----------------------------------------------------------------------------
(* The properties *)

\* Every branch, executed, arrives: at its symbol in the final layout or behind its frag,
\* with displacements that fit and in the shortest form, and no assertion of the
\* conversion fails, for every program, reach and number of trips.
THEOREM BranchesArrive == Spec => []BranchArrives
<1> USE DEF Frags, Last
<1>1. ASSUME IInv PROVE BranchArrives
  <2>1. pc # "abort" BY <1>1 DEF IInv, TypeOK
  <2> SUFFICES ASSUME pc = "done", NEW i \in Branches
               PROVE  LET f == prog[i]
                          form == Form(f, len[i])
                          last1 == form[Len(form)]
                          start == From(i) + (IF Len(form) = 2 THEN form[1].size ELSE 0)
                      IN /\ (IF Len(form) = 2 THEN form[1].size ELSE 0) + last1.size = addr[i + 1] - From(i)
                         /\ last1.over = 0 /\ ~ last1.inv
                         /\ Len(form) = 2 => form[1].inv /\ form[1].over = addr[i + 1] - From(i)
                         /\ f.to # 0 /\ last1.range # 0 => Fits(addr[f.to] - start, last1.range)
                         /\ f.to # 0 => \A n \in {2, 4} : n < len[i] /\ (n = 2 => f.rvc) /\ Len(Form(f, n)) = 1 =>
                               ~ Fits(addr[f.to] - From(i), Form(f, n)[1].range)
    BY <2>1 DEF BranchArrives
  <2> DEFINE f == prog[i]
             n0 == len[i]
             val == addr[f.to] - From(i)
  <2>2. TypeOK /\ i \in Frags /\ f.type = "branch" /\ stretch = 0 BY <1>1 DEF IInv, Fixpoint, Branches
  <2>3. f \in Frag /\ f.fix \in Int /\ addr[i] \in Int BY <2>2, SizeInt
  <2>4. i \in 1 .. Last - 1 /\ i + 1 \in Frags BY <2>2 DEF TypeOK
  <2>5. n0 = var[i] /\ n0 = relaxed_branch_length(f, i, addr) BY <1>1, <2>2 DEF IInv, Fixpoint, Settled
  <2>6. addr[i + 1] = addr[i] + f.fix + n0
    <3>1. Place(i + 1) = addr[i] + f.fix + Size(i) BY <1>1, <2>2, <2>4 DEF IInv, Contiguous
    <3>2. Place(i + 1) = addr[i + 1] BY <2>2, <2>4 DEF Place, TypeOK
    <3>3. Size(i) = n0 BY <2>2, <2>5 DEF Size
    <3> QED BY <3>1, <3>2, <3>3
  <2>7. n0 \in {2, 4, 6, 8} BY <2>3, <2>5, LengthFacts
  <2>8. From(i) \in Int /\ addr[i + 1] - From(i) = n0 BY <2>3, <2>6, <2>7 DEF From
  <2>9. f.to # 0 => /\ addr[f.to] \in Int
                    /\ n0 = 2 <=> f.rvc /\ Fits(val, IF f.jump THEN RvcJump ELSE RvcBranch)
                    /\ n0 = 4 <=> ~ (f.rvc /\ Fits(val, IF f.jump THEN RvcJump ELSE RvcBranch))
                                    /\ (f.jump \/ Fits(val, Branch))
                    /\ n0 \in {6, 8} => ~ f.jump
    <3> SUFFICES ASSUME f.to # 0 PROVE addr[f.to] \in Int BY <2>3, <2>5, LengthFacts DEF From
    <3>1. f.to \in Nat /\ f.to <= Last BY <2>2, <2>3 DEF Frag, TypeOK
    <3> QED BY <2>2, <3>1 DEF TypeOK
  <2>10. f.to = 0 => n0 \in {4, 8} /\ (n0 = 4 => f.jump) BY <2>3, <2>5, LengthFacts
  <2>11. From(i) + 0 = From(i) BY <2>8
  <2> DEFINE form == Form(f, n0)
             g == From(i)
             short == IF f.jump THEN RvcJump ELSE RvcBranch
  <2> HIDE DEF f, n0, val, g
  <2>12. CASE n0 = 2
    <3>1. form = <<Insn(2, short, 0, FALSE)>> BY <2>12 DEF Form
    <3>2. Len(form) = 1 /\ form[1] = Insn(2, short, 0, FALSE) BY <3>1
    <3>3. f.to # 0 => Fits(val, short) BY <2>9, <2>12
    <3>4. f.to # 0 => Fits(addr[f.to] - (g + 0), short) BY <2>11, <3>3 DEF val, g
    <3>5. 0 + 2 = addr[i + 1] - From(i) BY <2>8, <2>12
    <3>6. \A n \in {2, 4} : ~ (n < n0) BY <2>12
    <3>7. \A n \in {2, 4} : n < n0 /\ (n = 2 => f.rvc) => ~ Fits(val, Form(f, n)[1].range)
      BY <3>6
    <3> HIDE DEF form, short
    <3> QED BY <3>2, <3>4, <3>5, <3>7 DEF Insn, n0, f, form, g, val
  <2>13. CASE n0 = 4
    <3>1. form = IF f.jump THEN <<Jal>> ELSE <<Insn(4, Branch, 0, FALSE)>> BY <2>13 DEF Form
    <3>2. Len(form) = 1 /\ form[1] = Insn(4, IF f.jump THEN 0 ELSE Branch, 0, FALSE)
      <4>1. CASE f.jump BY <3>1, <4>1 DEF Jal
      <4>2. CASE ~ f.jump BY <3>1, <4>2
      <4> QED BY <4>1, <4>2
    <3>3. Form(f, 2) = <<Insn(2, short, 0, FALSE)>> BY DEF Form
    <3>4. f.to # 0 => ~ (f.rvc /\ Fits(val, short)) /\ (f.jump \/ Fits(val, Branch)) BY <2>9, <2>13
    <3>5. f.to # 0 /\ ~ f.jump => Fits(addr[f.to] - (g + 0), Branch) BY <2>11, <3>4 DEF val, g
    <3>6. 0 + 4 = addr[i + 1] - From(i) BY <2>8, <2>13
    <3>7. f.to # 0 => \A n \in {2, 4} : n < n0 /\ (n = 2 => f.rvc) => ~ Fits(val, Form(f, n)[1].range)
      BY <2>13, <3>3, <3>4 DEF Insn
    <3> HIDE DEF form, short
    <3> QED BY <3>2, <3>5, <3>6, <3>7 DEF Insn, n0, f, form, g, val
  <2>14. CASE n0 \in {6, 8}
    <3>1. Form(f, n0) = IF n0 = 6 THEN <<Insn(2, RvcBranch, 6, TRUE), Jal>> ELSE <<Insn(4, Branch, 8, TRUE), Jal>>
      BY <2>14 DEF Form
    <3>2. Form(f, 2) = <<Insn(2, IF f.jump THEN RvcJump ELSE RvcBranch, 0, FALSE)>> BY DEF Form
    <3>3. Form(f, 4) = IF f.jump THEN <<Jal>> ELSE <<Insn(4, Branch, 0, FALSE)>> BY DEF Form
    <3> QED BY <2>8, <2>9, <2>10, <2>14, <3>1, <3>2, <3>3 DEF Insn, Jal, n0, f, val
  <2> QED BY <2>7, <2>12, <2>13, <2>14
<1> QED BY <1>1, Invariance, PTL

\* When the assembler is done with a section, every alignment ends on its boundary or
\* needs more than its limit, and every .org that was not reported ends at its target.
THEOREM PadsAreFilled == Spec => []PadsHold
<1> USE DEF Frags, Last
<1>1. ASSUME IInv PROVE PadsHold
  <2> SUFFICES ASSUME pc = "done", NEW i \in Frags
               PROVE  LET f == prog[i]
                          pad == addr[i + 1] - (addr[i] + f.fix)
                      IN /\ f.type = "align" =>
                              \/ addr[i + 1] % f.off = 0 /\ pad \in 0 .. f.off - 1
                              \/ f.skip # 0 /\ pad = 0
                         /\ f.type = "org" => addr[i + 1] = OrgTarget(f, addr)
    BY DEF PadsHold
  <2>1. TypeOK /\ stretch = 0 /\ ~ changed /\ Settled(i) BY <1>1 DEF IInv, Fixpoint
  <2>2. prog[i] \in Frag /\ prog[i].fix \in Int /\ addr[i] \in Int BY <2>1, SizeInt
  <2>3. prog[i].type = "org" => addr[i + 1] = OrgTarget(prog[i], addr) BY <2>1 DEF Settled
  <2>4. CASE prog[i].type = "align"
    <3> DEFINE a == addr[i] + prog[i].fix
               pad == relax_align(prog[i], a)
    <3>1. i \in 1 .. Last - 1 /\ i + 1 \in Frags BY <2>1, <2>4 DEF TypeOK
    <3>2. addr[i + 1] = a + pad
      <4>1. Place(i + 1) = addr[i] + prog[i].fix + Size(i) BY <1>1, <2>4, <3>1 DEF IInv, Contiguous
      <4>2. Place(i + 1) = addr[i + 1] BY <2>1, <3>1 DEF Place, TypeOK
      <4>3. Size(i) = pad BY <2>4 DEF Size
      <4> QED BY <4>1, <4>2, <4>3
    <3>3. a \in Int BY <2>2
    <3>4. pad \in Int BY <2>2, <2>4, <3>3, AlignInt
    <3>5. \/ (a + pad) % prog[i].off = 0 /\ pad \in 0 .. prog[i].off - 1
          \/ prog[i].skip # 0 /\ pad = 0
      BY <2>2, <2>4, <3>3, AlignFacts
    <3>6. addr[i + 1] - (addr[i] + prog[i].fix) = pad
      <4> HIDE DEF pad
      <4> QED BY <2>2, <3>2, <3>3, <3>4
    <3> HIDE DEF pad, a
    <3> QED BY <2>4, <3>2, <3>5, <3>6
  <2> QED BY <2>3, <2>4
<1> QED BY <1>1, Invariance, PTL

\* Every set of naturals that is not empty has a least member.
LEMMA LeastNumber ==
    ASSUME NEW S \in SUBSET Nat, S # {}
    PROVE  \E m \in S : \A k \in S : m <= k
<1> DEFINE T == {1 .. n : n \in S}
<1>1. IsWellFoundedOn(StrictSubsetOrdering(Nat), FiniteSubsetsOf(Nat))
  BY FS_StrictSubsetOrderingWellFounded
<1>2. T \subseteq FiniteSubsetsOf(Nat)
  <2>1. ASSUME NEW n \in S PROVE IsFiniteSet(1 .. n) /\ 1 .. n \in SUBSET Nat
    BY FS_Interval
  <2> QED BY <2>1 DEF FiniteSubsetsOf
<1>3. T # {}
  OBVIOUS
<1>4. \E x \in T : \A y \in T : ~ (<<y, x>> \in StrictSubsetOrdering(Nat))
  BY <1>1, <1>2, <1>3, WFMin
<1>5. PICK m \in S : \A y \in T : ~ (<<y, 1 .. m>> \in StrictSubsetOrdering(Nat))
  BY <1>4
<1>6. ASSUME NEW k \in S, k < m PROVE FALSE
  <2>1. 1 .. k \in T /\ 1 .. k \in SUBSET Nat /\ 1 .. m \in SUBSET Nat
    OBVIOUS
  <2>2. 1 .. k \subseteq 1 .. m /\ 1 .. k # 1 .. m
    <3>1. m \in 1 .. m /\ m \notin 1 .. k BY <1>6
    <3>2. ASSUME NEW z \in 1 .. k PROVE z \in 1 .. m BY <1>6
    <3> QED BY <3>1, <3>2
  <2>3. <<1 .. k, 1 .. m>> \in StrictSubsetOrdering(Nat)
    BY <2>1, <2>2 DEF StrictSubsetOrdering
  <2> QED BY <1>5, <2>1, <2>3
<1> QED BY <1>6

\* Induction up to N.
LEMMA UpToN ==
    ASSUME NEW N \in Nat, NEW S, 0 \in S, \A n \in 0 .. N : n \in S /\ n < N => n + 1 \in S
    PROVE  0 .. N \subseteq S
<1> DEFINE T == (0 .. N) \ S
<1> SUFFICES ASSUME T # {} PROVE FALSE
  OBVIOUS
<1>1. T \in SUBSET Nat
  OBVIOUS
<1>2. PICK m \in T : \A k \in T : m <= k
  BY <1>1, LeastNumber
<1>3. m \in 1 .. N /\ m - 1 \in 0 .. N /\ m - 1 < N /\ m - 1 + 1 = m
  OBVIOUS
<1>4. m - 1 \in S
  BY <1>2, <1>3
<1> QED
  BY <1>3, <1>4

\* Recursion over the integers: there is a function that goes on by to.
LEMMA Iterated ==
    ASSUME NEW N \in Nat, NEW x \in Int, NEW to \in [Int \X (1 .. N) -> Int]
    PROVE  \E g \in [0 .. N -> Int] : g[0] = x /\ \A n \in 1 .. N : g[n] = to[<<g[n - 1], n>>]
<1> DEFINE Good(g, k) == g[0] = x /\ \A n \in 1 .. N : n <= k => g[n] = to[<<g[n - 1], n>>]
           S == {k \in 0 .. N : \E g \in [0 .. N -> Int] : Good(g, k)}
<1>1. 0 \in S
  <2> DEFINE g == [n \in 0 .. N |-> x]
  <2>1. g \in [0 .. N -> Int] /\ g[0] = x OBVIOUS
  <2>2. \A n \in 1 .. N : ~(n <= 0) OBVIOUS
  <2> HIDE DEF g
  <2>3. Good(g, 0) BY <2>1, <2>2
  <2> QED BY <2>1, <2>3
<1>2. ASSUME NEW k \in 0 .. N, k \in S, k < N PROVE k + 1 \in S
  <2>1. PICK g \in [0 .. N -> Int] : Good(g, k)
    BY <1>2
  <2> DEFINE h == [n \in 0 .. N |-> IF n = k + 1 THEN to[<<g[k], k + 1>>] ELSE g[n]]
  <2>2. h \in [0 .. N -> Int]
    <3>1. k + 1 \in 1 .. N /\ g[k] \in Int BY <1>2
    <3>2. to[<<g[k], k + 1>>] \in Int BY <3>1
    <3> QED BY <3>2
  <2>3. h[0] = x BY <2>1, <1>2
  <2>4. ASSUME NEW n \in 1 .. N, n <= k + 1 PROVE h[n] = to[<<h[n - 1], n>>]
    <3>1. n - 1 \in 0 .. N /\ n - 1 # k + 1 /\ n \in 0 .. N BY <2>4
    <3>2. h[n - 1] = g[n - 1] BY <3>1
    <3>3. CASE n = k + 1 BY <3>1, <3>2, <3>3
    <3>4. CASE n # k + 1
      <4>1. n <= k /\ h[n] = g[n] BY <3>1, <3>4, <2>4
      <4> QED BY <4>1, <3>2, <2>1
    <3> QED BY <3>3, <3>4
  <2> HIDE DEF h
  <2>5. Good(h, k + 1) BY <2>3, <2>4
  <2>6. k + 1 \in 0 .. N BY <1>2
  <2> HIDE DEF Good
  <2> QED BY <2>2, <2>5, <2>6
<1> HIDE DEF S
<1>3. N \in S
  <2>1. 0 .. N \subseteq S BY <1>1, <1>2, UpToN
  <2> QED BY <2>1
<1>4. PICK g \in [0 .. N -> Int] : Good(g, N)
  BY <1>3 DEF S
<1>5. g[0] = x /\ \A n \in 1 .. N : n <= N BY <1>4
<1>6. \A n \in 1 .. N : g[n] = to[<<g[n - 1], n>>] BY <1>4, <1>5
<1> HIDE DEF Good
<1> QED BY <1>4, <1>5, <1>6

-----------------------------------------------------------------------------
(* MappingSymbols: the addresses of the frags *)

LEMMA PadOfNat ==
    ASSUME NEW x \in MapFrags, NEW a \in Int
    PROVE  PadOf(x, a) \in Nat
<1>1. x.pad \in Nat \ {0} /\ x.skip \in Nat BY DEF MapFrags
<1> DEFINE m == x.pad
           p == (m - (a % m)) % m
<1>2. a % m \in Int BY <1>1
<1>3. p \in 0 .. m - 1
  <2>1. m - (a % m) \in Int BY <1>1, <1>2
  <2> QED BY <1>1, <2>1
<1> HIDE DEF p
<1> QED BY <1>3 DEF PadOf, p

\* Frags follow each other, and padding is never negative.
LEMMA PaddingNat ==
    ASSUME frags \in Seq(MapFrags), NEW f \in 1 .. Len(frags) - 1
    PROVE  PaddingOf(f) \in Nat
<1> DEFINE N == Len(frags) - 1
           Next1(x, n) == x + Len(frags[n].body) + PadOf(frags[n], x + Len(frags[n].body))
           IsAddr(a) == a = [g \in 1 .. Len(frags) |->
                               IF g = 1 THEN 0
                               ELSE LET e == a[g - 1] + Len(frags[g - 1].body)
                                    IN e + PadOf(frags[g - 1], e)]
           F == CHOOSE a : IsAddr(a)
<1>0. Len(frags) \in Nat /\ f \in Int /\ 1 <= f /\ f <= Len(frags) - 1 OBVIOUS
<1>1. N \in Nat /\ Len(frags) = N + 1 BY <1>0
<1>2. ASSUME NEW x \in Int, NEW n \in 1 .. N
      PROVE  Next1(x, n) \in Int /\ Len(frags[n].body) \in Nat
             /\ PadOf(frags[n], x + Len(frags[n].body)) \in Nat
  <2>1. frags[n] \in MapFrags BY <1>1
  <2>2. Len(frags[n].body) \in Nat
    <3>1. frags[n].body \in Seq(Kinds) BY <2>1 DEF MapFrags
    <3> QED BY <3>1
  <2>3. x + Len(frags[n].body) \in Int BY <2>2
  <2>4. PadOf(frags[n], x + Len(frags[n].body)) \in Nat BY <2>1, <2>3, PadOfNat
  <2> QED BY <2>2, <2>4
<1> HIDE DEF N
<1>3. PICK g \in [0 .. N -> Int] : g[0] = 0 /\ \A n \in 1 .. N : g[n] = Next1(g[n - 1], n)
  <2> DEFINE go == [yn \in Int \X (1 .. N) |-> Next1(yn[1], yn[2])]
             z == 0
  <2> HIDE DEF Next1
  <2>1. \A y \in Int, n \in 1 .. N : Next1(y, n) \in Int BY <1>2
  <2>2. go \in [Int \X (1 .. N) -> Int] BY <2>1
  <2>3. z \in Int OBVIOUS
  <2>4. \A y \in Int, n \in 1 .. N : go[<<y, n>>] = Next1(y, n) OBVIOUS
  <2> HIDE DEF go, z
  <2>5. PICK g \in [0 .. N -> Int] : g[0] = z /\ \A n \in 1 .. N : g[n] = go[<<g[n - 1], n>>]
    BY <1>1, <2>2, <2>3, Iterated
  <2>6. ASSUME NEW n \in 1 .. N PROVE g[n] = Next1(g[n - 1], n)
    <3>1. n - 1 \in 0 .. N BY <1>1
    <3>2. g[n - 1] \in Int BY <3>1
    <3> QED BY <2>4, <2>5, <3>2
  <2>7. g[0] = 0 BY <2>5 DEF z
  <2> QED BY <2>6, <2>7
<1> DEFINE h == [j \in 1 .. Len(frags) |-> g[j - 1]]
<1>4. \E a : IsAddr(a)
  <2>1. ASSUME NEW j \in 1 .. Len(frags)
        PROVE  h[j] = IF j = 1 THEN 0 ELSE LET e == h[j - 1] + Len(frags[j - 1].body)
                                           IN e + PadOf(frags[j - 1], e)
    <3>1. CASE j = 1 BY <1>3, <3>1
    <3>2. CASE j # 1
      <4>1. j - 1 \in 1 .. N /\ j - 1 \in 1 .. Len(frags) BY <1>1, <3>2
      <4>2. h[j] = g[j - 1] /\ h[j - 1] = g[j - 1 - 1] BY <2>1, <4>1
      <4>3. g[j - 1] = Next1(g[j - 1 - 1], j - 1) BY <1>3, <4>1
      <4> HIDE DEF h
      <4> QED BY <3>2, <4>2, <4>3
    <3> QED BY <3>1, <3>2
  <2>2. h = [j \in 1 .. Len(frags) |-> IF j = 1 THEN 0
                 ELSE LET e == h[j - 1] + Len(frags[j - 1].body) IN e + PadOf(frags[j - 1], e)]
    BY <2>1
  <2> HIDE DEF h
  <2>3. IsAddr(h) BY <2>2
  <2> HIDE DEF IsAddr
  <2> QED BY <2>3
<1>5. Addr(frags) = F BY DEF Addr
<1>6. IsAddr(F)
  <2> HIDE DEF IsAddr
  <2> QED BY <1>4
<1> HIDE DEF F
<1>7. \A j \in 1 .. N : F[j + 1] = Next1(F[j], j)
  <2> SUFFICES ASSUME NEW j \in 1 .. N PROVE F[j + 1] = Next1(F[j], j) OBVIOUS
  <2>1. j + 1 \in 1 .. Len(frags) /\ j + 1 # 1 /\ j + 1 - 1 = j BY <1>1
  <2> QED BY <1>6, <2>1
<1>8. F[1] = 0 BY <1>1, <1>6
<1> DEFINE S == {j \in 0 .. N : F[j + 1] \in Int}
<1>9. 0 \in S BY <1>1, <1>8
<1>10. ASSUME NEW j \in 0 .. N, j \in S, j < N PROVE j + 1 \in S
  <2>1. j + 1 \in 1 .. N /\ j + 1 \in 0 .. N BY <1>1, <1>10
  <2>2. F[j + 1] \in Int BY <1>10
  <2>3. Next1(F[j + 1], j + 1) \in Int BY <1>2, <2>1, <2>2
  <2> HIDE DEF Next1
  <2> QED BY <1>7, <2>1, <2>3
<1> HIDE DEF S
<1>11. 0 .. N \subseteq S BY <1>1, <1>9, <1>10, UpToN
<1>12. f \in 1 .. N /\ f - 1 \in 0 .. N /\ f - 1 + 1 = f BY <1>1 DEF N
<1>13. F[f] \in Int
  <2>1. f - 1 \in S BY <1>11, <1>12
  <2> QED BY <1>12, <2>1 DEF S
<1>14. F[f + 1] = Next1(F[f], f) BY <1>7, <1>12
<1>15. /\ Len(frags[f].body) \in Nat /\ PadOf(frags[f], F[f] + Len(frags[f].body)) \in Nat
       /\ PaddingOf(f) = F[f + 1] - F[f] - Len(frags[f].body)
  BY <1>2, <1>5, <1>12, <1>13 DEF PaddingOf
<1> QED BY <1>13, <1>14, <1>15

-----------------------------------------------------------------------------
(* MappingSymbols: symbols and frags *)

Assembly == [frags : Seq(MapFrags), syms : Seq(Symbols), chain : SUBSET Nat, archMap : Archs \cup {"none"}]
Fitting(m) == m \in Assembly /\ MarksFit(m.frags, m.syms) /\ m.chain \subseteq 1 .. Len(m.syms)
Sound(m) == Fitting(m) /\ Inside(m.frags, m.syms)

\* n is m with one more symbol, the last one of frag f, at offset v.
MarkedAt(m, n, f, v) ==
    /\ Fitting(n) /\ Len(n.frags) = Len(m.frags)
    /\ n.frags[f].last # 0 /\ n.syms[n.frags[f].last].val = v
    /\ \A g \in 1 .. Len(m.frags) : n.frags[g].body = m.frags[g].body
    /\ \A g \in 1 .. Len(m.frags) : g # f =>
          /\ n.frags[g].last = m.frags[g].last
          /\ m.frags[g].last # 0 => n.syms[n.frags[g].last].val = m.syms[m.frags[g].last].val

\* make_mapping_symbol at or behind the last symbol of a frag.
LEMMA MakeFits ==
    ASSUME NEW m, Fitting(m), NEW name \in Names, NEW f \in 1 .. Len(m.frags), NEW v \in Nat,
           m.frags[f].last # 0 => m.syms[m.frags[f].last].val <= v
    PROVE  MarkedAt(m, Make(m, name, f, v), f, v)
<1>0. PICK fs, ss, id : fs = m.frags /\ ss = m.syms /\ id = Len(ss) + 1 OBVIOUS
<1> DEFINE n == Make(m, name, f, v)
           new == [name |-> name, frag |-> f, val |-> v]
           c == (m.chain \cup {id}) \ {Replaced(fs, ss, f, v)}
           a == IF name \in Archs THEN name ELSE m.archMap
           first == IF v = 0 THEN id ELSE fs[f].first
           x == [fs[f] EXCEPT !.first = first, !.last = id]
           fs2 == Marked(fs, f, v, id)
<1>1. /\ fs \in Seq(MapFrags) /\ ss \in Seq(Symbols) /\ m.chain \subseteq 1 .. Len(ss)
      /\ m.archMap \in Archs \cup {"none"} /\ m \in Assembly /\ MarksFit(fs, ss)
      /\ f \in 1 .. Len(fs) /\ (fs[f].last # 0 => ss[fs[f].last].val <= v)
  BY <1>0 DEF Fitting, Assembly, MarksFit
<1>2. fs[f] \in MapFrags /\ Len(ss) \in Nat /\ Len(fs) \in Nat /\ new \in Symbols /\ id \in Nat \ {0}
  <2>1. f \in Nat BY <1>1
  <2> QED BY <1>0, <1>1, <2>1 DEF Symbols
<1>3. x \in MapFrags /\ x.last = id /\ x.first = first /\ x.body = fs[f].body
  <2>1. first \in Nat BY <1>2 DEF MapFrags
  <2> HIDE DEF first
  <2> QED BY <1>2, <2>1 DEF MapFrags
<1>4. fs2 = [fs EXCEPT ![f] = x]
  BY <1>1, <1>2 DEF MapFrags, Marked
<1>5. n = [m EXCEPT !.syms = Append(ss, new), !.chain = c, !.frags = fs2, !.archMap = a]
  BY <1>0 DEF Make
<1> HIDE DEF n, x, new, c, a, fs2, first
<1>6. n.frags = fs2 /\ n.syms = Append(ss, new) /\ n.chain = c /\ n.archMap = a
  BY <1>1, <1>5 DEF Assembly
<1>7. n.frags \in Seq(MapFrags) /\ Len(n.frags) = Len(fs) /\ n.frags[f] = x
      /\ \A g \in 1 .. Len(fs) : g # f => n.frags[g] = fs[g]
  BY <1>1, <1>2, <1>3, <1>4, <1>6
<1>8. /\ n.syms \in Seq(Symbols) /\ Len(n.syms) = id /\ n.syms[id] = new
      /\ \A s \in 1 .. Len(ss) : n.syms[s] = ss[s]
  BY <1>0, <1>1, <1>2, <1>6
<1>9. new.frag = f /\ new.val = v BY DEF new
<1>10. MarksFit(n.frags, n.syms)
  <2>1. n.frags # << >> BY <1>1, <1>7 DEF MarksFit
  <2>2. ASSUME NEW s \in 1 .. id
        PROVE  LET g == n.syms[s].frag
               IN g \in 1 .. Len(fs) /\ n.frags[g].last # 0 /\ n.syms[s].val <= n.syms[n.frags[g].last].val
    <3>1. CASE s = id BY <1>1, <1>2, <1>3, <1>7, <1>8, <1>9, <3>1
    <3>2. CASE s # id
      <4>1. s \in 1 .. Len(ss) /\ n.syms[s] = ss[s] BY <1>0, <1>2, <1>8, <3>2
      <4>2. PICK g : g = ss[s].frag OBVIOUS
      <4>3. g \in 1 .. Len(fs) /\ fs[g].last # 0 /\ ss[s].val <= ss[fs[g].last].val
            /\ fs[g].last \in 1 .. Len(ss) /\ ss[s] \in Symbols /\ ss[fs[g].last] \in Symbols
        BY <1>1, <4>1, <4>2 DEF MarksFit
      <4>4. CASE g = f
        <5>1. ss[s].val <= v
          <6>1. ss[s].val \in Nat /\ ss[fs[f].last].val \in Nat BY <4>3, <4>4 DEF Symbols
          <6>2. ss[s].val <= ss[fs[f].last].val /\ ss[fs[f].last].val <= v BY <1>1, <4>3, <4>4
          <6> QED BY <6>1, <6>2
        <5> QED BY <1>2, <1>3, <1>7, <1>8, <1>9, <4>1, <4>2, <4>3, <4>4, <5>1
      <4>5. CASE g # f
        <5>1. n.frags[g] = fs[g] BY <1>7, <4>3, <4>5
        <5>2. n.syms[fs[g].last] = ss[fs[g].last] BY <1>8, <4>3
        <5> QED BY <4>1, <4>2, <4>3, <5>1, <5>2
      <4> QED BY <4>4, <4>5
    <3> QED BY <3>1, <3>2
  <2>3. ASSUME NEW g \in 1 .. Len(fs)
        PROVE  /\ n.frags[g].first # 0 => n.frags[g].first \in 1 .. id /\ n.syms[n.frags[g].first].val = 0
               /\ n.frags[g].last # 0 => n.frags[g].last \in 1 .. id
    <3>1. /\ fs[g].first # 0 => fs[g].first \in 1 .. Len(ss) /\ ss[fs[g].first].val = 0
          /\ fs[g].last # 0 => fs[g].last \in 1 .. Len(ss)
      BY <1>1, <2>3 DEF MarksFit
    <3>2. \A s \in 1 .. Len(ss) : s \in 1 .. id /\ n.syms[s] = ss[s] BY <1>0, <1>2, <1>8
    <3>3. id \in 1 .. id BY <1>2
    <3>4. CASE g = f
      <4>1. n.frags[g].first = first /\ n.frags[g].last = id BY <1>3, <1>7, <3>4
      <4>2. CASE v = 0
        <5>1. first = id BY <4>2 DEF first
        <5> QED BY <1>8, <1>9, <3>3, <4>1, <4>2, <5>1
      <4>3. CASE v # 0
        <5>1. first = fs[g].first BY <3>4, <4>3 DEF first
        <5> QED BY <3>1, <3>2, <3>3, <4>1, <5>1
      <4> QED BY <4>2, <4>3
    <3>5. CASE g # f
      <4>1. n.frags[g] = fs[g] BY <1>7, <3>5
      <4> QED BY <3>1, <3>2, <4>1
    <3> QED BY <3>4, <3>5
  <2> QED BY <1>7, <1>8, <2>1, <2>2, <2>3 DEF MarksFit
<1>11. Fitting(n)
  <2>1. n.chain \subseteq 1 .. Len(n.syms) BY <1>0, <1>1, <1>2, <1>6, <1>8 DEF c
  <2>2. n.chain \in SUBSET Nat /\ a \in Archs \cup {"none"} BY <1>1, <1>2, <1>8, <2>1 DEF a
  <2>3. n \in Assembly BY <1>1, <1>5, <1>6, <1>7, <1>8, <2>2 DEF Assembly
  <2> QED BY <1>10, <2>1, <2>3 DEF Fitting
<1>12. \A g \in 1 .. Len(fs) : g # f =>
          /\ n.frags[g].last = fs[g].last
          /\ fs[g].last # 0 => n.syms[n.frags[g].last].val = ss[fs[g].last].val
  BY <1>1, <1>7, <1>8 DEF MarksFit
<1>13. \A g \in 1 .. Len(fs) : n.frags[g].body = fs[g].body BY <1>3, <1>7
<1>14. n.frags[f].last # 0 /\ n.syms[n.frags[f].last].val = v BY <1>2, <1>3, <1>7, <1>8, <1>9
<1>15. MarkedAt(m, n, f, v) BY <1>0, <1>7, <1>11, <1>12, <1>13, <1>14 DEF MarkedAt
<1> QED BY <1>15 DEF n

\* Frags may grow, change their alignment or be followed by new ones.
LEMMA FragsFit ==
    ASSUME NEW m, Fitting(m), NEW fs \in Seq(MapFrags), Len(fs) >= Len(m.frags),
           \A f \in 1 .. Len(m.frags) : fs[f].first = m.frags[f].first /\ fs[f].last = m.frags[f].last,
           \A f \in 1 .. Len(fs) : f > Len(m.frags) => fs[f].first = 0 /\ fs[f].last = 0,
           \A f \in 1 .. Len(m.frags) : m.frags[f].last # 0 =>
              m.syms[m.frags[f].last].val <= Len(fs[f].body)
    PROVE  Sound([m EXCEPT !.frags = fs])
<1> DEFINE n == [m EXCEPT !.frags = fs]
<1>1. /\ m.frags \in Seq(MapFrags) /\ m.syms \in Seq(Symbols) /\ m \in Assembly /\ MarksFit(m.frags, m.syms)
      /\ m.chain \subseteq 1 .. Len(m.syms) /\ Len(m.frags) \in Nat /\ Len(fs) \in Nat
  BY DEF Fitting, Assembly, MarksFit
<1>2. n \in Assembly /\ n.frags = fs /\ n.syms = m.syms /\ n.chain = m.chain BY <1>1 DEF Assembly
<1> HIDE DEF n
<1>3. fs # << >> BY <1>1 DEF MarksFit
<1>4. ASSUME NEW s \in 1 .. Len(m.syms)
      PROVE  LET f == m.syms[s].frag
             IN f \in 1 .. Len(fs) /\ fs[f].last # 0 /\ m.syms[s].val <= m.syms[fs[f].last].val
  <2>1. PICK f : f = m.syms[s].frag OBVIOUS
  <2>2. f \in 1 .. Len(m.frags) /\ m.frags[f].last # 0 /\ m.syms[s].val <= m.syms[m.frags[f].last].val
    BY <1>1, <2>1 DEF MarksFit
  <2>3. f \in 1 .. Len(fs) BY <1>1, <2>2
  <2> QED BY <2>1, <2>2, <2>3
<1>5. ASSUME NEW f \in 1 .. Len(fs)
      PROVE  /\ fs[f].first # 0 => fs[f].first \in 1 .. Len(m.syms) /\ m.syms[fs[f].first].val = 0
             /\ fs[f].last # 0 => fs[f].last \in 1 .. Len(m.syms) /\ m.syms[fs[f].last].val <= Len(fs[f].body)
  <2>1. CASE f > Len(m.frags) BY <2>1
  <2>2. CASE f \in 1 .. Len(m.frags) BY <1>1, <2>2 DEF MarksFit
  <2> QED BY <1>1, <2>1, <2>2
<1>6. MarksFit(fs, m.syms) BY <1>1, <1>3, <1>4, <1>5 DEF MarksFit
<1>7. Inside(fs, m.syms) BY <1>5 DEF Inside
<1>8. Sound(n) BY <1>1, <1>2, <1>6, <1>7 DEF Sound, Fitting
<1> QED BY <1>8 DEF n

\* Extends(fs, gs): gs are the frags fs, perhaps longer, and perhaps more of them.
Extends(fs, gs) ==
    /\ gs \in Seq(MapFrags) /\ Len(gs) >= Len(fs)
    /\ \A f \in 1 .. Len(fs) : /\ gs[f].first = fs[f].first /\ gs[f].last = fs[f].last
                               /\ Len(gs[f].body) >= Len(fs[f].body)
    /\ \A f \in 1 .. Len(gs) : f > Len(fs) => gs[f].first = 0 /\ gs[f].last = 0

LEMMA BodyLen == ASSUME NEW x \in MapFrags PROVE x.body \in Seq(Kinds) /\ Len(x.body) \in Nat
<1>1. x.body \in Seq(Kinds) BY DEF MapFrags
<1> QED BY <1>1

LEMMA AppendFrag ==
    ASSUME NEW fs \in Seq(MapFrags)
    PROVE  LET gs == Append(fs, NewFrag)
           IN /\ Extends(fs, gs) /\ Len(gs) = Len(fs) + 1 /\ \A f \in 1 .. Len(fs) : gs[f] = fs[f]
<1> DEFINE gs == Append(fs, NewFrag)
<1>1. NewFrag \in MapFrags /\ NewFrag.first = 0 /\ NewFrag.last = 0
  <2>1. << >> \in Seq(Kinds) OBVIOUS
  <2> QED BY <2>1 DEF NewFrag, MapFrags
<1>2. /\ gs \in Seq(MapFrags) /\ Len(gs) = Len(fs) + 1 /\ gs[Len(fs) + 1] = NewFrag
      /\ \A f \in 1 .. Len(fs) : gs[f] = fs[f]
  BY <1>1
<1> HIDE DEF gs
<1>3. \A f \in 1 .. Len(fs) : fs[f] \in MapFrags OBVIOUS
<1>4. \A f \in 1 .. Len(fs) : Len(fs[f].body) >= Len(fs[f].body) BY <1>3, BodyLen
<1>5. ASSUME NEW f \in 1 .. Len(gs), f > Len(fs) PROVE gs[f].first = 0 /\ gs[f].last = 0
  <2>1. f = Len(fs) + 1 BY <1>2, <1>5
  <2> QED BY <1>1, <1>2, <2>1
<1>6. Len(gs) >= Len(fs) BY <1>2
<1>7. Extends(fs, gs) BY <1>2, <1>4, <1>5, <1>6 DEF Extends
<1> QED BY <1>2, <1>7 DEF gs

\* One frag is replaced by one that is as long or longer.
LEMMA ReplaceFrag ==
    ASSUME NEW fs \in Seq(MapFrags), NEW f \in 1 .. Len(fs), NEW x \in MapFrags,
           x.first = fs[f].first, x.last = fs[f].last, Len(x.body) >= Len(fs[f].body)
    PROVE  LET gs == [fs EXCEPT ![f] = x]
           IN /\ Extends(fs, gs) /\ Len(gs) = Len(fs) /\ gs[f] = x
              /\ \A g \in 1 .. Len(fs) : g # f => gs[g] = fs[g]
<1> DEFINE gs == [fs EXCEPT ![f] = x]
<1>1. gs \in Seq(MapFrags) /\ Len(gs) = Len(fs) /\ gs[f] = x /\ \A g \in 1 .. Len(fs) : g # f => gs[g] = fs[g]
  OBVIOUS
<1> HIDE DEF gs
<1>2. \A g \in 1 .. Len(fs) : Len(fs[g].body) >= Len(fs[g].body)
  <2>1. \A g \in 1 .. Len(fs) : fs[g] \in MapFrags OBVIOUS
  <2> QED BY <2>1, BodyLen
<1>3. \A g \in 1 .. Len(fs) : gs[g].first = fs[g].first /\ gs[g].last = fs[g].last /\ Len(gs[g].body) >= Len(fs[g].body)
  BY <1>1, <1>2
<1>4. Len(gs) >= Len(fs) /\ \A g \in 1 .. Len(gs) : ~(g > Len(fs)) BY <1>1
<1>5. Extends(fs, gs) BY <1>1, <1>3, <1>4 DEF Extends
<1> QED BY <1>1, <1>5 DEF gs

LEMMA ExtendsOn ==
    ASSUME NEW fs, NEW gs, NEW hs, Extends(fs, gs), Extends(gs, hs), fs \in Seq(MapFrags)
    PROVE  Extends(fs, hs)
<1>1. Len(fs) \in Nat /\ Len(gs) \in Nat /\ Len(hs) \in Nat BY DEF Extends
<1>2. ASSUME NEW f \in 1 .. Len(fs)
      PROVE  hs[f].first = fs[f].first /\ hs[f].last = fs[f].last /\ Len(hs[f].body) >= Len(fs[f].body)
  <2>1. f \in 1 .. Len(gs) /\ f \in 1 .. Len(hs) BY <1>1 DEF Extends
  <2>2. fs[f] \in MapFrags /\ gs[f] \in MapFrags /\ hs[f] \in MapFrags BY <2>1 DEF Extends
  <2>3. Len(fs[f].body) \in Nat /\ Len(gs[f].body) \in Nat /\ Len(hs[f].body) \in Nat BY <2>2, BodyLen
  <2> QED BY <2>1, <2>3 DEF Extends
<1>3. ASSUME NEW f \in 1 .. Len(hs), f > Len(fs) PROVE hs[f].first = 0 /\ hs[f].last = 0
  <2>1. CASE f > Len(gs) BY <2>1 DEF Extends
  <2>2. CASE f \in 1 .. Len(gs) BY <1>3, <2>2 DEF Extends
  <2> QED BY <1>1, <2>1, <2>2
<1>4. Len(hs) >= Len(fs) BY <1>1 DEF Extends
<1> QED BY <1>2, <1>3, <1>4 DEF Extends

LEMMA ExtendSound ==
    ASSUME NEW m, Sound(m), NEW fs, Extends(m.frags, fs)
    PROVE  Sound([m EXCEPT !.frags = fs])
<1>1. Fitting(m) /\ m.frags \in Seq(MapFrags) /\ m.syms \in Seq(Symbols) /\ MarksFit(m.frags, m.syms)
  BY DEF Sound, Fitting, Assembly
<1>2. ASSUME NEW f \in 1 .. Len(m.frags), m.frags[f].last # 0
      PROVE  m.syms[m.frags[f].last].val <= Len(fs[f].body)
  <2>1. m.frags[f] \in MapFrags /\ f \in 1 .. Len(fs) BY <1>1 DEF Extends
  <2>2. fs[f] \in MapFrags BY <2>1 DEF Extends
  <2>3. Len(m.frags[f].body) \in Nat /\ Len(fs[f].body) \in Nat /\ Len(fs[f].body) >= Len(m.frags[f].body)
    BY <2>1, <2>2, BodyLen DEF Extends
  <2>4. m.syms[m.frags[f].last].val <= Len(m.frags[f].body) BY <1>2 DEF Sound, Inside
  <2>5. m.syms[m.frags[f].last] \in Symbols BY <1>1, <1>2 DEF MarksFit
  <2>6. m.syms[m.frags[f].last].val \in Nat BY <2>5 DEF Symbols
  <2> QED BY <2>3, <2>4, <2>6
<1> QED BY <1>1, <1>2, FragsFit DEF Extends

LEMMA GrownExtends ==
    ASSUME NEW fs \in Seq(MapFrags), NEW new \in BOOLEAN
    PROVE  Extends(fs, Grown(fs, new))
<1>1. CASE new BY <1>1, AppendFrag DEF Grown
<1>2. CASE ~new
  <2>1. \A f \in 1 .. Len(fs) : fs[f] \in MapFrags OBVIOUS
  <2>2. \A f \in 1 .. Len(fs) : Len(fs[f].body) >= Len(fs[f].body) BY <2>1, BodyLen
  <2>3. Len(fs) >= Len(fs) /\ \A g \in 1 .. Len(fs) : ~(g > Len(fs)) OBVIOUS
  <2> QED BY <1>2, <2>2, <2>3 DEF Extends, Grown
<1> QED BY <1>1, <1>2

LEMMA PutExtends ==
    ASSUME NEW fs \in Seq(MapFrags), fs # << >>, NEW b \in Seq(Kinds)
    PROVE  /\ Extends(fs, Put(fs, b)) /\ Len(Put(fs, b)) = Len(fs)
           /\ Len(Put(fs, b)[Len(fs)].body) = Len(fs[Len(fs)].body) + Len(b)
<1>0. PICK n : n = Len(fs) OBVIOUS
<1> DEFINE x == [fs[n] EXCEPT !.body = @ \o b]
<1>1. n \in 1 .. Len(fs) /\ fs[n] \in MapFrags BY <1>0
<1>2. fs[n].body \in Seq(Kinds) BY <1>1, BodyLen
<1>3. fs[n].body \o b \in Seq(Kinds) /\ Len(fs[n].body \o b) = Len(fs[n].body) + Len(b) BY <1>2
<1>4. x \in MapFrags /\ x.first = fs[n].first /\ x.last = fs[n].last /\ x.body = fs[n].body \o b
  BY <1>1, <1>3 DEF MapFrags
<1>5. Len(b) \in Nat /\ Len(fs[n].body) \in Nat BY <1>2
<1>6. Len(x.body) >= Len(fs[n].body) BY <1>3, <1>4, <1>5
<1>7. Put(fs, b) = [fs EXCEPT ![n] = x] BY <1>0 DEF Put
<1> HIDE DEF x
<1>8. /\ Extends(fs, [fs EXCEPT ![n] = x]) /\ Len([fs EXCEPT ![n] = x]) = Len(fs) /\ [fs EXCEPT ![n] = x][n] = x
  <2>1. x \in MapFrags /\ x.first = fs[n].first /\ x.last = fs[n].last BY <1>4
  <2> QED BY <1>1, <1>6, <2>1, ReplaceFrag
<1> QED BY <1>0, <1>3, <1>4, <1>7, <1>8

LEMMA PaddedExtends ==
    ASSUME NEW fs \in Seq(MapFrags), NEW f \in 1 .. Len(fs), NEW b \in Seq(Kinds)
    PROVE  LET gs == Padded(fs, f, b)
           IN /\ gs \in Seq(MapFrags) /\ Extends(fs, gs) /\ Len(gs[f].body) = Len(fs[f].body) + Len(b)
<1>0. PICK y : y = fs[f].body \o b OBVIOUS
<1> DEFINE x == [fs[f] EXCEPT !.body = y, !.pad = 1]
<1>1. fs[f] \in MapFrags OBVIOUS
<1>2. fs[f].body \in Seq(Kinds) BY <1>1, BodyLen
<1>3. y \in Seq(Kinds) /\ Len(y) = Len(fs[f].body) + Len(b) BY <1>0, <1>2
<1>4. x \in MapFrags /\ x.first = fs[f].first /\ x.last = fs[f].last /\ x.body = y
  <2>1. PICK p \in Nat \ {0} : p = 1 OBVIOUS
  <2>2. x = [fs[f] EXCEPT !.body = y, !.pad = p] BY <2>1
  <2>3. DOMAIN fs[f] = {"body", "pad", "skip", "first", "last"} BY <1>1 DEF MapFrags
  <2>4. x.first = fs[f].first /\ x.last = fs[f].last /\ x.body = y BY <2>2, <2>3
  <2> QED BY <1>1, <1>3, <2>1, <2>2, <2>4 DEF MapFrags
<1>5. Len(b) \in Nat /\ Len(fs[f].body) \in Nat BY <1>2
<1>6. Len(x.body) >= Len(fs[f].body) BY <1>3, <1>4, <1>5
<1>7. Padded(fs, f, b) = [fs EXCEPT ![f] = x] BY <1>0, <1>1 DEF Padded, MapFrags
<1> HIDE DEF x
<1>8. /\ Extends(fs, [fs EXCEPT ![f] = x]) /\ [fs EXCEPT ![f] = x][f] = x
  BY <1>1, <1>4, <1>6, ReplaceFrag
<1> QED BY <1>3, <1>4, <1>7, <1>8 DEF Extends

LEMMA ClosedExtends ==
    ASSUME NEW fs \in Seq(MapFrags), fs # << >>, NEW n \in Nat \ {0}, NEW skip \in Nat
    PROVE  Extends(fs, Closed(fs, n, skip))
<1> DEFINE k == Len(fs)
           x == [fs[k] EXCEPT !.pad = n, !.skip = skip]
<1>1. k \in 1 .. Len(fs) /\ fs[k] \in MapFrags OBVIOUS
<1>2. x \in MapFrags /\ x.first = fs[k].first /\ x.last = fs[k].last /\ x.body = fs[k].body
  BY <1>1 DEF MapFrags
<1>3. Len(x.body) >= Len(fs[k].body) BY <1>1, <1>2, BodyLen
<1>4. Closed(fs, n, skip) = Append([fs EXCEPT ![k] = x], NewFrag) BY <1>1 DEF Closed
<1> HIDE DEF x
<1>5. Extends(fs, [fs EXCEPT ![k] = x]) BY <1>1, <1>2, <1>3, ReplaceFrag
<1>6. [fs EXCEPT ![k] = x] \in Seq(MapFrags) BY <1>5 DEF Extends
<1>7. Extends([fs EXCEPT ![k] = x], Append([fs EXCEPT ![k] = x], NewFrag)) BY <1>6, AppendFrag
<1> QED BY <1>4, <1>5, <1>7, ExtendsOn

LEMMA MapToSound ==
    ASSUME NEW m, Sound(m), arch \in Archs, NEW to \in {"d", "x"}, NEW align, NEW v \in Nat, v <= Now(m),
           m.frags[Len(m.frags)].last # 0 => m.syms[m.frags[Len(m.frags)].last].val <= v
    PROVE  LET n == MapTo(m, to, v, align)
           IN /\ Sound(n) /\ Len(n.frags) = Len(m.frags)
              /\ \A g \in 1 .. Len(m.frags) : n.frags[g].body = m.frags[g].body
<1>1. PICK f : f = Len(m.frags) OBVIOUS
<1>2. /\ Fitting(m) /\ Inside(m.frags, m.syms) /\ m.frags \in Seq(MapFrags) /\ m.frags # << >>
  BY DEF Sound, Fitting, MarksFit
<1>3. f \in 1 .. Len(m.frags) BY <1>1, <1>2
<1>4. CASE MapTo(m, to, v, align) = m BY <1>4
<1>5. CASE MapTo(m, to, v, align) # m
  <2>1. PICK name \in Names : MapTo(m, to, v, align) = Make(m, name, f, v)
    BY <1>1, <1>5 DEF MapTo, Names
  <2>2. PICK n : n = Make(m, name, f, v) OBVIOUS
  <2>3. /\ Fitting(n) /\ Len(n.frags) = Len(m.frags)
        /\ n.frags[f].last # 0 /\ n.syms[n.frags[f].last].val = v
        /\ \A g \in 1 .. Len(m.frags) : n.frags[g].body = m.frags[g].body
        /\ \A g \in 1 .. Len(m.frags) : g # f =>
              /\ n.frags[g].last = m.frags[g].last
              /\ m.frags[g].last # 0 => n.syms[n.frags[g].last].val = m.syms[m.frags[g].last].val
    <3>1. m.frags[f].last # 0 => m.syms[m.frags[f].last].val <= v BY <1>1
    <3>2. MarkedAt(m, n, f, v) BY <1>2, <1>3, <2>2, <3>1, MakeFits
    <3> QED BY <3>2 DEF MarkedAt
  <2>4. ASSUME NEW g \in 1 .. Len(n.frags), n.frags[g].last # 0
        PROVE  n.syms[n.frags[g].last].val <= Len(n.frags[g].body)
    <3>1. g \in 1 .. Len(m.frags) BY <2>3, <2>4
    <3>2. CASE g = f BY <1>1, <2>3, <3>1, <3>2 DEF Now
    <3>3. CASE g # f BY <1>2, <2>3, <2>4, <3>1, <3>3 DEF Inside
    <3> QED BY <3>2, <3>3
  <2>5. Sound(n) BY <2>3, <2>4 DEF Sound, Inside
  <2> QED BY <2>1, <2>2, <2>3, <2>5
<1> QED BY <1>4, <1>5

\* At the end of a frag the condition on the last symbol holds.
LEMMA EndSound ==
    ASSUME NEW m, Sound(m)
    PROVE  /\ Now(m) \in Nat /\ m.frags \in Seq(MapFrags) /\ m.frags # << >>
           /\ m.frags[Len(m.frags)].last # 0 => m.syms[m.frags[Len(m.frags)].last].val <= Now(m)
<1>1. PICK f : f = Len(m.frags) OBVIOUS
<1>2. m.frags \in Seq(MapFrags) /\ m.frags # << >> /\ Inside(m.frags, m.syms) BY DEF Sound, Fitting, MarksFit
<1>3. f \in 1 .. Len(m.frags) /\ m.frags[f] \in MapFrags BY <1>1, <1>2
<1>4. Len(m.frags[f].body) \in Nat BY <1>3, BodyLen
<1> QED BY <1>1, <1>2, <1>3, <1>4 DEF Inside, Now

LEMMA MapsSound == MapInv => Sound(Maps)
<1> SUFFICES ASSUME MapInv PROVE Sound(Maps) OBVIOUS
<1>1. /\ Maps.frags = frags /\ Maps.syms = syms /\ Maps.chain = chain BY DEF Maps
<1>2. chain \in SUBSET Nat BY DEF MapInv
<1>3. frags \in Seq(MapFrags) /\ syms \in Seq(Symbols) /\ archMap \in Archs \cup {"none"} BY DEF MapInv, MarksFit
<1>4. Maps \in Assembly BY <1>2, <1>3 DEF Maps, Assembly
<1> HIDE DEF Maps
<1> QED BY <1>1, <1>4 DEF Sound, Fitting, MapInv

LEMMA BecomesSound ==
    ASSUME NEW m, Sound(m), Becomes(m),
           arch' \in Archs, recAlign' \in Nat \ {0}, place' \in Nat \ {0}
    PROVE  MapInv'
<1>1. frags' = m.frags /\ syms' = m.syms /\ chain' = m.chain /\ archMap' = m.archMap BY DEF Becomes
<1>2. MarksFit(m.frags, m.syms) /\ Inside(m.frags, m.syms) /\ m.chain \subseteq 1 .. Len(m.syms)
      /\ m.archMap \in Archs \cup {"none"}
  BY DEF Sound, Fitting, Assembly
<1>3. MarksFit(frags', syms') /\ Inside(frags', syms') /\ chain' \subseteq 1 .. Len(syms')
      /\ archMap' \in Archs \cup {"none"}
  BY <1>1, <1>2
<1> QED BY <1>3 DEF MapInv

\* A line or a directive: the symbol is made, then the bytes follow.
LEMMA EmitSound ==
    ASSUME MapInv, NEW to \in {"d", "x"}, NEW b \in Seq(Kinds), NEW new \in BOOLEAN, Emit(to, b, new),
           UNCHANGED <<arch, recAlign, place>>
    PROVE  MapInv'
<1>1. PICK m0 : m0 = Maps OBVIOUS
<1>2. PICK m : m = MapTo(m0, to, Now(m0), FALSE) OBVIOUS
<1>3. Sound(m0) BY <1>1, MapsSound
<1>4. Now(m0) \in Nat /\ Now(m0) <= Now(m0)
      /\ (m0.frags[Len(m0.frags)].last # 0 => m0.syms[m0.frags[Len(m0.frags)].last].val <= Now(m0))
  BY <1>3, EndSound
<1>5. arch \in Archs BY DEF MapInv
<1>6. Sound(m) BY <1>2, <1>3, <1>4, <1>5, MapToSound
<1>7. m.frags \in Seq(MapFrags) /\ m.frags # << >> BY <1>6, EndSound
<1>8. PICK gs : gs = Grown(m.frags, new) OBVIOUS
<1>9. Extends(m.frags, gs) BY <1>7, <1>8, GrownExtends
<1>10. gs \in Seq(MapFrags) /\ gs # << >> BY <1>7, <1>9 DEF Extends
<1>11. Extends(m.frags, Put(gs, b)) BY <1>7, <1>9, <1>10, PutExtends, ExtendsOn
<1>12. Sound([m EXCEPT !.frags = Put(gs, b)]) BY <1>6, <1>11, ExtendSound
<1>13. Becomes([m EXCEPT !.frags = Put(gs, b)]) BY <1>1, <1>2, <1>8 DEF Emit
<1>14. arch' \in Archs /\ recAlign' \in Nat \ {0} /\ place' \in Nat \ {0} BY DEF MapInv
<1> QED BY <1>12, <1>13, <1>14, BecomesSound

LEMMA FillFacts ==
    ASSUME NEW x \in Kinds, NEW n \in Nat
    PROVE  Fill(x, n) \in Seq(Kinds) /\ Len(Fill(x, n)) = n
<1>1. Fill(x, n) \in [1 .. n -> Kinds] BY DEF Fill
<1>2. Fill(x, n) \in Seq(Kinds) BY <1>1
<1>3. DOMAIN Fill(x, n) = 1 .. n BY DEF Fill
<1> QED BY <1>2, <1>3

LEMMA NopsFacts ==
    ASSUME NEW n \in Nat
    PROVE  Nops(n) \in Seq(Kinds) /\ Len(Nops(n)) = n
<1>1. PICK r : r = n % 2 OBVIOUS
<1>2. r \in 0 .. 1 /\ r <= n BY <1>1
<1>3. r \in Nat /\ n - r \in Nat BY <1>2
<1>4. "zero" \in Kinds /\ "nop" \in Kinds BY DEF Kinds
<1>5. PICK a, b : a = Fill("zero", r) /\ b = Fill("nop", n - r) OBVIOUS
<1>6. a \in Seq(Kinds) /\ b \in Seq(Kinds) /\ Len(a) = r /\ Len(b) = n - r BY <1>3, <1>4, <1>5, FillFacts
<1>7. a \o b \in Seq(Kinds) /\ Len(a \o b) = Len(a) + Len(b) BY <1>6
<1> QED BY <1>1, <1>3, <1>5, <1>6, <1>7 DEF Nops

\* An alignment by a frag with a variable part.
LEMMA AlignFragSound ==
    ASSUME NEW m, Sound(m), arch \in Archs, NEW n \in Nat \ {0}, NEW skip \in Nat
    PROVE  Sound(AlignFrag(m, n, skip))
<1>1. PICK p : p = MapTo(m, "x", Now(m), TRUE) OBVIOUS
<1>2. Now(m) \in Nat /\ Now(m) <= Now(m)
      /\ (m.frags[Len(m.frags)].last # 0 => m.syms[m.frags[Len(m.frags)].last].val <= Now(m))
  BY EndSound
<1>3. Sound(p) BY <1>1, <1>2, MapToSound
<1>4. p.frags \in Seq(MapFrags) /\ p.frags # << >> BY <1>3, EndSound
<1>5. Extends(p.frags, Closed(p.frags, n, skip)) BY <1>4, ClosedExtends
<1>6. Sound([p EXCEPT !.frags = Closed(p.frags, n, skip)]) BY <1>3, <1>5, ExtendSound
<1> QED BY <1>1, <1>6 DEF AlignFrag

\* An alignment by NOPs: the symbol is made in front of them, after they are there.
LEMMA NopFragSound ==
    ASSUME NEW m, Sound(m), arch \in Archs, NEW nops \in Nat
    PROVE  Sound(NopFrag(m, nops))
<1>1. PICK b : b = Fill("nop", nops) OBVIOUS
<1>2. b \in Seq(Kinds) /\ Len(b) = nops
  <2>1. "nop" \in Kinds BY DEF Kinds
  <2> QED BY <1>1, <2>1, FillFacts
<1>3. PICK fs : fs = m.frags OBVIOUS
<1>4. fs \in Seq(MapFrags) /\ fs # << >> /\ Now(m) \in Nat /\ m \in Assembly
      /\ (fs[Len(fs)].last # 0 => m.syms[fs[Len(fs)].last].val <= Now(m))
  BY <1>3, EndSound DEF Sound, Fitting
<1>5. PICK gs : gs = Put(fs, b) OBVIOUS
<1>6. Extends(fs, gs) /\ Len(gs) = Len(fs) /\ Len(gs[Len(fs)].body) = Len(fs[Len(fs)].body) + Len(b)
  BY <1>2, <1>4, <1>5, PutExtends
<1>7. PICK p : p = [m EXCEPT !.frags = gs] OBVIOUS
<1>8. Sound(p) /\ p.frags = gs /\ p.syms = m.syms BY <1>3, <1>4, <1>6, <1>7, ExtendSound DEF Assembly
<1>9. Now(m) <= Now(p) BY <1>2, <1>3, <1>4, <1>6, <1>8 DEF Now
<1>10. p.frags[Len(p.frags)].last # 0 => p.syms[p.frags[Len(p.frags)].last].val <= Now(m)
  <2>1. Len(fs) \in 1 .. Len(fs) BY <1>4
  <2>2. gs[Len(fs)].last = fs[Len(fs)].last BY <1>6, <2>1 DEF Extends
  <2> QED BY <1>4, <1>6, <1>8, <2>2
<1>11. PICK q : q = MapTo(p, "x", Now(m), TRUE) OBVIOUS
<1>12. Sound(q) BY <1>4, <1>8, <1>9, <1>10, <1>11, MapToSound
<1>13. q.frags \in Seq(MapFrags) BY <1>12, EndSound
<1>14. Extends(q.frags, Append(q.frags, NewFrag)) BY <1>13, AppendFrag
<1>15. Sound([q EXCEPT !.frags = Append(q.frags, NewFrag)]) BY <1>12, <1>14, ExtendSound
<1>16. p = [m EXCEPT !.frags = Put(m.frags, Fill("nop", nops))] BY <1>1, <1>3, <1>5, <1>7
<1> QED BY <1>11, <1>15, <1>16 DEF NopFrag

\* riscv_add_odd_padding_symbol: the second symbol is one byte behind the end of the
\* frag, which the padding will be at least as long as.
LEMMA OddPaddingFits ==
    ASSUME NEW m, Sound(m), NEW f \in 1 .. Len(m.frags)
    PROVE  LET n == OddPadding(m, f)
           IN /\ Fitting(n) /\ Len(n.frags) = Len(m.frags)
              /\ n.frags[f].last # 0 => n.syms[n.frags[f].last].val <= Len(m.frags[f].body) + 1
              /\ \A g \in 1 .. Len(m.frags) : n.frags[g].body = m.frags[g].body
              /\ \A g \in 1 .. Len(m.frags) : g # f /\ n.frags[g].last # 0 =>
                    n.syms[n.frags[g].last].val <= Len(m.frags[g].body)
<1>1. PICK v : v = Len(m.frags[f].body) OBVIOUS
<1>2. /\ Fitting(m) /\ Inside(m.frags, m.syms) /\ m.frags \in Seq(MapFrags) /\ m.syms \in Seq(Symbols)
      /\ MarksFit(m.frags, m.syms)
  BY DEF Sound, Fitting, MarksFit
<1>3. m.frags[f] \in MapFrags BY <1>2
<1>4. v \in Nat BY <1>1, <1>3, BodyLen
<1>5. "d" \in Names /\ "x" \in Names BY DEF Names
<1>6. PICK d : d = Make(m, "d", f, v) OBVIOUS
<1>7. m.frags[f].last # 0 => m.syms[m.frags[f].last].val <= v BY <1>1, <1>2 DEF Inside
<1>8. /\ Fitting(d) /\ Len(d.frags) = Len(m.frags)
      /\ d.frags[f].last # 0 /\ d.syms[d.frags[f].last].val = v
      /\ \A g \in 1 .. Len(m.frags) : d.frags[g].body = m.frags[g].body
      /\ \A g \in 1 .. Len(m.frags) : g # f =>
            /\ d.frags[g].last = m.frags[g].last
            /\ m.frags[g].last # 0 => d.syms[d.frags[g].last].val = m.syms[m.frags[g].last].val
  <2>1. MarkedAt(m, d, f, v) BY <1>2, <1>4, <1>5, <1>6, <1>7, MakeFits
  <2> QED BY <2>1 DEF MarkedAt
<1>9. ASSUME NEW g \in 1 .. Len(m.frags), g # f, d.frags[g].last # 0
      PROVE  d.syms[d.frags[g].last].val <= Len(m.frags[g].body)
  BY <1>2, <1>8, <1>9 DEF Inside
<1>10. v <= v + 1 /\ v + 1 \in Nat BY <1>4
<1>11. CASE Replaced(m.frags, m.syms, f, v) = 0
  <2>1. OddPadding(m, f) = d BY <1>1, <1>6, <1>11 DEF OddPadding
  <2> QED BY <1>1, <1>8, <1>9, <1>10, <2>1
<1>12. CASE Replaced(m.frags, m.syms, f, v) # 0
  <2>1. PICK name : name = IF m.syms[Replaced(m.frags, m.syms, f, v)].name \in Archs
                           THEN m.syms[Replaced(m.frags, m.syms, f, v)].name ELSE "x"
    OBVIOUS
  <2>2. name \in Names BY <1>5, <2>1 DEF Names
  <2>3. PICK n : n = Make(d, name, f, v + 1) OBVIOUS
  <2>4. OddPadding(m, f) = n BY <1>1, <1>6, <1>12, <2>1, <2>3 DEF OddPadding
  <2>5. d.frags[f].last # 0 => d.syms[d.frags[f].last].val <= v + 1 BY <1>8, <1>10
  <2>6. f \in 1 .. Len(d.frags) BY <1>8
  <2>7. /\ Fitting(n) /\ Len(n.frags) = Len(d.frags)
        /\ n.frags[f].last # 0 /\ n.syms[n.frags[f].last].val = v + 1
        /\ \A g \in 1 .. Len(d.frags) : n.frags[g].body = d.frags[g].body
        /\ \A g \in 1 .. Len(d.frags) : g # f =>
              /\ n.frags[g].last = d.frags[g].last
              /\ d.frags[g].last # 0 => n.syms[n.frags[g].last].val = d.syms[d.frags[g].last].val
    <3>1. MarkedAt(d, n, f, v + 1) BY <1>8, <1>10, <2>2, <2>3, <2>5, <2>6, MakeFits
    <3> QED BY <3>1 DEF MarkedAt
  <2>8. ASSUME NEW g \in 1 .. Len(m.frags), g # f, n.frags[g].last # 0
        PROVE  n.syms[n.frags[g].last].val <= Len(m.frags[g].body)
    BY <1>8, <1>9, <2>7, <2>8
  <2>9. n.syms[n.frags[f].last].val <= v + 1 BY <1>10, <2>7
  <2> QED BY <1>1, <1>8, <2>4, <2>7, <2>8, <2>9
<1> QED BY <1>11, <1>12

-----------------------------------------------------------------------------
(* MappingSymbols: lines *)

LEMMA InstructionSound ==
    ASSUME MapInv, NEW n \in InsnSizes, NEW new \in BOOLEAN, Instruction(n, new)
    PROVE  MapInv'
<1>1. n \in Nat BY MapAssumption
<1>2. arch \in Kinds BY DEF MapInv, Kinds
<1>3. Fill(arch, n) \in Seq(Kinds) BY <1>1, <1>2, FillFacts
<1>4. Emit("x", Fill(arch, n), new) /\ UNCHANGED <<arch, recAlign, place>> BY DEF Instruction
<1> QED BY <1>3, <1>4, EmitSound

LEMMA DataSound ==
    ASSUME MapInv, NEW n \in DataSizes, NEW new \in BOOLEAN, Data(n, new)
    PROVE  MapInv'
<1>1. n \in Nat BY MapAssumption
<1>2. "d" \in Kinds BY DEF Kinds
<1>3. Fill("d", n) \in Seq(Kinds) BY <1>1, <1>2, FillFacts
<1>4. Emit("d", Fill("d", n), new) /\ UNCHANGED <<arch, recAlign, place>> BY DEF Data
<1> QED BY <1>3, <1>4, EmitSound

LEMMA GrownSound ==
    ASSUME MapInv, NEW new \in BOOLEAN
    PROVE  Sound([Maps EXCEPT !.frags = Grown(@, new)])
<1>1. PICK m : m = Maps OBVIOUS
<1>2. Sound(m) BY <1>1, MapsSound
<1>3. m.frags \in Seq(MapFrags) BY <1>2, EndSound
<1>4. Extends(m.frags, Grown(m.frags, new)) BY <1>3, GrownExtends
<1>5. Sound([m EXCEPT !.frags = Grown(m.frags, new)]) BY <1>2, <1>4, ExtendSound
<1> QED BY <1>1, <1>5

LEMMA AlignSound ==
    ASSUME MapInv, NEW n \in Aligns, NEW skip \in Skips, NEW new \in BOOLEAN, Align(n, skip, new)
    PROVE  MapInv'
<1>1. n \in Nat \ {0} /\ skip \in Nat BY MapAssumption
<1>2. arch \in Archs /\ recAlign \in Nat \ {0} /\ place \in Nat \ {0} BY DEF MapInv
<1>3. arch' = arch /\ place' = place /\ recAlign' = IF n > recAlign THEN n ELSE recAlign BY DEF Align
<1>4. arch' \in Archs /\ recAlign' \in Nat \ {0} /\ place' \in Nat \ {0} BY <1>1, <1>2, <1>3
<1>5. CASE n <= InsnAlign
  <2>1. UNCHANGED <<frags, syms, chain, archMap>> BY <1>5 DEF Align
  <2> QED BY <1>4, <2>1 DEF MapInv
<1>6. CASE ~(n <= InsnAlign)
  <2>1. PICK m : m = [Maps EXCEPT !.frags = Grown(@, new)] OBVIOUS
  <2>2. Sound(m) BY <2>1, GrownSound
  <2>3. Becomes(IF relax THEN NopFrag(m, n - InsnAlign) ELSE AlignFrag(m, n, skip))
    BY <1>6, <2>1 DEF Align
  <2>4. n - InsnAlign \in Nat BY <1>1, <1>6 DEF InsnAlign
  <2>5. n \in Nat \ {0} BY <1>1
  <2>6. Sound(NopFrag(m, n - InsnAlign)) BY <1>2, <2>2, <2>4, NopFragSound
  <2>7. Sound(AlignFrag(m, n, skip)) BY <1>1, <1>2, <2>2, <2>5, AlignFragSound
  <2>8. CASE relax BY <1>4, <2>3, <2>6, <2>8, BecomesSound
  <2>9. CASE ~relax BY <1>4, <2>3, <2>7, <2>9, BecomesSound
  <2> QED BY <2>8, <2>9
<1> QED BY <1>5, <1>6

LEMMA FinishSound ==
    ASSUME MapInv, NEW new \in BOOLEAN, Finish(new)
    PROVE  MapInv'
<1>1. arch \in Archs /\ recAlign \in Nat \ {0} /\ place \in Nat \ {0} BY DEF MapInv
<1>2. PICK m : m = [Maps EXCEPT !.frags = Grown(@, new)] OBVIOUS
<1>3. Sound(m) BY <1>2, GrownSound
<1>4. Sound(AlignFrag(m, recAlign, 0)) BY <1>1, <1>3, AlignFragSound
<1>5. Becomes(AlignFrag(m, recAlign, 0)) BY <1>2 DEF Finish
<1>6. arch' \in Archs /\ recAlign' \in Nat \ {0} /\ place' \in Nat \ {0} BY <1>1 DEF Finish
<1> QED BY <1>4, <1>5, <1>6, BecomesSound

\* riscv_handle_align: the padding covers the symbols that the odd byte needs.
LEMMA HandleAlignSound ==
    ASSUME MapInv, HandleAlign
    PROVE  MapInv'
<1>1. /\ arch \in Archs /\ recAlign \in Nat \ {0} /\ place \in Nat \ {0}
      /\ frags \in Seq(MapFrags) /\ place < Len(frags)
  BY DEF MapInv, MarksFit, HandleAlign
<1>2. arch' \in Archs /\ recAlign' \in Nat \ {0} /\ place' \in Nat \ {0} BY <1>1 DEF HandleAlign
<1>3. place \in 1 .. Len(frags) - 1 /\ place \in 1 .. Len(frags) BY <1>1
<1>4. PICK n \in Nat : n = PaddingOf(place) BY <1>1, <1>3, PaddingNat
<1>5. PICK m0 : m0 = Maps OBVIOUS
<1>6. Sound(m0) /\ m0.frags = frags /\ m0 \in Assembly
  <2>1. m0.frags = frags BY <1>5 DEF Maps
  <2>2. Sound(m0) BY <1>5, MapsSound
  <2> QED BY <2>1, <2>2 DEF Sound, Fitting
<1>7. PICK m, pad : /\ m = IF ~ relax /\ n % 2 = 1 THEN OddPadding(m0, place) ELSE m0
                    /\ pad = IF relax THEN Fill("fill", n) ELSE Nops(n)
  OBVIOUS
<1>8. pad \in Seq(Kinds) /\ Len(pad) = n
  <2>1. "fill" \in Kinds BY DEF Kinds
  <2> QED BY <1>7, <2>1, FillFacts, NopsFacts
<1>9. Becomes([m EXCEPT !.frags = Padded(@, place, pad)]) BY <1>4, <1>5, <1>7 DEF HandleAlign
<1>10. Sound([m EXCEPT !.frags = Padded(m.frags, place, pad)])
  <2>1. CASE ~ (~ relax /\ n % 2 = 1)
    <3>1. m = m0 BY <1>7, <2>1
    <3>2. Extends(m.frags, Padded(m.frags, place, pad)) BY <1>1, <1>3, <1>6, <1>8, <3>1, PaddedExtends
    <3> QED BY <1>6, <3>1, <3>2, ExtendSound
  <2>2. CASE ~ relax /\ n % 2 = 1
    <3>1. m = OddPadding(m0, place) /\ n >= 1
      <4>1. m = OddPadding(m0, place) BY <1>7, <2>2
      <4>2. n # 0 BY <2>2
      <4> QED BY <4>1, <4>2
    <3>2. /\ Fitting(m) /\ Len(m.frags) = Len(frags)
          /\ m.frags[place].last # 0 => m.syms[m.frags[place].last].val <= Len(frags[place].body) + 1
          /\ \A g \in 1 .. Len(frags) : m.frags[g].body = frags[g].body
          /\ \A g \in 1 .. Len(frags) : g # place /\ m.frags[g].last # 0 =>
                m.syms[m.frags[g].last].val <= Len(frags[g].body)
      BY <1>3, <1>6, <3>1, OddPaddingFits
    <3>3. PICK gs : gs = Padded(m.frags, place, pad) OBVIOUS
    <3>4. m.frags \in Seq(MapFrags) /\ m.syms \in Seq(Symbols) /\ MarksFit(m.frags, m.syms)
      BY <3>2 DEF Fitting, Assembly
    <3>5. place \in 1 .. Len(m.frags) BY <1>3, <3>2
    <3>6. gs \in Seq(MapFrags) /\ Extends(m.frags, gs) /\ Len(gs[place].body) = Len(m.frags[place].body) + Len(pad)
      BY <1>8, <3>3, <3>4, <3>5, PaddedExtends
    <3>7. ASSUME NEW g \in 1 .. Len(m.frags), m.frags[g].last # 0
          PROVE  m.syms[m.frags[g].last].val <= Len(gs[g].body)
      <4>1. m.frags[g] \in MapFrags /\ g \in 1 .. Len(gs) BY <3>4, <3>6 DEF Extends
      <4>2. gs[g] \in MapFrags BY <3>6, <4>1
      <4>3. Len(m.frags[g].body) \in Nat /\ Len(gs[g].body) \in Nat
            /\ Len(gs[g].body) >= Len(m.frags[g].body)
        BY <3>6, <4>1, <4>2, BodyLen DEF Extends
      <4>4. m.syms[m.frags[g].last] \in Symbols BY <3>4, <3>7 DEF MarksFit
      <4>5. m.syms[m.frags[g].last].val \in Nat BY <4>4 DEF Symbols
      <4>6. g \in 1 .. Len(frags) /\ m.frags[g].body = frags[g].body BY <3>2
      <4>7. CASE g = place
        <5>1. m.syms[m.frags[g].last].val <= Len(m.frags[g].body) + 1 BY <3>2, <3>7, <4>6, <4>7
        <5>2. Len(gs[g].body) = Len(m.frags[g].body) + n BY <1>8, <3>6, <4>7
        <5> QED BY <3>1, <4>3, <4>5, <5>1, <5>2
      <4>8. CASE g # place
        <5>1. m.syms[m.frags[g].last].val <= Len(m.frags[g].body) BY <3>2, <3>7, <4>6, <4>8
        <5>2. PICK i, j, k : /\ i = m.syms[m.frags[g].last].val /\ j = Len(m.frags[g].body)
                             /\ k = Len(gs[g].body)
          OBVIOUS
        <5>3. i \in Nat /\ j \in Nat /\ k \in Nat /\ i <= j /\ j <= k BY <4>3, <4>5, <5>1, <5>2
        <5> QED BY <5>2, <5>3
      <4> QED BY <4>7, <4>8
    <3>8. Sound([m EXCEPT !.frags = gs]) BY <3>2, <3>6, <3>7, FragsFit DEF Extends
    <3> QED BY <3>3, <3>8
  <2> QED BY <2>1, <2>2
<1> QED BY <1>2, <1>9, <1>10, BecomesSound

LEMMA MapInitInv == MapInit => MapInv
<1> SUFFICES ASSUME MapInit PROVE MapInv OBVIOUS
<1>1. NewFrag \in MapFrags /\ NewFrag.first = 0 /\ NewFrag.last = 0
  <2>1. << >> \in Seq(Kinds) OBVIOUS
  <2> QED BY <2>1 DEF NewFrag, MapFrags
<1>2. frags = <<NewFrag>> /\ syms = << >> BY DEF MapInit
<1>3. frags \in Seq(MapFrags) /\ frags # << >> /\ Len(frags) = 1 /\ frags[1] = NewFrag
  BY <1>1, <1>2
<1>4. syms \in Seq(Symbols) /\ Len(syms) = 0 BY <1>2
<1>5. \A f \in 1 .. Len(frags) : frags[f].first = 0 /\ frags[f].last = 0 BY <1>1, <1>3
<1>6. MarksFit(frags, syms) BY <1>3, <1>4, <1>5 DEF MarksFit
<1>7. Inside(frags, syms) BY <1>5 DEF Inside
<1> QED BY <1>6, <1>7 DEF MapInit, MapInv

LEMMA MapStepInv == MapInv /\ [MapNext]_mapVars => MapInv'
<1> SUFFICES ASSUME MapInv, [MapNext]_mapVars PROVE MapInv' OBVIOUS
<1>0. News \subseteq BOOLEAN BY DEF News
<1>1. CASE \E new \in News, n \in InsnSizes : Instruction(n, new) BY <1>0, <1>1, InstructionSound
<1>2. CASE \E new \in News, n \in DataSizes : Data(n, new) BY <1>0, <1>2, DataSound
<1>3. CASE \E new \in News, n \in Aligns, s \in Skips : Align(n, s, new) BY <1>0, <1>3, AlignSound
<1>4. CASE \E new \in News : Finish(new) BY <1>0, <1>4, FinishSound
<1>5. CASE \E a \in Archs : OptionArch(a) BY <1>5 DEF OptionArch, MapInv
<1>6. CASE \E b \in Relaxes : OptionRelax(b) BY <1>6 DEF OptionRelax, MapInv
<1>7. CASE HandleAlign BY <1>7, HandleAlignSound
<1>8. CASE Sized BY <1>8 DEF Sized, MapInv
<1>9. CASE CheckFrag
  <2>1. PICK ex : ex = ExcessOf(place) OBVIOUS
  <2>2. /\ chain' = chain \ ex /\ place' = place + 1
        /\ UNCHANGED <<frags, syms, archMap, arch, recAlign>>
    BY <1>9, <2>1 DEF CheckFrag
  <2>3. place \in Nat \ {0} /\ chain \subseteq 1 .. Len(syms) BY DEF MapInv
  <2>4. place + 1 \in Nat \ {0} BY <2>3
  <2>5. chain \ ex \subseteq 1 .. Len(syms) BY <2>3
  <2>6. place' \in Nat \ {0} BY <2>2, <2>4
  <2>7. chain' \subseteq 1 .. Len(syms) BY <2>2, <2>5
  <2> QED BY <2>2, <2>6, <2>7 DEF MapInv
<1>10. CASE Checked BY <1>10 DEF Checked, MapInv
<1>11. CASE UNCHANGED mapVars BY <1>11 DEF mapVars, MapInv
<1> QED BY <1>1, <1>2, <1>3, <1>4, <1>5, <1>6, <1>7, <1>8, <1>9, <1>10, <1>11 DEF MapNext, AsStep, MapStopped

\* Through parsing, sizing and checking (make_mapping_symbol, riscv_handle_align,
\* riscv_check_mapping_symbols) first_map_symbol and last_map_symbol of a frag point
\* to symbols of it, the last one is the furthest on, and it is not behind its bytes.
THEOREM MarksStayInside == MapSpec => []MapInv
<1>1. MapInit => MapInv BY MapInitInv
<1>2. MapInv /\ [MapNext]_mapVars => MapInv' BY MapStepInv
<1> QED BY <1>1, <1>2, PTL DEF MapSpec

\* The know() of make_mapping_symbol and riscv_check_mapping_symbols: mapping symbols
\* are made in offset order, also those that riscv_add_odd_padding_symbol makes when
\* the sizes are known, and the first one of a frag is at its start.
THEOREM MarksInOrder == MapSpec => []OffsetOrder
<1>1. MapInv => OffsetOrder
  <2> SUFFICES ASSUME MapInv PROVE OffsetOrder OBVIOUS
  <2>1. MarksFit(frags, syms) /\ chain \subseteq 1 .. Len(syms) BY DEF MapInv
  <2>2. ASSUME NEW f \in 1 .. Len(frags) PROVE frags[f].first # 0 => syms[frags[f].first].val = 0
    BY <2>1 DEF MarksFit
  <2>3. ASSUME NEW f \in 1 .. Len(frags), NEW s \in chain, syms[s].frag = f
        PROVE  syms[s].val <= syms[frags[f].last].val
    <3>1. s \in 1 .. Len(syms) BY <2>1
    <3> QED BY <2>1, <2>3, <3>1 DEF MarksFit
  <2> QED BY <2>2, <2>3 DEF OffsetOrder
<1> QED BY <1>1, MarksStayInside, PTL
=============================================================================
