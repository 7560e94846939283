------------------------- MODULE RelaxLayoutProofs -------------------------
(***************************************************************************)
(* Proofs about RelaxLayout for any number of sections, calls, alignment    *)
(* directives and labels, and any reach of the jumps.                       *)
(*                                                                          *)
(* The argument for the range of shortened calls: when relax_call shortens  *)
(* a call, it adds to the distance the largest alignment between its ends.  *)
(* From then on the two ends only move down (HistOK), and the distance can  *)
(* grow only because alignment holds up what lies between them.  Counted in *)
(* whole margins, though, every section the walk has placed between the two *)
(* ends has moved down at least as far as the lower end (FollowsDown), so   *)
(* the growth is less than one margin.                                      *)
(*                                                                          *)
(* HeadersShrink, the only hypothesis beyond the assumptions on constants,  *)
(* says that the program headers do not grow while relaxation is going on.  *)
(***************************************************************************)
EXTENDS RelaxLayout, TLAPS

-----------------------------------------------------------------------------
(* Alignment arithmetic *)

\* A multiple, and conversely.
LEMMA DividesWitness ==
    ASSUME NEW a \in Nat \ {0}, NEW b \in Int, Divides(a, b)
    PROVE  \E n \in Int : b = n * a
<1>1. b = a * (b \div a) + (b % a)
  OBVIOUS
<1>2. b \div a \in Int
  OBVIOUS
<1>3. b = (b \div a) * a
  BY <1>1, <1>2 DEF Divides
<1> QED
  BY <1>2, <1>3

\* Every multiple of a is divided by a.
LEMMA WitnessDivides ==
    ASSUME NEW a \in Nat \ {0}, NEW n \in Int
    PROVE  Divides(a, n * a)
<1> DEFINE b == n * a
<1>1. b \in Int
  OBVIOUS
<1>2. b = a * (b \div a) + (b % a) /\ b \div a \in Int /\ b % a \in 0 .. a - 1
  BY <1>1
<1>3. b % a = (n - (b \div a)) * a
  BY <1>2
<1>4. b % a = 0
  BY <1>2, <1>3
<1> QED
  BY <1>4 DEF Divides

\* Differences of multiples are multiples.
LEMMA DividesSub ==
    ASSUME NEW a \in Nat \ {0}, NEW b \in Int, NEW c \in Int, Divides(a, b), Divides(a, c)
    PROVE  Divides(a, b - c)
<1>1. PICK n \in Int : b = n * a
  BY DividesWitness
<1>2. PICK m \in Int : c = m * a
  BY DividesWitness
<1>3. b - c = (n - m) * a /\ n - m \in Int
  BY <1>1, <1>2
<1> QED
  BY <1>3, WitnessDivides

\* Divisibility is transitive.
LEMMA DividesTrans ==
    ASSUME NEW a \in Nat \ {0}, NEW b \in Nat \ {0}, NEW c \in Int,
           Divides(a, b), Divides(b, c)
    PROVE  Divides(a, c)
<1>1. PICK n \in Int : b = n * a
  BY DividesWitness
<1>2. PICK m \in Int : c = m * b
  BY DividesWitness
<1>3. c = (m * n) * a /\ m * n \in Int
  BY <1>1, <1>2
<1> QED
  BY <1>3, WitnessDivides

\* A number divides itself and zero.
LEMMA DividesSelf ==
    ASSUME NEW a \in Nat \ {0}
    PROVE  Divides(a, a) /\ Divides(a, 0)
<1>1. a = 1 * a /\ 0 = 0 * a
  OBVIOUS
<1> QED
  BY <1>1, WitnessDivides

\* Aligning up moves an address up by less than the alignment (align_power).
LEMMA AlignUpBounds ==
    ASSUME NEW x \in Int, NEW a \in Nat \ {0}
    PROVE  /\ AlignUp(x, a) \in Int
           /\ x <= AlignUp(x, a) /\ AlignUp(x, a) < x + a
           /\ Divides(a, AlignUp(x, a))
<1> DEFINE y == x + a - 1
<1>1. y \in Int /\ y \div a \in Int
  OBVIOUS
<1>2. y = a * (y \div a) + (y % a) /\ y % a \in 0 .. a - 1
  BY <1>1
<1>3. AlignUp(x, a) = (y \div a) * a
  BY DEF AlignUp
<1>4. (y \div a) * a = y - (y % a)
  BY <1>1, <1>2
<1>5. Divides(a, AlignUp(x, a))
  BY <1>1, <1>3, WitnessDivides
<1> QED
  BY <1>1, <1>2, <1>3, <1>4, <1>5

\* ... and to the least aligned address that is not below.
LEMMA AlignUpLeast ==
    ASSUME NEW x \in Int, NEW a \in Nat \ {0}, NEW z \in Int, x <= z, Divides(a, z)
    PROVE  AlignUp(x, a) <= z
<1> DEFINE y == AlignUp(x, a)
<1>1. y \in Int /\ y < x + a /\ Divides(a, y)
  BY AlignUpBounds
<1>2. PICK m \in Int : y = m * a
  BY <1>1, DividesWitness
<1>3. PICK n \in Int : z = n * a
  BY DividesWitness
<1>4. m * a < (n + 1) * a
  BY <1>1, <1>2, <1>3
<1>5. m < n + 1
  BY <1>4
<1>6. m * a <= n * a
  BY <1>5
<1> QED
  BY <1>2, <1>3, <1>6

\* AlignUp is monotone.
LEMMA AlignUpMonotone ==
    ASSUME NEW x \in Int, NEW y \in Int, NEW a \in Nat \ {0}, x <= y
    PROVE  AlignUp(x, a) <= AlignUp(y, a)
BY AlignUpBounds, AlignUpLeast

\* Moving by a multiple of the alignment moves the result no less.
LEMMA AlignUpShift ==
    ASSUME NEW x \in Int, NEW y \in Int, NEW d \in Int, NEW a \in Nat \ {0},
           x <= y - d, Divides(a, d)
    PROVE  AlignUp(x, a) <= AlignUp(y, a) - d
<1>1. AlignUp(y, a) \in Int /\ y <= AlignUp(y, a) /\ Divides(a, AlignUp(y, a))
  BY AlignUpBounds
<1>2. Divides(a, AlignUp(y, a) - d)
  BY <1>1, DividesSub
<1> QED
  BY <1>1, <1>2, AlignUpLeast

-----------------------------------------------------------------------------
(* Placement *)

\* The types behind OutSec and the alignments.
LEMMA OutSecFacts ==
    /\ \A s \in Secs : OutSec[s] \in OutSecs /\ OutSec[s] \in Nat
    /\ \A s \in Secs : SecAlign[s] \in Nat \ {0} /\ OutAlign[OutSec[s]] \in Nat \ {0}
    /\ \A o \in OutSecs : OutAlign[o] \in Nat \ {0}
BY SectionAssumption, AlignAssumption DEF OutSecs

\* The location counter never moves back when a section is opened or placed.
LEMMA PlaceBounds ==
    ASSUME NEW k \in Secs, NEW d \in Int
    PROVE  /\ OpenAt(k, d) \in Int /\ PlaceAt(k, d) \in Int
           /\ d <= OpenAt(k, d) /\ OpenAt(k, d) <= PlaceAt(k, d)
<1>1. OpenAt(k, d) \in Int /\ d <= OpenAt(k, d)
  BY AlignUpBounds, OutSecFacts DEF OpenAt
<1> QED
  BY <1>1, AlignUpBounds, OutSecFacts DEF PlaceAt

\* What moves the location counter down by a multiple of the alignments in
\* play moves the section placed there down at least as far.
LEMMA PlaceShift ==
    ASSUME NEW k \in Secs, NEW x \in Int, NEW y \in Int, NEW d \in Int, x <= y - d,
           Divides(SecAlign[k], d), First(k) => Divides(OutAlign[OutSec[k]], d)
    PROVE  PlaceAt(k, x) <= PlaceAt(k, y) - d
<1>1. OpenAt(k, x) \in Int /\ OpenAt(k, y) \in Int
  BY PlaceBounds
<1>2. OpenAt(k, x) <= OpenAt(k, y) - d
  BY AlignUpShift, OutSecFacts DEF OpenAt
<1> QED
  BY <1>1, <1>2, AlignUpShift, OutSecFacts DEF PlaceAt

\* A section placed from a lower location counter is not placed higher.
LEMMA PlaceMonotone ==
    ASSUME NEW k \in Secs, NEW x \in Int, NEW y \in Int, x <= y
    PROVE  PlaceAt(k, x) <= PlaceAt(k, y) /\ OpenAt(k, x) <= OpenAt(k, y)
<1>1. Divides(SecAlign[k], 0) /\ Divides(OutAlign[OutSec[k]], 0)
  BY DividesSelf, OutSecFacts
<1>2. PlaceAt(k, x) <= PlaceAt(k, y) - 0
  BY <1>1, PlaceShift
<1>3. OpenAt(k, x) <= OpenAt(k, y)
  BY AlignUpMonotone, OutSecFacts DEF OpenAt
<1>4. PlaceAt(k, x) \in Int /\ PlaceAt(k, y) \in Int
  BY PlaceBounds
<1> QED
  BY <1>2, <1>3, <1>4

\* The largest output alignment exists and every other one divides it: what
\* _bfd_riscv_get_max_alignment returns covers all output sections.
LEMMA MaxAlignFacts ==
    /\ MaxAlign \in Nat \ {0}
    /\ \A o \in OutSecs : Divides(OutAlign[o], MaxAlign)
<1>1. PICK o \in OutSecs : \A p \in OutSecs :
          OutAlign[p] <= OutAlign[o] /\ Divides(OutAlign[p], OutAlign[o])
  BY AlignAssumption
<1> DEFINE IsMax(m) == \A q \in OutSecs : OutAlign[q] <= m
<1>2. \E m \in {OutAlign[q] : q \in OutSecs} : IsMax(m)
  BY <1>1
<1>3. MaxAlign \in {OutAlign[q] : q \in OutSecs} /\ IsMax(MaxAlign)
  BY <1>2 DEF MaxAlign
<1>4. MaxAlign = OutAlign[o]
  BY <1>1, <1>3, OutSecFacts
<1> QED
  BY <1>1, <1>4, OutSecFacts

\* The types behind the margin that relax_call adds for a call.
LEMMA MarginFacts ==
    ASSUME NEW c \in Calls
    PROVE  /\ Margin(c) \in Nat \ {0}
           /\ c \in Points /\ Target[c] \in Points
           /\ SecOf[c] \in Secs /\ SecOf[Target[c]] \in 0 .. NSec
<1>1. c \in Items /\ c \in Points /\ Target[c] \in Points
  BY PointAssumption DEF Items, Points
<1>2. SecOf[c] \in Secs /\ SecOf[Target[c]] \in 0 .. NSec
  BY <1>1, PointAssumption, SectionAssumption DEF Secs
<1>3. SecOf[Target[c]] # 0 => SecOf[Target[c]] \in Secs
  BY <1>2, SectionAssumption DEF Secs
<1>4. Margin(c) \in Nat \ {0}
  BY <1>3, OutSecFacts, MaxAlignFacts DEF Margin
<1> QED
  BY <1>1, <1>2, <1>4

\* The margin is a multiple of every alignment between a call and its target.
LEMMA MarginCovers ==
    ASSUME NEW c \in Calls, NEW k \in Secs, NEW x \in {c, Target[c]}, NEW y \in {c, Target[c]},
           0 < SecOf[x], SecOf[x] < k, k <= SecOf[y]
    PROVE  /\ Divides(SecAlign[k], Margin(c))
           /\ First(k) => Divides(OutAlign[OutSec[k]], Margin(c))
<1> DEFINE t == SecOf[Target[c]]
           s == SecOf[c]
<1>1. SecOf[x] \in Secs /\ SecOf[y] \in Secs /\ k - 1 \in Secs
  BY MarginFacts, SectionAssumption DEF Secs
<1>2. t \in Secs /\ s \in Secs
  <2>1. SecOf[x] # SecOf[y]
    BY <1>1 DEF Secs
  <2> QED
    BY <1>1, <2>1, MarginFacts
<1>3. Divides(SecAlign[k], OutAlign[OutSec[k]])
  BY AlignAssumption
<1>4. CASE OutSec[t] = OutSec[s]
  <2>1. OutSec[SecOf[x]] = OutSec[SecOf[y]]
    BY <1>4, <1>2
  <2>2. OutSec[SecOf[x]] <= OutSec[k - 1] /\ OutSec[k - 1] <= OutSec[k] /\ OutSec[k] <= OutSec[SecOf[y]]
    BY <1>1, SectionAssumption DEF Secs
  <2>3. OutSec[k - 1] = OutSec[k] /\ OutSec[k] = OutSec[t]
    BY <1>1, <1>2, <1>4, <2>1, <2>2, OutSecFacts
  <2>4. ~First(k)
    BY <1>1, <2>3, SectionAssumption DEF First, Secs
  <2>5. Margin(c) = OutAlign[OutSec[k]]
    BY <1>2, <1>4, <2>3, SectionAssumption DEF Margin, Secs
  <2> QED
    BY <1>3, <2>4, <2>5
<1>5. CASE OutSec[t] # OutSec[s]
  <2>1. Margin(c) = MaxAlign
    BY <1>5 DEF Margin
  <2>2. Divides(OutAlign[OutSec[k]], MaxAlign)
    BY MaxAlignFacts, OutSecFacts
  <2>3. Divides(SecAlign[k], MaxAlign)
    BY <1>3, <2>2, DividesTrans, MaxAlignFacts, OutSecFacts
  <2> QED
    BY <2>1, <2>2, <2>3
<1> QED
  BY <1>4, <1>5

-----------------------------------------------------------------------------
(* Deletion *)

\* The types behind SecOf: zero stands for the absolute section.
LEMMA SecOfFacts ==
    /\ \A x \in Items : x \in Points /\ SecOf[x] \in Secs
    /\ \A x \in Labels : x \in Points
    /\ \A x \in Points : SecOf[x] \in 0 .. NSec /\ (SecOf[x] # 0 => SecOf[x] \in Secs)
BY PointAssumption, SectionAssumption DEF Points, Items, Secs

\* Deleting the end of an item moves points down, keeps their order, and
\* lets no distance inside a section grow.
LEMMA DeleteShrinks ==
    ASSUME TypeOK, Separated, NEW x \in Items, NEW n \in Nat, n <= len[x], DeleteTail(x, n)
    PROVE  /\ off' \in [Points -> Nat] /\ len' \in [Items -> Nat] /\ size' \in [Secs -> Nat]
           /\ \A y \in Points : off'[y] <= off[y]
           /\ \A y \in Points : SecOf[y] # SecOf[x] => off'[y] = off[y]
           /\ \A s \in Secs : size'[s] <= size[s]
           /\ \A s \in Secs : s # SecOf[x] => size'[s] = size[s]
           /\ \A y \in Points : SecOf[y] # 0 =>
                size'[SecOf[y]] - off'[y] <= size[SecOf[y]] - off[y]
           /\ \A y, z \in Points : SecOf[y] = SecOf[z] /\ off[y] <= off[z] =>
                off'[y] <= off'[z] /\ off'[z] - off'[y] <= off[z] - off[y]
           /\ Separated'
<1> DEFINE at == off[x] + len[x] - n
           sx == SecOf[x]
<1> USE SecOfFacts
<1>1. /\ off \in [Points -> Nat] /\ len \in [Items -> Nat] /\ size \in [Secs -> Nat]
      /\ sx \in Secs /\ x \in Points /\ at \in Nat /\ off[x] <= at
  BY DEF TypeOK
<1>2. /\ off' = [y \in Points |-> IF SecOf[y] = sx /\ off[y] > at THEN off[y] - n ELSE off[y]]
      /\ len' = [len EXCEPT ![x] = @ - n]
      /\ size' = [size EXCEPT ![sx] = @ - n]
  BY DEF DeleteTail, Moved
<1>3. ASSUME NEW y \in Points, SecOf[y] = sx
      PROVE  off[y] <= off[x] \/ off[y] >= off[x] + len[x]
  <2>1. CASE y \in Labels
    BY <1>3, <2>1 DEF Separated
  <2>2. CASE y \in Items
    BY <1>1, <1>3, <2>2 DEF Separated
  <2> QED
    BY <2>1, <2>2 DEF Points
<1>0. \A y \in Points :
         /\ SecOf[y] = sx /\ off[y] > at => off'[y] = off[y] - n
         /\ SecOf[y] = sx /\ off[y] <= at => off'[y] = off[y]
         /\ SecOf[y] # sx => off'[y] = off[y]
  BY <1>1, <1>2
<1>4. \A y \in Points : off'[y] \in Nat /\ off'[y] <= off[y] /\ (SecOf[y] # sx => off'[y] = off[y])
  BY <1>0, <1>1, <1>3
<1>5. off[x] + len[x] <= size[sx]
  BY DEF Separated
<1>6. /\ len'[x] = len[x] - n /\ \A y \in Items : y # x => len'[y] = len[y]
      /\ size'[sx] = size[sx] - n /\ \A s \in Secs : s # sx => size'[s] = size[s]
      /\ off'[x] = off[x]
  BY <1>1, <1>2
<1>7. len' \in [Items -> Nat] /\ size' \in [Secs -> Nat] /\ off' \in [Points -> Nat]
  BY <1>1, <1>2, <1>4, <1>5, <1>6
<1>8. ASSUME NEW y \in Points, SecOf[y] # 0
      PROVE  size'[SecOf[y]] - off'[y] <= size[SecOf[y]] - off[y] /\ off'[y] <= size'[SecOf[y]]
  <2>1. off[y] <= size[SecOf[y]]
    BY <1>8 DEF Separated
  <2>2. CASE SecOf[y] # sx
    BY <1>1, <1>4, <1>6, <1>8, <2>1, <2>2
  <2>3. CASE SecOf[y] = sx /\ off[y] > at
    BY <1>1, <1>2, <1>6, <2>1, <2>3
  <2>4. CASE SecOf[y] = sx /\ off[y] <= at
    <3>1. off'[y] = off[y]
      BY <1>1, <1>2, <2>4
    <3> QED
      BY <1>1, <1>5, <1>6, <2>4, <3>1
  <2> QED
    BY <1>1, <2>2, <2>3, <2>4
<1>9. ASSUME NEW y \in Points, NEW z \in Points, SecOf[y] = SecOf[z], off[y] <= off[z]
      PROVE  off'[y] <= off'[z] /\ off'[z] - off'[y] <= off[z] - off[y]
  <2>1. CASE SecOf[y] # sx
    BY <1>1, <1>4, <1>9, <2>1
  <2>2. CASE SecOf[y] = sx /\ n = 0
    BY <1>1, <1>2, <1>9, <2>2
  <2>3. CASE SecOf[y] = sx /\ n # 0
    <3>1. off[y] <= off[x] \/ off[y] >= off[x] + len[x]
      BY <1>3, <2>3
    <3>2. off[z] <= off[x] \/ off[z] >= off[x] + len[x]
      BY <1>3, <1>9, <2>3
    <3>3. /\ off[y] > at => off'[y] = off[y] - n
          /\ off[y] <= at => off'[y] = off[y]
          /\ off[z] > at => off'[z] = off[z] - n
          /\ off[z] <= at => off'[z] = off[z]
      BY <1>0, <1>9, <2>3
    <3>4. off[y] \in Nat /\ off[z] \in Nat /\ off[x] \in Nat /\ len[x] \in Nat
      BY <1>1
    <3> QED
      BY <1>9, <2>3, <3>1, <3>2, <3>3, <3>4
  <2> QED
    BY <2>1, <2>2, <2>3
<1>10. ASSUME NEW y \in Items
       PROVE  off'[y] + len'[y] <= size'[SecOf[y]]
  <2>1. off[y] + len[y] <= size[SecOf[y]]
    BY DEF Separated
  <2>2. CASE y = x
    BY <1>1, <1>5, <1>6, <2>2
  <2>3. CASE y # x /\ SecOf[y] # sx
    BY <1>1, <1>4, <1>6, <2>1, <2>3
  <2>4. CASE y # x /\ SecOf[y] = sx
    <3>1. off[x] + len[x] <= off[y] \/ off[y] + len[y] <= off[x]
      BY <2>4 DEF Separated
    <3> QED
      BY <1>1, <1>2, <1>5, <1>6, <2>1, <2>4, <3>1
  <2> QED
    BY <2>2, <2>3, <2>4
<1>11. ASSUME NEW y \in Items, NEW z \in Items, y # z, SecOf[y] = SecOf[z]
       PROVE  off'[y] + len'[y] <= off'[z] \/ off'[z] + len'[z] <= off'[y]
  <2>1. off[y] + len[y] <= off[z] \/ off[z] + len[z] <= off[y]
    BY <1>11 DEF Separated
  <2>2. CASE SecOf[y] # sx
    BY <1>1, <1>4, <1>6, <1>11, <2>1, <2>2
  <2>3. CASE SecOf[y] = sx
    <3>1. y # x => off[x] + len[x] <= off[y] \/ off[y] + len[y] <= off[x]
      BY <2>3 DEF Separated
    <3>2. z # x => off[x] + len[x] <= off[z] \/ off[z] + len[z] <= off[x]
      BY <1>11, <2>3 DEF Separated
    <3>3. CASE y = x
      BY <1>1, <1>2, <1>6, <1>11, <2>3, <3>2, <3>3
    <3>4. CASE z = x
      BY <1>1, <1>2, <1>6, <1>11, <2>3, <3>1, <3>4
    <3>5. CASE y # x /\ z # x
      <4>1. off[y] \in Nat /\ off[z] \in Nat /\ len[y] \in Nat /\ len[z] \in Nat
        BY <1>1
      <4>2. len'[y] = len[y] /\ len'[z] = len[z]
        BY <1>6, <3>5
      <4>3. /\ off[y] > at => off'[y] = off[y] - n
            /\ off[y] <= at => off'[y] = off[y]
            /\ off[z] > at => off'[z] = off[z] - n
            /\ off[z] <= at => off'[z] = off[z]
        BY <1>0, <1>11, <2>3
      <4>4. off[x] \in Nat /\ len[x] \in Nat
        BY <1>1
      <4> QED
        BY <2>1, <3>1, <3>2, <3>5, <4>1, <4>2, <4>3, <4>4
    <3> QED
      BY <3>3, <3>4, <3>5
  <2> QED
    BY <2>2, <2>3
<1>12. ASSUME NEW y \in Items, NEW l \in Labels, SecOf[y] = SecOf[l]
       PROVE  off'[l] <= off'[y] \/ off'[l] >= off'[y] + len'[y]
  <2>1. off[l] <= off[y] \/ off[l] >= off[y] + len[y]
    BY <1>12 DEF Separated
  <2>2. CASE SecOf[y] # sx
    BY <1>1, <1>4, <1>6, <1>12, <2>1, <2>2
  <2>3. CASE SecOf[y] = sx
    <3>1. y # x => off[x] + len[x] <= off[y] \/ off[y] + len[y] <= off[x]
      BY <2>3 DEF Separated
    <3>2. off[l] <= off[x] \/ off[l] >= off[x] + len[x]
      BY <1>12, <2>3 DEF Separated
    <3>3. CASE y = x
      BY <1>1, <1>2, <1>6, <1>12, <2>3, <3>2, <3>3
    <3>4. CASE y # x
      <4>1. off[y] \in Nat /\ off[l] \in Nat /\ len[y] \in Nat
        BY <1>1
      <4>2. len'[y] = len[y]
        BY <1>6, <3>4
      <4>3. /\ off[y] > at => off'[y] = off[y] - n
            /\ off[y] <= at => off'[y] = off[y]
            /\ off[l] > at => off'[l] = off[l] - n
            /\ off[l] <= at => off'[l] = off[l]
        BY <1>0, <1>12, <2>3
      <4>4. off[x] \in Nat /\ len[x] \in Nat
        BY <1>1
      <4> QED
        BY <2>1, <3>1, <3>2, <3>4, <4>1, <4>2, <4>3, <4>4
    <3> QED
      BY <3>3, <3>4
  <2> QED
    BY <2>2, <2>3
<1>13. Separated'
  BY <1>8, <1>10, <1>11, <1>12 DEF Separated
<1>14. \A s \in Secs : size'[s] <= size[s]
  BY <1>1, <1>6
<1> QED
  BY <1>4, <1>6, <1>7, <1>8, <1>9, <1>13, <1>14

-----------------------------------------------------------------------------
(* Addresses *)

\* Addresses are natural numbers.
LEMMA AddrFacts ==
    ASSUME TypeOK
    PROVE  /\ \A k \in Secs : sec_addr(k) \in Nat /\ sec_addr(k) = vma[OutSec[k]] + ooff[k]
           /\ \A k \in Secs : size[k] \in Nat /\ Before(k) \in Nat
           /\ \A x \in Points : Addr(x) \in Nat /\ off[x] \in Nat
           /\ sec_addr(0) = 0
<1>1. \A k \in Secs : sec_addr(k) \in Nat /\ sec_addr(k) = vma[OutSec[k]] + ooff[k] /\ size[k] \in Nat
  BY OutSecFacts, SectionAssumption DEF TypeOK, sec_addr, Secs
<1>2. sec_addr(0) = 0
  BY DEF sec_addr
<1>3. \A x \in Points : Addr(x) \in Nat /\ off[x] \in Nat
  BY <1>1, <1>2, SecOfFacts DEF TypeOK, Addr
<1>4. \A k \in Secs : k = 1 \/ k - 1 \in Secs
  BY SectionAssumption DEF Secs
<1>5. \A k \in Secs : Before(k) \in Nat
  BY <1>1, <1>4, RoundAssumption DEF Before, TypeOK
<1> QED
  BY <1>1, <1>2, <1>3, <1>5

\* So are the addresses of the layout in which a call was decided.
LEMMA HistFacts ==
    ASSUME TypeOK, NEW c \in Calls
    PROVE  /\ \A k \in Secs : hist[c].addr[k] \in Nat /\ hist[c].size[k] \in Nat
           /\ \A x \in Points : hist[c].off[x] \in Nat /\ HistAddr(c, x) \in Nat
           /\ \A x \in Points : SecOf[x] # 0 =>
                HistAddr(c, x) = hist[c].addr[SecOf[x]] + hist[c].off[x]
<1>1. hist[c] \in [addr : [Secs -> Nat], off : [Points -> Nat], size : [Secs -> Nat]]
  BY DEF TypeOK
<1> QED
  BY <1>1, SecOfFacts DEF HistAddr

\* Slip is how far an end of the call has moved down since, in whole margins.
LEMMA SlipFacts ==
    ASSUME TypeOK, NEW c \in Calls, NEW x \in {c, Target[c]}
    PROVE  /\ Slip(c, x) \in Int
           /\ Divides(Margin(c), Slip(c, x))
           /\ Slip(c, x) <= HistAddr(c, x) - Addr(x)
           /\ HistAddr(c, x) - Addr(x) < Slip(c, x) + Margin(c)
<1>1. x \in Points /\ Margin(c) \in Nat \ {0}
  BY MarginFacts
<1>2. HistAddr(c, x) \in Int /\ Addr(x) \in Int
  BY <1>1, HistFacts, AddrFacts
<1> DEFINE e == HistAddr(c, x) - Addr(x) - Margin(c) + 1
<1>3. e \in Int /\ Slip(c, x) = AlignUp(e, Margin(c))
  BY <1>1, <1>2 DEF Slip
<1>4. /\ AlignUp(e, Margin(c)) \in Int /\ e <= AlignUp(e, Margin(c))
      /\ AlignUp(e, Margin(c)) < e + Margin(c) /\ Divides(Margin(c), AlignUp(e, Margin(c)))
  BY <1>1, <1>3, AlignUpBounds
<1> HIDE DEF e
<1>5. Slip(c, x) \in Int /\ e <= Slip(c, x) /\ Slip(c, x) < e + Margin(c)
  BY <1>3, <1>4
<1>6. Divides(Margin(c), Slip(c, x))
  BY <1>3, <1>4
<1> QED
  BY <1>1, <1>2, <1>5, <1>6 DEF e

-----------------------------------------------------------------------------
(* Steps that leave code and addresses alone *)

\* A step that neither deletes nor places anything keeps the layout facts.
LEMMA SteadyStep ==
    ASSUME IInv, TypeOK', UNCHANGED <<off, len, form, size, vma, ooff, hist>>,
           cur' <= cur, Starts[round'] <= Starts[round]
    PROVE  Separated' /\ Loose' /\ HistOK'
<1> USE DEF IInv
<1>1. Separated'
  BY DEF Separated
<1>2. \A k \in 0 .. NSec : sec_addr(k)' = sec_addr(k)
  BY DEF sec_addr
<1>3. Loose'
  <2>1. \A k \in Secs : k # 1 => Before(k)' = Before(k)
    BY DEF Before, sec_addr
  <2>2. \A k \in Secs : Before(k) \in Nat /\ Before(k)' \in Nat /\ Before(k)' <= Before(k)
    <3>1. \A k \in Secs : Before(k) \in Nat
      BY AddrFacts
    <3>2. 1 \in Secs => Before(1)' = Starts[round'] /\ Before(1) = Starts[round]
      BY DEF Before
    <3>3. Starts[round'] \in Nat
      BY RoundAssumption DEF TypeOK
    <3> QED
      BY <2>1, <3>1, <3>2, <3>3
  <2>3. \A k \in Secs : PlaceAt(k, Before(k)') <= sec_addr(k)
    <3>1. TAKE k \in Secs
    <3>2. PlaceAt(k, Before(k)') <= PlaceAt(k, Before(k)) /\ PlaceAt(k, Before(k)) <= sec_addr(k)
      BY <2>2, PlaceMonotone DEF Loose
    <3>3. PlaceAt(k, Before(k)') \in Int /\ PlaceAt(k, Before(k)) \in Int /\ sec_addr(k) \in Int
      BY <2>2, PlaceBounds, AddrFacts
    <3> QED
      BY <3>2, <3>3
  <2>4. \A k \in Secs : sec_addr(k)' = sec_addr(k)
    BY <1>2, SectionAssumption DEF Secs
  <2>5. \A k \in Secs : PlaceAt(k, Before(k))' <= sec_addr(k)'
    BY <2>3, <2>4 DEF PlaceAt, OpenAt
  <2>6. \A i, k \in Secs : i < k => sec_addr(i)' + size'[i] <= sec_addr(k)'
    BY <2>4 DEF Loose
  <2> QED
    BY <2>5, <2>6 DEF Loose
<1>4. HistOK'
  <2> SUFFICES ASSUME NEW c \in Calls, form'[c] # "call"
               PROVE  /\ LooseHist(hist[c])' /\ ShrunkSince(hist[c])'
                      /\ DecidedFrom(c)' /\ FollowsDown(c)'
    BY DEF HistOK
  <2>1. LooseHist(hist[c]) /\ ShrunkSince(hist[c]) /\ DecidedFrom(c) /\ FollowsDown(c)
    BY DEF HistOK
  <2>2. LooseHist(hist[c])'
    BY <2>1 DEF LooseHist
  <2>3. ShrunkSince(hist[c])'
    BY <2>1 DEF ShrunkSince, sec_addr
  <2>4. DecidedFrom(c)'
    BY <2>1 DEF DecidedFrom, HistFoff, HistAddr
  <2>5. FollowsDown(c)'
    <3> SUFFICES ASSUME NEW x \in {c, Target[c]}, NEW y \in {c, Target[c]}, NEW k \in Secs,
                        0 < SecOf[x], SecOf[x] < k, k <= SecOf[y], k < cur'
                 PROVE  sec_addr(k)' <= hist'[c].addr[k] - Slip(c, x)'
      BY DEF FollowsDown
    <3>1. k < cur
      BY DEF TypeOK, Secs
    <3>2. sec_addr(k) <= hist[c].addr[k] - Slip(c, x)
      BY <2>1, <3>1 DEF FollowsDown
    <3>3. Slip(c, x)' = Slip(c, x)
      BY DEF Slip, HistAddr, Addr, sec_addr
    <3>4. sec_addr(k)' = sec_addr(k)
      BY DEF sec_addr
    <3> QED
      BY <3>2, <3>3, <3>4
  <2> QED
    BY <2>2, <2>3, <2>4, <2>5
<1> QED
  BY <1>1, <1>3, <1>4

-----------------------------------------------------------------------------
(* Steps that delete the end of an item of the current section *)

\* A deletion in the section being relaxed keeps the layout facts: what follows in
\* the section moves down with it, what comes later is still to be placed.
LEMMA DeleteStep ==
    ASSUME IInv, NEW x \in Items, SecOf[x] = cur, NEW n \in Nat, n <= len[x],
           DeleteTail(x, n), UNCHANGED <<form, vma, ooff, hist, round, cur>>
    PROVE  /\ off' \in [Points -> Nat] /\ len' \in [Items -> Nat] /\ size' \in [Secs -> Nat]
           /\ Separated' /\ Loose' /\ HistOK'
           /\ Before(cur)' = Before(cur)
<1> USE DEF IInv
<1> USE SecOfFacts
<1>0. /\ off' \in [Points -> Nat] /\ len' \in [Items -> Nat] /\ size' \in [Secs -> Nat]
      /\ Separated'
  BY DeleteShrinks
<1>1. \A y \in Points : off'[y] <= off[y] /\ (SecOf[y] # cur => off'[y] = off[y])
  BY DeleteShrinks
<1>2. \A k \in Secs : size'[k] <= size[k] /\ (k # cur => size'[k] = size[k])
  BY DeleteShrinks
<1>3. \A y \in Points : SecOf[y] # 0 =>
          size'[SecOf[y]] - off'[y] <= size[SecOf[y]] - off[y]
  BY DeleteShrinks
<1>4. \A y, z \in Points : SecOf[y] = SecOf[z] /\ off[y] <= off[z] =>
          off'[y] <= off'[z] /\ off'[z] - off'[y] <= off[z] - off[y]
  BY DeleteShrinks
<1>5. \A k \in 0 .. NSec : sec_addr(k)' = sec_addr(k)
  BY DEF sec_addr
<1>6. \A k \in Secs : sec_addr(k)' = sec_addr(k) /\ sec_addr(k) \in Nat /\ size[k] \in Nat /\ size'[k] \in Nat
  <2>1. \A k \in Secs : k \in 0 .. NSec
    BY SectionAssumption DEF Secs
  <2>2. \A k \in Secs : sec_addr(k) \in Nat /\ size[k] \in Nat
    BY AddrFacts
  <2> QED
    BY <1>0, <1>5, <2>1, <2>2
<1>7. \A k \in Secs : /\ Before(k) \in Nat /\ Before(k)' \in Nat /\ Before(k)' <= Before(k)
                      /\ k <= cur => Before(k)' = Before(k)
  <2>1. TAKE k \in Secs
  <2>2. CASE k = 1
    <3>1. Before(k)' = Before(k)
      BY <2>2 DEF Before
    <3> QED
      BY <3>1, AddrFacts
  <2>3. CASE k # 1
    <3>1. k - 1 \in Secs
      BY <2>3, SectionAssumption DEF Secs
    <3>2. Before(k) = sec_addr(k - 1) + size[k - 1] /\ Before(k)' = sec_addr(k - 1)' + size'[k - 1]
      BY <2>3 DEF Before
    <3>3. k <= cur => k - 1 # cur
      BY DEF Secs, TypeOK
    <3> QED
      BY <1>2, <1>6, <3>1, <3>2, <3>3
  <2> QED
    BY <2>2, <2>3
<1>8. Loose'
  <2>1. \A k \in Secs : PlaceAt(k, Before(k)') <= sec_addr(k)
    <3>1. TAKE k \in Secs
    <3>2. PlaceAt(k, Before(k)') <= PlaceAt(k, Before(k)) /\ PlaceAt(k, Before(k)) <= sec_addr(k)
      BY <1>7, PlaceMonotone DEF Loose
    <3>3. PlaceAt(k, Before(k)') \in Int /\ PlaceAt(k, Before(k)) \in Int
      BY <1>7, PlaceBounds
    <3> QED
      BY <1>6, <3>2, <3>3
  <2>2. \A k \in Secs : PlaceAt(k, Before(k))' <= sec_addr(k)'
    BY <1>6, <2>1 DEF PlaceAt, OpenAt
  <2>3. \A i, k \in Secs : i < k => sec_addr(i)' + size'[i] <= sec_addr(k)'
    BY <1>2, <1>6 DEF Loose
  <2> QED
    BY <2>2, <2>3 DEF Loose
<1>9. HistOK'
  <2> SUFFICES ASSUME NEW c \in Calls, form'[c] # "call"
               PROVE  /\ LooseHist(hist[c])' /\ ShrunkSince(hist[c])'
                      /\ DecidedFrom(c)' /\ FollowsDown(c)'
    BY DEF HistOK
  <2> DEFINE H == hist[c]
  <2>1. LooseHist(H) /\ ShrunkSince(H) /\ DecidedFrom(c) /\ FollowsDown(c)
    BY DEF HistOK
  <2>2. LooseHist(H)'
    BY <2>1 DEF LooseHist
  <2>3. ShrunkSince(H)'
    <3>1. H' = H
      OBVIOUS
    <3>2. /\ \A k \in Secs : H.size[k] \in Nat /\ H.addr[k] \in Nat
          /\ \A y \in Points : H.off[y] \in Nat
      BY HistFacts
    <3>3. \A y \in Points : off[y] \in Nat /\ off'[y] \in Nat
      BY <1>0, AddrFacts
    <3>4. \A k \in Secs : sec_addr(k)' <= H.addr[k] /\ size'[k] <= H.size[k]
      BY <1>2, <1>6, <2>1, <3>2 DEF ShrunkSince
    <3>5. \A y \in Points : off'[y] <= H.off[y]
      BY <1>1, <2>1, <3>2, <3>3 DEF ShrunkSince
    <3>6. ASSUME NEW y \in Points, SecOf[y] # 0
          PROVE  size'[SecOf[y]] - off'[y] <= H.size[SecOf[y]] - H.off[y]
      <4>1. size[SecOf[y]] - off[y] <= H.size[SecOf[y]] - H.off[y]
        BY <2>1, <3>6 DEF ShrunkSince
      <4>2. size'[SecOf[y]] - off'[y] <= size[SecOf[y]] - off[y]
        BY <1>3, <3>6
      <4>3. SecOf[y] \in Secs
        BY <3>6
      <4> QED
        BY <1>6, <3>2, <3>3, <4>1, <4>2, <4>3
    <3>7. ASSUME NEW y \in Points, NEW z \in Points, SecOf[y] = SecOf[z], SecOf[y] # 0,
                 H.off[y] <= H.off[z]
          PROVE  off'[y] <= off'[z] /\ off'[z] - off'[y] <= H.off[z] - H.off[y]
      <4>1. off[y] <= off[z] /\ off[z] - off[y] <= H.off[z] - H.off[y]
        BY <2>1, <3>7 DEF ShrunkSince
      <4>2. off'[y] <= off'[z] /\ off'[z] - off'[y] <= off[z] - off[y]
        BY <1>4, <3>7, <4>1
      <4> QED
        BY <3>2, <3>3, <4>1, <4>2
    <3> HIDE DEF H
    <3> QED
      BY <3>1, <3>4, <3>5, <3>6, <3>7 DEF ShrunkSince
  <2>4. DecidedFrom(c)'
    BY <2>1 DEF DecidedFrom, HistFoff, HistAddr
  <2>5. FollowsDown(c)'
    <3> SUFFICES ASSUME NEW y \in {c, Target[c]}, NEW z \in {c, Target[c]}, NEW k \in Secs,
                        0 < SecOf[y], SecOf[y] < k, k <= SecOf[z], k < cur
                 PROVE  sec_addr(k)' <= hist[c].addr[k] - Slip(c, y)'
      BY DEF FollowsDown
    <3>1. sec_addr(k) <= hist[c].addr[k] - Slip(c, y)
      BY <2>1 DEF FollowsDown
    <3>2. y \in Points
      BY MarginFacts
    <3>5. SecOf[y] # cur
      <4>1. SecOf[y] \in Int /\ k \in Int /\ cur \in Int
        BY <3>2 DEF TypeOK, Secs
      <4> QED
        BY <4>1
    <3>3. off'[y] = off[y]
      BY <1>1, <3>2, <3>5
    <3>4. Slip(c, y)' = Slip(c, y)
      BY <3>3 DEF Slip, HistAddr, Addr, sec_addr
    <3> QED
      BY <1>6, <3>1, <3>4
  <2> QED
    BY <2>2, <2>3, <2>4, <2>5
<1>10. Before(cur)' = Before(cur)
  BY <1>7 DEF TypeOK
<1> QED
  BY <1>0, <1>8, <1>9, <1>10

-----------------------------------------------------------------------------
(* Steps that move sections *)

\* A step that only moves sections down keeps the history parts that do not
\* depend on how far the walk has come.
LEMMA MoveDownHist ==
    ASSUME IInv, UNCHANGED <<off, len, form, size, hist>>,
           \A k \in Secs : sec_addr(k)' \in Nat /\ sec_addr(k)' <= sec_addr(k)
    PROVE  \A c \in Calls : form'[c] # "call" =>
              LooseHist(hist[c])' /\ ShrunkSince(hist[c])' /\ DecidedFrom(c)'
<1> USE DEF IInv
<1> SUFFICES ASSUME NEW c \in Calls, form'[c] # "call"
             PROVE  LooseHist(hist[c])' /\ ShrunkSince(hist[c])' /\ DecidedFrom(c)'
  OBVIOUS
<1>1. LooseHist(hist[c]) /\ ShrunkSince(hist[c]) /\ DecidedFrom(c)
  BY DEF HistOK
<1>2. LooseHist(hist[c])'
  BY <1>1 DEF LooseHist
<1>3. DecidedFrom(c)'
  BY <1>1 DEF DecidedFrom, HistFoff, HistAddr
<1>4. \A k \in Secs : sec_addr(k)' <= hist[c].addr[k]
  <2>1. \A k \in Secs : sec_addr(k) \in Nat /\ hist[c].addr[k] \in Nat
    BY AddrFacts, HistFacts
  <2> QED
    BY <1>1, <2>1 DEF ShrunkSince
<1>5. ShrunkSince(hist[c])'
  BY <1>1, <1>4 DEF ShrunkSince
<1> QED
  BY <1>2, <1>3, <1>5

\* Output section order: the sections of cur's output section start at cur.
LEMMA FirstOfOutput ==
    ASSUME NEW s \in Secs, First(s)
    PROVE  /\ \A k \in Secs : OutSec[k] = OutSec[s] => s <= k
           /\ \A k \in Secs : OutSec[k] = OutSec[s] /\ k # s => ~First(k) /\ k - 1 \in Secs /\ OutSec[k - 1] = OutSec[s]
<1>1. ASSUME NEW k \in Secs, OutSec[k] = OutSec[s]
      PROVE  s <= k
  <2> SUFFICES ASSUME k < s PROVE FALSE
    BY DEF Secs
  <2>1. s - 1 \in Secs /\ k <= s - 1
    BY SectionAssumption DEF Secs
  <2>2. OutSec[k] <= OutSec[s - 1] /\ OutSec[s - 1] <= OutSec[s]
    BY <2>1, SectionAssumption DEF Secs
  <2>3. OutSec[s - 1] = OutSec[s]
    BY <1>1, <2>1, <2>2, OutSecFacts
  <2> QED
    BY <2>1, <2>3, SectionAssumption DEF First, Secs
<1>2. ASSUME NEW k \in Secs, OutSec[k] = OutSec[s], k # s
      PROVE  ~First(k) /\ k - 1 \in Secs /\ OutSec[k - 1] = OutSec[s]
  <2>1. s <= k
    BY <1>1, <1>2
  <2>2. k - 1 \in Secs /\ s <= k - 1
    BY <1>2, <2>1, SectionAssumption DEF Secs
  <2>3. OutSec[s] <= OutSec[k - 1] /\ OutSec[k - 1] <= OutSec[k]
    BY <2>2, SectionAssumption DEF Secs
  <2>4. OutSec[k - 1] = OutSec[s]
    BY <1>2, <2>2, <2>3, OutSecFacts
  <2> QED
    BY <1>2, <2>2, <2>4, SectionAssumption DEF First, Secs
<1> QED
  BY <1>1, <1>2

\* Opening an output section moves it, and nothing else, and never up.
LEMMA OpenStep ==
    ASSUME IInv, OpenOutput
    PROVE  IInv' /\ \A k \in Secs : sec_addr(k)' <= sec_addr(k)
<1> USE DEF IInv
<1> DEFINE s == cur
           o == OutSec[s]
           v == OpenAt(s, dot)
           d == vma[o] - v
<1>1. /\ s \in Secs /\ First(s) /\ dot = Before(s) /\ dot \in Nat
      /\ o \in OutSecs /\ vma[o] \in Nat /\ OutAlign[o] \in Nat \ {0}
  BY OutSecFacts DEF OpenOutput, WalkOK, TypeOK
<1>2. /\ vma' = [vma EXCEPT ![o] = v] /\ dot' = v /\ phase' = "relax"
      /\ UNCHANGED <<off, len, form, mark, live, size, flg0, hist, ooff, pass, round, cur, again>>
  BY DEF OpenOutput, code
<1>3. v \in Int /\ dot <= v /\ Divides(OutAlign[o], v)
  <2>1. v = AlignUp(dot, OutAlign[o])
    BY <1>1 DEF OpenAt
  <2> HIDE DEF v, o
  <2>2. dot \in Int /\ OutAlign[o] \in Nat \ {0}
    BY <1>1
  <2> QED
    BY <2>1, <2>2, AlignUpBounds
<1>4. v \in Nat
  BY <1>1, <1>3
<1>5. sec_addr(s) = vma[o] /\ \A k \in Secs : sec_addr(k) \in Nat /\ size[k] \in Nat /\ Before(k) \in Nat
  BY <1>1, AddrFacts DEF Loose
<1>6. v <= vma[o]
  <2>1. v <= PlaceAt(s, dot) /\ PlaceAt(s, dot) \in Int
    BY <1>1, PlaceBounds
  <2>2. PlaceAt(s, dot) <= sec_addr(s)
    BY <1>1 DEF Loose
  <2> QED
    BY <1>1, <1>3, <1>5, <2>1, <2>2
<1>7. d \in Nat /\ Divides(OutAlign[o], d)
  <2>1. Divides(OutAlign[o], vma[o])
    BY <1>1 DEF Loose
  <2>2. Divides(OutAlign[o], vma[o] - v)
    BY <1>1, <1>3, <2>1, DividesSub
  <2>3. vma[o] - v \in Nat
    BY <1>1, <1>4, <1>6
  <2> QED
    BY <2>2, <2>3
<1>8. /\ vma'[o] = v
      /\ \A p \in OutSecs : p # o => vma'[p] = vma[p]
      /\ vma' \in [OutSecs -> Nat]
  BY <1>1, <1>2, <1>4 DEF TypeOK
<1>9. TypeOK'
  BY <1>2, <1>4, <1>8 DEF TypeOK, Phases
<1>10. \A k \in Secs : /\ OutSec[k] = o => sec_addr(k)' = sec_addr(k) - d
                       /\ OutSec[k] # o => sec_addr(k)' = sec_addr(k)
                       /\ sec_addr(k)' = vma'[OutSec[k]] + ooff[k]
                       /\ ooff[k] \in Nat
  <2>1. TAKE k \in Secs
  <2>2. k # 0 /\ ooff[k] \in Nat /\ OutSec[k] \in OutSecs /\ vma[OutSec[k]] \in Nat
    BY OutSecFacts DEF Secs, TypeOK
  <2>3. sec_addr(k)' = vma'[OutSec[k]] + ooff[k] /\ sec_addr(k) = vma[OutSec[k]] + ooff[k]
    BY <1>2, <2>2 DEF sec_addr
  <2> QED
    BY <1>3, <1>8, <2>2, <2>3
<1>11. \A k \in Secs : sec_addr(k)' \in Nat /\ sec_addr(k)' <= sec_addr(k)
  <2>1. \A k \in Secs : sec_addr(k)' \in Nat
    BY <1>8, <1>10, OutSecFacts
  <2> QED
    BY <1>5, <1>7, <1>10, <2>1
<1>12. /\ \A k \in Secs : OutSec[k] = o => s <= k
       /\ \A k \in Secs : OutSec[k] = o /\ k # s => ~First(k) /\ k - 1 \in Secs /\ OutSec[k - 1] = o
  BY <1>1, FirstOfOutput
<1>13. Before(s)' = Before(s)
  <2>1. CASE s = 1
    BY <1>2, <2>1 DEF Before
  <2>2. CASE s # 1
    <3>1. s - 1 \in Secs /\ ~(s <= s - 1)
      BY <1>1, <2>2, SectionAssumption DEF Secs
    <3>2. OutSec[s - 1] # o
      BY <1>12, <3>1
    <3>3. sec_addr(s - 1)' = sec_addr(s - 1)
      BY <1>2, <1>10, <3>1, <3>2
    <3> QED
      BY <1>2, <2>2, <3>3 DEF Before
  <2> QED
    BY <2>1, <2>2
<1>14. \A k \in Secs : PlaceAt(k, Before(k)') <= sec_addr(k)'
  <2>1. TAKE k \in Secs
  <2>2. CASE k = s
    <3>1. PlaceAt(s, Before(s)') = AlignUp(v, SecAlign[s])
      BY <1>1, <1>13 DEF PlaceAt
    <3>2. Divides(SecAlign[s], v)
      BY <1>1, <1>3, AlignAssumption, DividesTrans, OutSecFacts
    <3>3. AlignUp(v, SecAlign[s]) <= v
      BY <1>1, <1>3, <3>2, AlignUpLeast, OutSecFacts
    <3>4. sec_addr(k)' = v
      BY <1>1, <1>3, <1>5, <1>10, <2>2
    <3>5. Before(k)' = Before(s)'
      BY <1>2, <2>2 DEF Before, sec_addr
    <3> QED
      BY <2>2, <3>1, <3>3, <3>4, <3>5
  <2>3. CASE k # s /\ OutSec[k] = o
    <3>1. ~First(k) /\ k - 1 \in Secs /\ OutSec[k - 1] = o /\ k # 1
      BY <1>12, <2>3, SectionAssumption DEF Secs, First
    <3>2. Before(k)' = sec_addr(k - 1)' + size[k - 1] /\ Before(k) = sec_addr(k - 1) + size[k - 1]
      BY <1>2, <3>1 DEF Before
    <3>3. Before(k)' = Before(k) - d /\ Before(k)' \in Int /\ Before(k) \in Int
      BY <1>5, <1>7, <1>10, <3>1, <3>2
    <3>4. Divides(SecAlign[k], d)
      BY <1>1, <1>7, <2>3, AlignAssumption, DividesTrans, OutSecFacts
    <3>5. PlaceAt(k, Before(k)') <= PlaceAt(k, Before(k)) - d
      BY <1>7, <3>1, <3>3, <3>4, PlaceShift
    <3>6. PlaceAt(k, Before(k)) <= sec_addr(k) /\ PlaceAt(k, Before(k)) \in Int /\ PlaceAt(k, Before(k)') \in Int
      BY <3>3, PlaceBounds DEF Loose
    <3> QED
      BY <1>5, <1>7, <1>10, <2>3, <3>5, <3>6
  <2>4. CASE OutSec[k] # o
    <3>1. Before(k)' \in Int /\ Before(k) \in Int /\ Before(k)' <= Before(k)
      <4>1. CASE k = 1
        BY <1>2, <1>5, <4>1 DEF Before
      <4>2. CASE k # 1
        <5>1. k - 1 \in Secs
          BY <4>2, SectionAssumption DEF Secs
        <5>2. Before(k)' = sec_addr(k - 1)' + size[k - 1] /\ Before(k) = sec_addr(k - 1) + size[k - 1]
          BY <1>2, <4>2 DEF Before
        <5> QED
          BY <1>5, <1>11, <5>1, <5>2
      <4> QED
        BY <4>1, <4>2
    <3>2. PlaceAt(k, Before(k)') <= PlaceAt(k, Before(k)) /\ PlaceAt(k, Before(k)) <= sec_addr(k)
      BY <3>1, PlaceMonotone DEF Loose
    <3>3. PlaceAt(k, Before(k)') \in Int /\ PlaceAt(k, Before(k)) \in Int
      BY <3>1, PlaceBounds
    <3> QED
      BY <1>5, <1>10, <2>4, <3>2, <3>3
  <2> QED
    BY <2>2, <2>3, <2>4
<1>15. ASSUME NEW i \in Secs, NEW k \in Secs, i < k
       PROVE  sec_addr(i)' + size[i] <= sec_addr(k)'
  <2>1. sec_addr(i) + size[i] <= sec_addr(k)
    BY <1>15 DEF Loose
  <2>2. CASE OutSec[k] = OutSec[i] \/ OutSec[k] # o
    BY <1>5, <1>7, <1>10, <2>1, <2>2
  <2>3. CASE OutSec[k] = o /\ OutSec[i] # o
    <3>1. i < s
      <4> SUFFICES ASSUME s <= i PROVE FALSE
        BY <1>1 DEF Secs
      <4>1. OutSec[s] <= OutSec[i] /\ OutSec[i] <= OutSec[k]
        BY <1>1, <1>15, SectionAssumption DEF Secs
      <4> QED
        BY <1>1, <2>3, <4>1, OutSecFacts
    <3>2. s - 1 \in Secs /\ s # 1 /\ i <= s - 1
      BY <1>1, <3>1, SectionAssumption DEF Secs
    <3>3. sec_addr(i) + size[i] <= sec_addr(s - 1) + size[s - 1]
      <4>1. CASE i = s - 1
        BY <1>5, <4>1
      <4>2. CASE i < s - 1
        <5>1. sec_addr(i) + size[i] <= sec_addr(s - 1)
          BY <3>2, <4>2 DEF Loose
        <5> QED
          BY <1>5, <3>2, <5>1
      <4> QED
        BY <1>1, <3>2, <4>1, <4>2 DEF Secs
    <3>4. dot = sec_addr(s - 1) + size[s - 1]
      BY <1>1, <3>2 DEF Before
    <3>5. sec_addr(k)' = v + ooff[k]
      BY <1>8, <1>10, <2>3
    <3>6. sec_addr(i)' = sec_addr(i)
      BY <1>10, <2>3
    <3> QED
      BY <1>1, <1>3, <1>5, <1>10, <3>2, <3>3, <3>4, <3>5, <3>6
  <2> QED
    BY <2>2, <2>3
<1>16. Loose'
  <2>1. \A p \in OutSecs : Divides(OutAlign[p], vma'[p])
    BY <1>3, <1>8 DEF Loose
  <2>2. \A k \in Secs : PlaceAt(k, Before(k))' <= sec_addr(k)'
    BY <1>14 DEF PlaceAt, OpenAt
  <2>3. \A k \in Secs : First(k) => ooff'[k] = 0
    BY <1>2 DEF Loose
  <2>4. size' = size
    BY <1>2
  <2> QED
    BY <1>15, <2>1, <2>2, <2>3, <2>4 DEF Loose
<1>17. WalkOK'
  <2>1. phase' = "relax" /\ cur' = s /\ dot' = v /\ vma'[OutSec[cur']] = v
    BY <1>2, <1>8
  <2>2. OpenAt(cur', Before(cur)') = v
    BY <1>1, <1>2, <1>13
  <2>3. (OpenAt(cur, Before(cur)))' = v
    BY <2>2 DEF OpenAt
  <2> QED
    BY <1>1, <2>1, <2>3 DEF WalkOK
<1>18. MarksOK' /\ Separated'
  <2>1. Separated'
    BY <1>2 DEF Separated
  <2>2. phase # "resolve"
    BY DEF OpenOutput
  <2> QED
    BY <1>2, <2>1, <2>2 DEF MarksOK, TypeOK
<1>19. HistOK'
  <2> SUFFICES ASSUME NEW c \in Calls, form'[c] # "call" PROVE FollowsDown(c)'
    BY <1>2, <1>11, MoveDownHist DEF HistOK
  <2> SUFFICES ASSUME NEW x \in {c, Target[c]}, NEW y \in {c, Target[c]}, NEW k \in Secs,
                      0 < SecOf[x], SecOf[x] < k, k <= SecOf[y], k < s
               PROVE  sec_addr(k)' <= hist[c].addr[k] - Slip(c, x)'
    BY <1>2 DEF FollowsDown
  <2>1. sec_addr(k) <= hist[c].addr[k] - Slip(c, x)
    BY <1>2 DEF HistOK, FollowsDown
  <2>2. x \in Points /\ SecOf[x] \in Secs /\ SecOf[x] < s /\ ~(s <= k) /\ ~(s <= SecOf[x])
    <3>1. x \in Points /\ SecOf[x] \in 0 .. NSec
      BY MarginFacts, SectionAssumption DEF Secs
    <3>2. SecOf[x] \in Int /\ k \in Int /\ s \in Int
      BY <1>1, <3>1 DEF Secs
    <3>3. SecOf[x] \in Secs
      BY <3>1, SecOfFacts
    <3> QED
      BY <3>1, <3>2, <3>3
  <2>3. sec_addr(k)' = sec_addr(k) /\ sec_addr(SecOf[x])' = sec_addr(SecOf[x])
    BY <1>10, <1>12, <2>2
  <2>4. Slip(c, x)' = Slip(c, x)
    BY <1>2, <2>3 DEF Slip, HistAddr, Addr
  <2> QED
    BY <2>1, <2>3, <2>4
<1> QED
  BY <1>9, <1>11, <1>16, <1>17, <1>18, <1>19

\* Placing an input section moves it, and nothing else, and never up.
LEMMA PlaceStep ==
    ASSUME IInv, PlaceSection
    PROVE  IInv' /\ \A k \in Secs : sec_addr(k)' <= sec_addr(k)
<1> USE DEF IInv
<1> DEFINE s == cur
           o == OutSec[s]
           a == AlignUp(dot, SecAlign[s])
<1>1. /\ s \in Secs /\ dot = OpenAt(s, Before(s)) /\ dot \in Nat
      /\ First(s) => vma[o] = dot
      /\ o \in OutSecs /\ vma[o] \in Nat /\ SecAlign[s] \in Nat \ {0} /\ OutAlign[o] \in Nat \ {0}
  BY OutSecFacts DEF PlaceSection, WalkOK, TypeOK
<1>2. /\ ooff' = [ooff EXCEPT ![s] = a - vma[o]] /\ dot' = a + size[s] /\ cur' = s + 1
      /\ phase' = IF s = NSec THEN "trip" ELSE IF First(s + 1) THEN "open" ELSE "relax"
      /\ UNCHANGED <<off, len, form, mark, live, size, flg0, hist, vma, pass, round, again>>
  BY DEF PlaceSection, PlaceHere, code
<1>3. /\ \A k \in Secs : sec_addr(k) \in Nat /\ size[k] \in Nat /\ Before(k) \in Nat
      /\ \A k \in Secs : sec_addr(k) = vma[OutSec[k]] + ooff[k]
  BY AddrFacts
<1>4. a \in Int /\ dot <= a /\ a = PlaceAt(s, Before(s)) /\ Before(s) <= dot
  BY <1>1, <1>3, AlignUpBounds, PlaceBounds DEF PlaceAt
<1>5. a \in Nat
  BY <1>1, <1>4
<1>6. a <= sec_addr(s)
  BY <1>1, <1>4 DEF Loose
<1>7. s # 1 => s - 1 \in Secs /\ Before(s) = sec_addr(s - 1) + size[s - 1]
  BY <1>1, SectionAssumption DEF Secs, Before
<1>8. vma[o] <= dot
  <2>1. CASE First(s)
    BY <1>1, <2>1
  <2>2. CASE ~First(s)
    <3>1. s # 1 /\ OutSec[s - 1] = o /\ dot = Before(s)
      BY <1>1, <2>2 DEF First, OpenAt
    <3>2. ooff[s - 1] \in Nat
      BY <1>7, <3>1 DEF TypeOK
    <3> QED
      BY <1>1, <1>3, <1>7, <3>1, <3>2
  <2> QED
    BY <2>1, <2>2
<1>9. /\ ooff' \in [Secs -> Nat] /\ ooff'[s] = a - vma[o]
      /\ \A k \in Secs : k # s => ooff'[k] = ooff[k]
  <2>1. a - vma[o] \in Nat
    BY <1>1, <1>4, <1>5, <1>8
  <2> QED
    BY <1>1, <1>2, <2>1 DEF TypeOK
<1>10. TypeOK'
  <2>1. cur' \in 1 .. NSec + 1 /\ dot' \in Nat /\ phase' \in Phases
    <3>1. cur' \in 1 .. NSec + 1
      BY <1>1, <1>2, SectionAssumption DEF Secs
    <3>2. dot' \in Nat
      BY <1>1, <1>2, <1>3, <1>5
    <3>3. phase' \in Phases
      BY <1>2 DEF Phases
    <3> QED
      BY <3>1, <3>2, <3>3
  <2> QED
    BY <1>2, <1>9, <2>1 DEF TypeOK
<1>11. \A k \in Secs : /\ k = s => sec_addr(k)' = a
                       /\ k # s => sec_addr(k)' = sec_addr(k)
  <2>1. TAKE k \in Secs
  <2>2. sec_addr(k)' = vma[OutSec[k]] + ooff'[k]
    BY <1>2 DEF sec_addr, Secs
  <2> QED
    BY <1>1, <1>3, <1>4, <1>9, <2>2
<1>12. \A k \in Secs : sec_addr(k)' \in Nat /\ sec_addr(k)' <= sec_addr(k)
  BY <1>3, <1>5, <1>6, <1>11
<1>13. \A k \in Secs : /\ Before(k)' \in Int /\ Before(k)' <= Before(k)
                       /\ k <= s => Before(k)' = Before(k)
                       /\ k = s + 1 => Before(k)' = a + size[s]
  <2>1. TAKE k \in Secs
  <2>2. CASE k = 1
    <3>1. k # s + 1
      BY <1>1, <2>2 DEF Secs
    <3> QED
      BY <1>2, <1>3, <2>2, <3>1 DEF Before
  <2>3. CASE k # 1
    <3>1. k - 1 \in Secs /\ (k <= s => k - 1 # s) /\ (k = s + 1 => k - 1 = s)
      BY <1>1, <2>3, SectionAssumption DEF Secs
    <3>2. Before(k)' = sec_addr(k - 1)' + size[k - 1] /\ Before(k) = sec_addr(k - 1) + size[k - 1]
      BY <1>2, <2>3 DEF Before
    <3> QED
      BY <1>3, <1>11, <1>12, <3>1, <3>2
  <2> QED
    BY <2>2, <2>3
<1>14. \A k \in Secs : PlaceAt(k, Before(k)') <= sec_addr(k)'
  <2>1. TAKE k \in Secs
  <2>2. CASE k = s
    <3>1. Before(k)' = Before(k)
      BY <1>1, <1>13, <2>2 DEF Secs
    <3> QED
      BY <1>4, <1>11, <2>2, <3>1
  <2>3. CASE k # s
    <3>1. PlaceAt(k, Before(k)') <= PlaceAt(k, Before(k)) /\ PlaceAt(k, Before(k)) <= sec_addr(k)
      BY <1>3, <1>13, PlaceMonotone DEF Loose
    <3>2. PlaceAt(k, Before(k)') \in Int /\ PlaceAt(k, Before(k)) \in Int
      BY <1>3, <1>13, PlaceBounds
    <3> QED
      BY <1>3, <1>11, <2>3, <3>1, <3>2
  <2> QED
    BY <2>2, <2>3
<1>15. ASSUME NEW i \in Secs, NEW k \in Secs, i < k
       PROVE  sec_addr(i)' + size[i] <= sec_addr(k)'
  <2>1. sec_addr(i) + size[i] <= sec_addr(k)
    BY <1>15 DEF Loose
  <2>2. CASE k # s
    BY <1>3, <1>11, <1>12, <2>1, <2>2
  <2>3. CASE k = s
    <3>1. s # 1 /\ i <= s - 1 /\ i # s
      BY <1>1, <1>15, <2>3 DEF Secs
    <3>2. sec_addr(i) + size[i] <= sec_addr(s - 1) + size[s - 1]
      <4>1. CASE i = s - 1
        BY <1>3, <4>1
      <4>2. CASE i < s - 1
        <5>1. sec_addr(i) + size[i] <= sec_addr(s - 1)
          BY <1>7, <3>1, <4>2 DEF Loose
        <5> QED
          BY <1>3, <1>7, <3>1, <5>1
      <4> QED
        BY <1>1, <3>1, <4>1, <4>2 DEF Secs
    <3> QED
      BY <1>1, <1>3, <1>4, <1>7, <1>11, <2>3, <3>1, <3>2
  <2> QED
    BY <2>2, <2>3
<1>16. \A k \in Secs : First(k) => ooff'[k] = 0
  <2>1. ASSUME First(s) PROVE a = vma[o]
    <3>1. Divides(SecAlign[s], vma[o])
      BY <1>1, AlignAssumption, DividesTrans, OutSecFacts DEF Loose
    <3>2. a <= vma[o]
      BY <1>1, <2>1, <3>1, AlignUpLeast
    <3> QED
      BY <1>1, <1>4, <1>8, <3>2
  <2> QED
    BY <1>1, <1>9, <2>1 DEF Loose
<1>17. Loose'
  <2>1. \A k \in Secs : PlaceAt(k, Before(k))' <= sec_addr(k)'
    BY <1>14 DEF PlaceAt, OpenAt
  <2>2. size' = size /\ vma' = vma
    BY <1>2
  <2> QED
    BY <1>15, <1>16, <2>1, <2>2 DEF Loose
<1>18. WalkOK'
  <2>1. CASE s = NSec
    BY <1>2, <2>1 DEF WalkOK
  <2>2. CASE s # NSec
    <3> DEFINE t == s + 1
    <3>1. t \in Secs /\ cur' = t /\ phase' = IF First(t) THEN "open" ELSE "relax"
      BY <1>1, <1>2, <2>2, SectionAssumption DEF Secs
    <3>2. Before(cur)' = a + size[s]
      <4> SUFFICES ASSUME NEW k \in Secs, k = t PROVE Before(k)' = a + size[s]
        BY <3>1 DEF Before, sec_addr
      <4> QED
        BY <1>13
    <3>3. dot' = Before(cur)'
      BY <1>2, <3>2
    <3>4. CASE First(t)
      BY <3>1, <3>3, <3>4 DEF WalkOK, First
    <3>5. CASE ~First(t)
      <4>1. OpenAt(cur, Before(cur))' = Before(cur)' /\ ~First(cur)' /\ phase' = "relax"
        BY <3>1, <3>5 DEF OpenAt, First
      <4> QED
        BY <3>1, <3>3, <4>1 DEF WalkOK
    <3> QED
      BY <3>4, <3>5
  <2> QED
    BY <2>1, <2>2
<1>19. MarksOK' /\ Separated'
  <2>1. Separated'
    BY <1>2 DEF Separated
  <2>2. phase # "resolve"
    BY DEF PlaceSection
  <2> QED
    BY <1>2, <2>1, <2>2 DEF MarksOK, TypeOK
<1>20. HistOK'
  <2> SUFFICES ASSUME NEW c \in Calls, form'[c] # "call" PROVE FollowsDown(c)'
    BY <1>2, <1>12, MoveDownHist DEF HistOK
  <2> SUFFICES ASSUME NEW x \in {c, Target[c]}, NEW y \in {c, Target[c]}, NEW k \in Secs,
                      0 < SecOf[x], SecOf[x] < k, k <= SecOf[y], k < s + 1
               PROVE  sec_addr(k)' <= hist[c].addr[k] - Slip(c, x)'
    BY <1>2 DEF FollowsDown
  <2> DEFINE H == hist[c]
             i == SecOf[x]
             d == Slip(c, x)
  <2>1. LooseHist(H) /\ ShrunkSince(H) /\ FollowsDown(c)
    BY <1>2 DEF HistOK
  <2>2. x \in Points /\ i \in Secs /\ i \in Int /\ k \in Int /\ s \in Int
    <3>1. x \in Points /\ SecOf[x] \in 0 .. NSec
      BY MarginFacts, SectionAssumption DEF Secs
    <3> QED
      BY <1>1, <3>1, SecOfFacts DEF Secs
  <2>3. i # s /\ k <= s
    BY <2>2
  <2>4. sec_addr(i)' = sec_addr(i)
    BY <1>11, <2>2, <2>3
  <2>5. Slip(c, x)' = d
    BY <1>2, <2>4 DEF Slip, HistAddr, Addr
  <2>6. CASE k < s
    <3>1. sec_addr(k) <= H.addr[k] - d
      BY <2>1, <2>6 DEF FollowsDown
    <3>2. sec_addr(k)' = sec_addr(k)
      BY <1>11, <2>2, <2>6
    <3> QED
      BY <2>5, <3>1, <3>2
  <2>7. CASE k = s
    <3>1. s # 1 /\ s - 1 \in Secs /\ i <= s - 1
      BY <1>7, <2>2, <2>7 DEF Secs
    <3>2. /\ d \in Int /\ Divides(Margin(c), d) /\ d <= HistAddr(c, x) - Addr(x)
          /\ Margin(c) \in Nat \ {0}
      BY SlipFacts, MarginFacts
    <3>3. /\ \A j \in Secs : H.addr[j] \in Nat /\ H.size[j] \in Nat
          /\ H.off[x] \in Nat /\ HistAddr(c, x) = H.addr[i] + H.off[x]
      BY <2>2, HistFacts
    <3>4. Before(s) <= H.addr[s - 1] + H.size[s - 1] - d
      <4>1. CASE i = s - 1
        <5>1. Addr(x) = sec_addr(i) + off[x] /\ off[x] \in Nat
          BY <2>2, AddrFacts DEF Addr
        <5>2. size[i] - off[x] <= H.size[i] - H.off[x]
          BY <2>1, <2>2 DEF ShrunkSince
        <5>3. Before(s) = sec_addr(i) + size[i]
          BY <1>7, <3>1, <4>1
        <5>4. /\ sec_addr(i) \in Nat /\ size[i] \in Nat /\ H.addr[i] \in Nat /\ H.size[i] \in Nat
              /\ d <= H.addr[i] + H.off[x] - (sec_addr(i) + off[x])
          BY <1>3, <2>2, <3>2, <3>3, <5>1
        <5>5. Before(s) <= H.addr[i] + H.size[i] - d
          BY <3>2, <3>3, <5>1, <5>2, <5>3, <5>4
        <5> QED
          BY <4>1, <5>5
      <4>2. CASE i < s - 1
        <5>1. s - 1 < cur /\ s - 1 <= SecOf[y]
          <6>1. y \in Points
            BY MarginFacts
          <6>2. SecOf[y] \in Int
            BY <6>1, SecOfFacts
          <6> QED
            BY <2>2, <2>7, <6>2
        <5>2. sec_addr(s - 1) <= H.addr[s - 1] - d
          BY <2>1, <3>1, <4>2, <5>1 DEF FollowsDown
        <5>3. size[s - 1] <= H.size[s - 1]
          BY <2>1, <3>1 DEF ShrunkSince
        <5> QED
          BY <1>3, <1>7, <3>1, <3>2, <3>3, <5>2, <5>3
      <4> QED
        BY <2>2, <3>1, <4>1, <4>2
    <3>5. Divides(SecAlign[s], d) /\ (First(s) => Divides(OutAlign[o], d))
      <4>1. Divides(SecAlign[s], Margin(c)) /\ (First(s) => Divides(OutAlign[o], Margin(c)))
        BY <1>1, <2>7, MarginCovers
      <4> QED
        BY <1>1, <3>2, <4>1, DividesTrans
    <3> DEFINE e == H.addr[s - 1] + H.size[s - 1]
    <3>6. e \in Int /\ Before(s) \in Int
      BY <1>1, <1>3, <3>1, <3>3
    <3>7. PlaceAt(s, Before(s)) <= PlaceAt(s, e) - d
      <4>1. Before(s) <= e - d
        BY <3>1, <3>2, <3>3, <3>4, <3>6
      <4> HIDE DEF e, d
      <4>2. d \in Int /\ s \in Secs
        BY <1>1, <3>2
      <4> QED
        BY <3>5, <3>6, <4>1, <4>2, PlaceShift
    <3>8. PlaceAt(s, e) <= H.addr[s] /\ PlaceAt(s, e) \in Int
      <4>1. s > 1
        BY <1>1, <3>1 DEF Secs
      <4> QED
        BY <1>1, <2>1, <3>6, <4>1, PlaceBounds DEF LooseHist
    <3>9. H.addr[s] \in Nat
      BY <1>1, <3>3
    <3>10. a <= H.addr[s] - d
      BY <1>4, <3>2, <3>7, <3>8, <3>9
    <3> QED
      BY <1>11, <2>5, <2>7, <3>10
  <2> QED
    BY <2>2, <2>3, <2>6, <2>7
<1> QED
  BY <1>10, <1>12, <1>17, <1>18, <1>19, <1>20

-----------------------------------------------------------------------------
(* The decision in pass 0 *)

\* What relax_call chooses is in range of the padded distance it looked at.
LEMMA ShortFormFacts ==
    ASSUME TypeOK, NEW c \in Calls
    PROVE  /\ ShortForm(c) \in {"call", "jal", "cj", "lo12"}
           /\ ShortForm(c) = "jal"  => ValidJ(PaddedFoff(c))
           /\ ShortForm(c) = "cj"   => ValidCJ(PaddedFoff(c))
           /\ ShortForm(c) = "lo12" => Addr(Target[c]) < IReach
<1>1. ValidCJ(PaddedFoff(c)) => ValidJ(PaddedFoff(c))
  <2>1. Target[c] \in Points /\ c \in Points /\ Margin(c) \in Int
    BY MarginFacts
  <2>2. Foff(c) \in Int
    BY <2>1, AddrFacts DEF Foff
  <2>3. PaddedFoff(c) \in Int
    BY <2>1, <2>2 DEF PaddedFoff, Widen
  <2> QED
    BY <2>3, ReachAssumption DEF ValidCJ, ValidJ
<1>2. UseRvc(c) => ValidCJ(PaddedFoff(c))
  BY DEF UseRvc
<1> QED
  BY <1>1, <1>2 DEF ShortForm, near_zero

\* Pass 0 over a section decides calls in the layout as it stands and marks bytes.
LEMMA Pass0Step ==
    ASSUME IInv, RelaxPass0
    PROVE  IInv'
<1> USE DEF IInv
<1>1. /\ cur \in Secs /\ phase = "relax" /\ phase' = "resolve"
      /\ form' = [c \in Calls |-> IF c \in Shortened THEN ShortForm(c) ELSE form[c]]
      /\ hist' = [c \in Calls |-> IF c \in Shortened THEN Picture ELSE hist[c]]
      /\ UNCHANGED <<off, len, live, size, flg0, vma, ooff, pass, round, cur, dot>>
  BY DEF RelaxPass0, WalkOK, lay
<1>2. PICK cut \in [His \cap Here -> {0, 1, HiLen}] :
          /\ \A h \in His \cap Here : len[h] < HiLen => cut[h] = 0
          /\ mark' = [x \in Items |->
                        IF x \in Shortened THEN CallLen - FormLen(ShortForm(x))
                        ELSE IF x \in His \cap Here THEN cut[x] ELSE 0]
          /\ again' = (again \/ Shortened # {} \/ \E h \in His \cap Here : cut[h] # 0)
  BY DEF RelaxPass0, AskAgain
<1>3. \A c \in Calls : ShortForm(c) \in {"call", "jal", "cj", "lo12"}
  BY ShortFormFacts
<1>4. \A c \in Shortened : /\ c \in Calls /\ c \in Here /\ form[c] = "call"
                           /\ ShortForm(c) \in {"jal", "cj", "lo12"}
  BY <1>3 DEF Shortened
<1>5. \A x \in Items : /\ x \in Shortened => mark'[x] = CallLen - FormLen(ShortForm(x))
                       /\ x \notin Shortened /\ x \in His \cap Here => mark'[x] = cut[x]
                       /\ x \notin Shortened /\ x \notin His \cap Here => mark'[x] = 0
  BY <1>2
<1>6. \A f \in {"jal", "cj", "lo12"} : FormLen(f) \in 1 .. 2
  BY DEF FormLen
<1>7. \A h \in His \cap Here : cut[h] \in 0 .. 2
  BY <1>2 DEF HiLen
<1>8. \A x \in Items : mark'[x] \in Nat
  BY <1>4, <1>5, <1>6, <1>7 DEF CallLen
<1>9. /\ mark' \in [Items -> Nat] /\ form' \in [Calls -> {"call", "jal", "cj", "lo12"}]
      /\ again' \in BOOLEAN
  BY <1>1, <1>2, <1>3, <1>8 DEF TypeOK
<1>10. Picture \in [addr : [Secs -> Nat], off : [Points -> Nat], size : [Secs -> Nat]]
  BY AddrFacts DEF Picture, TypeOK
<1>11. TypeOK'
  BY <1>1, <1>9, <1>10 DEF TypeOK, Phases
<1>12. MarksOK'
  <2>1. \A x \in Items : mark[x] = 0
    BY <1>1 DEF MarksOK, TypeOK
  <2>2. \A c \in Calls : c \in Items /\ c \notin His
    BY PointAssumption DEF Items
  <2>3. \A c \in Calls : len'[c] = FormLen(form'[c]) + mark'[c]
    <3>1. TAKE c \in Calls
    <3>2. len[c] = FormLen(form[c]) + mark[c]
      BY DEF MarksOK
    <3>3. CASE c \in Shortened
      <4>1. len[c] = 4
        BY <1>4, <2>1, <2>2, <3>2, <3>3 DEF FormLen
      <4>2. mark'[c] = 4 - FormLen(form'[c]) /\ form'[c] \in {"jal", "cj", "lo12"}
        BY <1>1, <1>4, <1>5, <2>2, <3>3 DEF CallLen
      <4>3. FormLen(form'[c]) \in Int
        BY <1>6, <4>2
      <4> QED
        BY <1>1, <4>1, <4>2, <4>3
    <3>4. CASE c \notin Shortened
      BY <1>1, <1>5, <2>1, <2>2, <3>2, <3>4
    <3> QED
      BY <3>3, <3>4
  <2>4. \A x \in Items : mark'[x] <= len'[x]
    <3>1. TAKE x \in Items
    <3>2. CASE x \in Shortened
      <4>1. len[x] = FormLen("call") + 0
        BY <1>4, <2>1, <3>2 DEF MarksOK
      <4> QED
        BY <1>1, <1>4, <1>5, <1>6, <3>2, <4>1 DEF CallLen, FormLen
    <3>3. CASE x \notin Shortened /\ x \in His \cap Here
      <4>1. mark'[x] = cut[x] /\ len'[x] = len[x]
        BY <1>1, <1>5, <3>3
      <4>2. cut[x] \in 0 .. 2 /\ (len[x] < 2 => cut[x] = 0)
        BY <1>2, <1>7, <3>3 DEF HiLen
      <4>3. len[x] \in Nat
        BY DEF TypeOK
      <4> HIDE DEF IInv
      <4> QED
        BY <4>1, <4>2, <4>3
    <3>4. CASE x \notin Shortened /\ x \notin His \cap Here
      BY <1>1, <1>5, <3>4 DEF TypeOK
    <3> QED
      BY <3>2, <3>3, <3>4
  <2>5. \A x \in Items : mark'[x] > 0 => SecOf[x] = cur /\ x \notin Pads
    <3>1. \A x \in Shortened : SecOf[x] = cur /\ x \notin Pads
      BY <1>4, PointAssumption DEF Here
    <3>2. \A x \in His \cap Here : SecOf[x] = cur /\ x \notin Pads
      BY PointAssumption DEF Here
    <3> QED
      BY <1>5, <3>1, <3>2
  <2> QED
    BY <1>1, <2>3, <2>4, <2>5 DEF MarksOK
<1>13. Separated' /\ WalkOK'
  <2>1. Separated'
    BY <1>1 DEF Separated
  <2>2. Before(cur)' = Before(cur)
    BY <1>1 DEF Before, sec_addr
  <2> QED
    BY <1>1, <2>1, <2>2 DEF WalkOK, OpenAt, First
<1>14. \A k \in Secs : sec_addr(k)' = sec_addr(k) /\ Before(k)' = Before(k)
  BY <1>1 DEF sec_addr, Before
<1>15. Loose'
  <2>1. \A k \in Secs : PlaceAt(k, Before(k))' <= sec_addr(k)'
    BY <1>14 DEF Loose, PlaceAt, OpenAt
  <2> QED
    BY <1>1, <1>14, <2>1 DEF Loose
<1>16. HistOK'
  <2> SUFFICES ASSUME NEW c \in Calls, form'[c] # "call"
               PROVE  /\ LooseHist(hist[c])' /\ ShrunkSince(hist[c])'
                      /\ DecidedFrom(c)' /\ FollowsDown(c)'
    BY DEF HistOK
  <2>1. CASE c \notin Shortened
    <3>1. form'[c] = form[c] /\ hist'[c] = hist[c]
      BY <1>1, <2>1
    <3>2. LooseHist(hist[c]) /\ ShrunkSince(hist[c]) /\ DecidedFrom(c) /\ FollowsDown(c)
      BY <3>1 DEF HistOK
    <3>3. LooseHist(hist[c])'
      BY <3>1, <3>2 DEF LooseHist
    <3>4. ShrunkSince(hist[c])'
      BY <1>1, <3>1, <3>2 DEF ShrunkSince, sec_addr
    <3>5. DecidedFrom(c)'
      BY <3>1, <3>2 DEF DecidedFrom, HistFoff, HistAddr
    <3>6. FollowsDown(c)'
      BY <1>1, <3>1, <3>2 DEF FollowsDown, Slip, HistAddr, Addr, sec_addr
    <3> QED
      BY <3>3, <3>4, <3>5, <3>6
  <2>2. CASE c \in Shortened
    <3>1. form'[c] = ShortForm(c) /\ hist'[c] = Picture
      BY <1>1, <2>2
    <3>2. /\ \A k \in Secs : hist'[c].addr[k] = sec_addr(k)
          /\ hist'[c].off = off /\ hist'[c].size = size
      BY <3>1 DEF Picture
    <3>3. LooseHist(hist[c])'
      <4>1. \A k \in Secs : k > 1 =>
               PlaceAt(k, hist'[c].addr[k - 1] + hist'[c].size[k - 1]) <= hist'[c].addr[k]
        <5> SUFFICES ASSUME NEW k \in Secs, k > 1
                     PROVE  PlaceAt(k, hist'[c].addr[k - 1] + hist'[c].size[k - 1]) <= hist'[c].addr[k]
          OBVIOUS
        <5>1. k - 1 \in Secs /\ k # 1
          BY SectionAssumption DEF Secs
        <5>2. Before(k) = hist'[c].addr[k - 1] + hist'[c].size[k - 1]
          BY <3>2, <5>1 DEF Before
        <5>3. PlaceAt(k, Before(k)) <= sec_addr(k)
          BY DEF Loose
        <5> QED
          BY <3>2, <5>2, <5>3
      <4>2. \A i, k \in Secs : i < k => hist'[c].addr[i] + hist'[c].size[i] <= hist'[c].addr[k]
        BY <3>2 DEF Loose
      <4>3. \A x \in Points : SecOf[x] # 0 => hist'[c].off[x] <= hist'[c].size[SecOf[x]]
        BY <3>2 DEF Separated
      <4> QED
        BY <4>1, <4>2, <4>3 DEF LooseHist, PlaceAt, OpenAt
    <3>4. ShrunkSince(hist[c])'
      <4>1. \A k \in Secs : sec_addr(k)' <= hist'[c].addr[k] /\ size'[k] <= hist'[c].size[k]
        BY <1>1, <1>14, <3>2, AddrFacts
      <4>2. \A x \in Points : off'[x] \in Nat /\ off'[x] = hist'[c].off[x]
        BY <1>1, <3>2, AddrFacts
      <4>3. \A k \in Secs : size'[k] \in Nat /\ size'[k] = hist'[c].size[k]
        BY <1>1, <3>2, AddrFacts
      <4>4. \A x \in Points : SecOf[x] # 0 => SecOf[x] \in Secs
        BY SecOfFacts
      <4> QED
        BY <4>1, <4>2, <4>3, <4>4 DEF ShrunkSince
    <3>5. /\ \A x \in Points : HistAddr(c, x)' = Addr(x)
          /\ c \in Points /\ Target[c] \in Points
      BY <3>2, SecOfFacts, MarginFacts DEF HistAddr, Addr, sec_addr
    <3>6. DecidedFrom(c)'
      <4>1. HistFoff(c)' = Foff(c)
        BY <3>5 DEF HistFoff, Foff
      <4>2. Widen(HistFoff(c)', Margin(c)) = PaddedFoff(c)
        BY <4>1 DEF PaddedFoff
      <4>3. HistAddr(c, Target[c])' = Addr(Target[c])
        BY <3>5
      <4>4. Margin(c)' = Margin(c)
        BY DEF Margin
      <4> QED
        BY <3>1, <4>2, <4>3, <4>4, ShortFormFacts DEF DecidedFrom
    <3>7. FollowsDown(c)'
      <4> SUFFICES ASSUME NEW x \in {c, Target[c]}, NEW k \in Secs
                   PROVE  sec_addr(k)' <= hist'[c].addr[k] - Slip(c, x)'
        BY DEF FollowsDown
      <4>1. x \in Points /\ Margin(c) \in Nat \ {0}
        BY <3>5, MarginFacts
      <4>2. Addr(x)' = Addr(x) /\ Addr(x) \in Nat
        BY <1>1, <4>1, AddrFacts DEF Addr, sec_addr
      <4> DEFINE e == Addr(x) - Addr(x) - Margin(c) + 1
      <4>3. Slip(c, x)' = AlignUp(e, Margin(c))
        BY <3>5, <4>1, <4>2 DEF Slip
      <4>4. e \in Int /\ e <= 0
        BY <4>1, <4>2
      <4> HIDE DEF e
      <4>7. Divides(Margin(c), 0)
        BY <4>1, DividesSelf
      <4>8. AlignUp(e, Margin(c)) \in Int
        BY <4>1, <4>4, AlignUpBounds
      <4>9. AlignUp(e, Margin(c)) <= 0
        BY <4>1, <4>4, <4>7, AlignUpLeast
      <4>5. Slip(c, x)' \in Int /\ Slip(c, x)' <= 0
        BY <4>3, <4>8, <4>9
      <4>6. sec_addr(k)' = hist'[c].addr[k] /\ sec_addr(k)' \in Nat
        BY <1>14, <3>2, AddrFacts
      <4> QED
        BY <4>5, <4>6
    <3> QED
      BY <3>3, <3>4, <3>6, <3>7
  <2> QED
    BY <2>1, <2>2
<1> QED
  BY <1>11, <1>12, <1>13, <1>15, <1>16

-----------------------------------------------------------------------------
(* The remaining steps *)

\* Resolving an R_RISCV_DELETE deletes the marked bytes.
LEMMA ResolveStep ==
    ASSUME IInv, NEW x \in Items, ResolveDelete(x)
    PROVE  IInv'
<1> USE DEF IInv
<1>1. /\ phase = "resolve" /\ cur \in Secs /\ SecOf[x] = cur /\ DeleteTail(x, mark[x])
      /\ mark' = [mark EXCEPT ![x] = 0]
      /\ UNCHANGED <<form, live, flg0, hist, vma, ooff, pass, round, phase, cur, dot, again>>
  BY DEF ResolveDelete, ClearMark, WalkOK, Here, lay, ctl
<1>2. mark[x] \in Nat /\ mark[x] <= len[x]
  BY DEF TypeOK, MarksOK
<1>3. /\ off' \in [Points -> Nat] /\ len' \in [Items -> Nat] /\ size' \in [Secs -> Nat]
      /\ Separated' /\ Loose' /\ HistOK' /\ Before(cur)' = Before(cur)
  BY <1>1, <1>2, DeleteStep
<1>4. TypeOK'
  BY <1>1, <1>3 DEF TypeOK
<1>5. /\ len'[x] = len[x] - mark[x] /\ \A y \in Items : y # x => len'[y] = len[y]
      /\ mark'[x] = 0 /\ \A y \in Items : y # x => mark'[y] = mark[y]
  BY <1>1 DEF DeleteTail, TypeOK
<1>6. MarksOK'
  <2>1. x \notin Pads
    BY DEF ResolveDelete, MarksOK
  <2>2. \A c \in Calls : len'[c] = FormLen(form'[c]) + mark'[c]
    <3>1. TAKE c \in Calls
    <3>2. len[c] = FormLen(form[c]) + mark[c] /\ c \in Items /\ FormLen(form[c]) \in Nat
      BY DEF MarksOK, Items, FormLen, TypeOK
    <3> QED
      BY <1>1, <1>2, <1>5, <3>2 DEF TypeOK
  <2>3. \A y \in Items : mark'[y] <= len'[y]
    BY <1>2, <1>3, <1>5 DEF MarksOK, TypeOK
  <2>4. \A y \in Items : mark'[y] > 0 => phase' = "resolve" /\ SecOf[y] = cur' /\ y \notin Pads
    BY <1>1, <1>5 DEF MarksOK
  <2>5. \A p \in Pads : live'[p] => PadAlign(len'[p]) = PadTo[p]
    <3>1. \A p \in Pads : p \in Items /\ p # x
      BY <2>1 DEF Items
    <3> QED
      BY <1>1, <1>5, <3>1 DEF MarksOK
  <2> QED
    BY <2>2, <2>3, <2>4, <2>5 DEF MarksOK
<1>7. WalkOK'
  BY <1>1, <1>3 DEF WalkOK, OpenAt, First
<1> QED
  BY <1>3, <1>4, <1>6, <1>7

\* relax_align deletes the nops that the final address does not need.
LEMMA AlignStep ==
    ASSUME IInv, NEW p \in Pads, RelaxAlign(p)
    PROVE  IInv'
<1> USE DEF IInv
<1>1. /\ phase = "align" /\ cur \in Secs /\ p \in LivePads /\ NopLen(p) <= len[p]
      /\ DeleteTail(p, len[p] - NopLen(p))
      /\ live' = [live EXCEPT ![p] = FALSE]
      /\ flg0' = [flg0 EXCEPT ![cur] = TRUE]
      /\ UNCHANGED <<form, mark, hist, vma, ooff, pass, round, phase, cur, dot, again>>
  BY DEF RelaxAlign, NextPad, WalkOK, lay, ctl
<1>2. p \in Items /\ p \in Points /\ SecOf[p] = cur /\ live[p]
  BY <1>1 DEF LivePads, Here, Items, Points
<1>3. PadAlign(len[p]) \in Nat \ {0}
  BY <1>2, PointAssumption DEF MarksOK
<1>4. Addr(p) \in Nat /\ len[p] \in Nat
  BY <1>2, AddrFacts DEF TypeOK
<1>5. NopLen(p) \in Nat
  <2>1. Addr(p) <= AlignUp(Addr(p), PadAlign(len[p])) /\ AlignUp(Addr(p), PadAlign(len[p])) \in Int
    BY <1>3, <1>4, AlignUpBounds
  <2> QED
    BY <1>4, <2>1 DEF NopLen
<1> DEFINE n == len[p] - NopLen(p)
<1>6. n \in Nat /\ n <= len[p]
  BY <1>1, <1>4, <1>5
<1>7. /\ off' \in [Points -> Nat] /\ len' \in [Items -> Nat] /\ size' \in [Secs -> Nat]
      /\ Separated' /\ Loose' /\ HistOK' /\ Before(cur)' = Before(cur)
  BY <1>1, <1>2, <1>6, DeleteStep
<1>8. TypeOK'
  BY <1>1, <1>7 DEF TypeOK
<1>9. \A y \in Items : y # p => len'[y] = len[y]
  BY <1>1 DEF DeleteTail, TypeOK
<1>10. MarksOK'
  <2>1. \A y \in Items : mark[y] = 0
    BY <1>1 DEF MarksOK, TypeOK
  <2>2. \A c \in Calls : c \in Items /\ c # p
    BY PointAssumption DEF Items
  <2>3. \A q \in Pads : live'[q] => q # p /\ live[q] /\ q \in Items
    BY <1>1 DEF Items, TypeOK
  <2>4. \A q \in Pads : live'[q] => PadAlign(len'[q]) = PadTo[q]
    BY <1>9, <2>3 DEF MarksOK
  <2>5. \A c \in Calls : len'[c] = FormLen(form'[c]) + mark'[c]
    BY <1>1, <1>9, <2>2 DEF MarksOK
  <2>6. \A y \in Items : mark'[y] <= len'[y] /\ mark'[y] = 0
    BY <1>1, <1>7, <2>1
  <2> QED
    BY <2>4, <2>5, <2>6 DEF MarksOK
<1>11. WalkOK'
  BY <1>1, <1>7 DEF WalkOK, OpenAt, First
<1> QED
  BY <1>7, <1>8, <1>10, <1>11

\* The steps that only move the control of the passes and trips.
LEMMA ControlStep ==
    ASSUME IInv, HeadersShrink,
           \/ ResolveDone \/ SkipRelax \/ RelaxPass1 \/ AlignDone
           \/ (\E p \in Pads : RelaxAlignError(p))
           \/ NextTrip \/ LastTrip \/ MapSegments \/ UNCHANGED vars
    PROVE  IInv'
<1> USE DEF IInv
<1>1. UNCHANGED <<off, len, form, mark, live, size, hist, vma, ooff>>
  BY DEF ResolveDone, SkipRelax, RelaxPass1, AlignDone, RelaxAlignError, NextTrip, LastTrip,
         MapSegments, vars, code, lay
<1>2. \A x \in Items : phase # "resolve" => mark[x] = 0
  BY DEF MarksOK, TypeOK
<1>3. ResolveDone => \A x \in Items : mark[x] = 0
  BY DEF ResolveDone, MarksOK, TypeOK, Here
<1>4. \A x \in Items : mark'[x] > 0 => phase' = "resolve" /\ SecOf[x] = cur' /\ x \notin Pads
  <2>1. CASE ResolveDone
    BY <1>1, <1>3, <2>1
  <2>2. CASE UNCHANGED vars
    BY <2>2 DEF MarksOK, vars, ctl, code
  <2>3. CASE ~ResolveDone /\ ~UNCHANGED vars
    <3>1. phase # "resolve"
      BY <2>3 DEF SkipRelax, RelaxPass1, AlignDone, RelaxAlignError, NextTrip, LastTrip, MapSegments
    <3> QED
      BY <1>1, <1>2, <3>1
  <2> QED
    BY <2>1, <2>2, <2>3
<1>5. MarksOK'
  BY <1>1, <1>4 DEF MarksOK
<1>6. CASE \/ ResolveDone \/ SkipRelax \/ RelaxPass1 \/ AlignDone
           \/ (\E p \in Pads : RelaxAlignError(p)) \/ LastTrip \/ UNCHANGED vars
  <2>1. UNCHANGED <<pass, round, cur, dot, again>>
    BY <1>6 DEF ResolveDone, SkipRelax, RelaxPass1, AlignDone, RelaxAlignError, LastTrip, vars, ctl
  <2>2. TypeOK'
    <3>1. phase' \in Phases
      BY <1>6 DEF ResolveDone, SkipRelax, RelaxPass1, AlignDone, RelaxAlignError, LastTrip, vars,
                  ctl, Phases, TypeOK
    <3>2. flg0' \in [Secs -> BOOLEAN]
      BY <1>6 DEF ResolveDone, SkipRelax, RelaxPass1, AlignDone, RelaxAlignError, LastTrip, vars,
                  code, TypeOK
    <3> QED
      BY <1>1, <2>1, <3>1, <3>2 DEF TypeOK
  <2>3. cur' <= cur /\ Starts[round'] <= Starts[round]
    BY <2>1, RoundAssumption, SectionAssumption DEF TypeOK
  <2>4. Separated' /\ Loose' /\ HistOK'
    BY <1>1, <2>2, <2>3, SteadyStep
  <2>5. Before(cur)' = Before(cur)
    BY <1>1, <2>1 DEF Before, sec_addr
  <2>6. \/ phase' = phase
        \/ phase' = "place" /\ phase \in {"resolve", "relax", "align"}
        \/ phase' = "align" /\ phase = "relax"
        \/ phase' = "error"
        \/ phase' = "done" /\ phase = "trip"
    BY <1>6 DEF ResolveDone, SkipRelax, RelaxPass1, AlignDone, RelaxAlignError, LastTrip, vars, ctl
  <2>7. WalkOK'
    BY <1>1, <2>1, <2>5, <2>6 DEF WalkOK, OpenAt, First
  <2> QED
    BY <1>5, <2>2, <2>4, <2>7
<1>7. CASE NextTrip \/ MapSegments
  <2>1. /\ phase' = "open" /\ cur' = 1 /\ dot' = Starts[round'] /\ again' = FALSE
        /\ pass' \in 0 .. 2 /\ UNCHANGED flg0
        /\ round' \in 1 .. Rounds /\ (round' = round \/ round' = round + 1)
    BY <1>7, RoundAssumption DEF NextTrip, MapSegments, Restart, TypeOK, code
  <2>2. Starts[round'] \in Nat /\ Starts[round] \in Nat /\ Starts[round'] <= Starts[round]
    <3>1. round \in 1 .. Rounds /\ Starts[round] \in Nat /\ Starts[round'] \in Nat
      BY <2>1, RoundAssumption DEF TypeOK
    <3>2. CASE round' = round
      BY <3>1, <3>2
    <3>3. CASE round' = round + 1
      <4>1. round \in 1 .. Rounds - 1
        BY <2>1, <3>1, <3>3, RoundAssumption
      <4> QED
        BY <3>1, <3>3, <4>1 DEF HeadersShrink
    <3> QED
      BY <2>1, <3>1, <3>2, <3>3
  <2>3. TypeOK'
    <3>1. cur' \in 1 .. NSec + 1 /\ dot' \in Nat /\ phase' \in Phases /\ again' \in BOOLEAN
      <4>1. cur' \in 1 .. NSec + 1
        BY <2>1, SectionAssumption
      <4>2. phase' \in Phases
        BY <2>1 DEF Phases
      <4> QED
        BY <2>1, <2>2, <4>1, <4>2
    <3> QED
      BY <1>1, <2>1, <3>1 DEF TypeOK
  <2>4. cur' <= cur
    BY <2>1, SectionAssumption DEF TypeOK
  <2>5. Separated' /\ Loose' /\ HistOK'
    BY <1>1, <2>2, <2>3, <2>4, SteadyStep
  <2>6. WalkOK'
    <3>1. Before(cur)' = Starts[round']
      BY <2>1 DEF Before
    <3>2. 1 \in Secs /\ First(1)
      BY SectionAssumption DEF Secs, First
    <3> QED
      BY <2>1, <3>1, <3>2 DEF WalkOK, First
  <2> QED
    BY <1>5, <2>3, <2>5, <2>6
<1> QED
  BY <1>6, <1>7

-----------------------------------------------------------------------------
(* The initial state *)

\* The layout before relaxation, as lang_size_sections leaves it, satisfies IInv.
LEMMA InitIInv ==
    Init => IInv
<1> SUFFICES ASSUME Init PROVE IInv
  OBVIOUS
<1>1. PICK o \in Objects :
         /\ off = o.off /\ len = [x \in Items |-> ItemLen(o, x)]
         /\ form = [c \in Calls |-> "call"] /\ mark = [x \in Items |-> 0]
         /\ live = [p \in Pads |-> TRUE] /\ size = o.size /\ vma = o.vma /\ ooff = o.ooff
         /\ flg0 = [s \in Secs |-> FALSE]
         /\ hist = [c \in Calls |-> [addr |-> [s \in Secs |-> o.vma[OutSec[s]] + o.ooff[s]],
                                     off |-> o.off, size |-> o.size]]
         /\ pass = 0 /\ round = 1 /\ phase = "open" /\ cur = 1
         /\ dot = Starts[1] /\ again = FALSE
  BY DEF Init
<1>2. WellFormed(o) /\ PadsFit(o)
  BY ObjectAssumption
<1>3. \A x \in Items : ItemLen(o, x) \in Nat
  BY <1>2 DEF WellFormed, ItemLen, Items, CallLen, HiLen
<1>4. 1 \in Secs /\ First(1) /\ 1 \in 1 .. Rounds /\ Starts[1] \in Nat
  BY SectionAssumption, RoundAssumption DEF Secs, First
<1>5. \A s \in Secs : o.vma[OutSec[s]] + o.ooff[s] \in Nat
  BY <1>2, OutSecFacts DEF WellFormed
<1>6. TypeOK
  <2>1. hist \in [Calls -> [addr : [Secs -> Nat], off : [Points -> Nat], size : [Secs -> Nat]]]
    BY <1>1, <1>2, <1>5 DEF WellFormed
  <2>2. cur \in 1 .. NSec + 1 /\ phase \in Phases /\ pass \in 0 .. 2 /\ round \in 1 .. Rounds
    BY <1>1, <1>4, SectionAssumption DEF Phases
  <2> QED
    BY <1>1, <1>2, <1>3, <1>4, <2>1, <2>2 DEF TypeOK, WellFormed
<1>7. Separated
  BY <1>1, <1>2 DEF WellFormed, Separated, Items
<1>8. MarksOK
  <2>1. \A p \in Pads : p \in Items /\ len[p] = o.pad[p]
    BY <1>1, PointAssumption DEF ItemLen, Items
  <2>2. \A c \in Calls : c \in Items /\ len[c] = 4
    BY <1>1 DEF ItemLen, Items, CallLen
  <2>3. \A x \in Items : mark[x] = 0 /\ len[x] \in Nat
    BY <1>1, <1>3
  <2> QED
    <3>1. \A c \in Calls : len[c] = FormLen(form[c]) + mark[c]
      BY <1>1, <2>2, <2>3 DEF FormLen
    <3>2. \A p \in Pads : PadAlign(len[p]) = PadTo[p]
      BY <1>2, <2>1 DEF PadsFit
    <3> QED
      BY <2>3, <3>1, <3>2 DEF MarksOK
<1>9. \A k \in Secs : /\ First(k) => vma[OutSec[k]] = OpenAt(k, Before(k))
                      /\ sec_addr(k) = PlaceAt(k, Before(k))
                      /\ Before(k) \in Nat
  <2>1. TAKE k \in Secs
  <2>2. Laid(o.vma, o.ooff, o.size, Starts[1])
    BY <1>2 DEF WellFormed
  <2>3. Before(k) = IF k = 1 THEN Starts[1] ELSE o.vma[OutSec[k - 1]] + o.ooff[k - 1] + o.size[k - 1]
    BY <1>1, SectionAssumption DEF Before, sec_addr, Secs
  <2>4. sec_addr(k) = o.vma[OutSec[k]] + o.ooff[k]
    BY <1>1 DEF sec_addr, Secs
  <2>5. Before(k) \in Nat
    BY <1>6, AddrFacts
  <2> QED
    BY <1>1, <2>2, <2>3, <2>4, <2>5 DEF Laid
<1>10. Loose
  <2>1. \A k \in Secs : First(k) => Divides(OutAlign[OutSec[k]], vma[OutSec[k]])
    BY <1>9, AlignUpBounds, OutSecFacts DEF OpenAt
  <2>2. \A k \in Secs : First(k) => ooff[k] = 0
    <3> SUFFICES ASSUME NEW k \in Secs, First(k) PROVE ooff[k] = 0
      OBVIOUS
    <3> DEFINE v == vma[OutSec[k]]
    <3>1. v \in Nat /\ ooff[k] \in Nat /\ sec_addr(k) = v + ooff[k]
      BY <1>6, AddrFacts, OutSecFacts DEF TypeOK
    <3>2. Divides(SecAlign[k], v)
      BY <2>1, <3>1, AlignAssumption, DividesTrans, OutSecFacts
    <3>3. sec_addr(k) = AlignUp(v, SecAlign[k])
      BY <1>9 DEF PlaceAt
    <3>4. AlignUp(v, SecAlign[k]) <= v
      BY <3>1, <3>2, AlignUpLeast, OutSecFacts
    <3> QED
      BY <3>1, <3>3, <3>4
  <2>3. \A k \in Secs : PlaceAt(k, Before(k)) <= sec_addr(k)
    BY <1>6, <1>9, AddrFacts
  <2>4. \A p \in OutSecs : \E k \in Secs : OutSec[k] = p /\ First(k)
    BY FirstAssumption
  <2>5. \A p \in OutSecs : Divides(OutAlign[p], vma[p])
    BY <2>1, <2>4
  <2>6. \A i, k \in Secs : i < k => sec_addr(i) + size[i] <= sec_addr(k)
    <3>1. \A k \in Secs : sec_addr(k) = o.vma[OutSec[k]] + o.ooff[k]
      BY <1>1 DEF sec_addr, Secs
    <3> QED
      BY <1>1, <1>2, <3>1 DEF WellFormed
  <2> QED
    BY <2>2, <2>3, <2>5, <2>6 DEF Loose
<1>11. WalkOK
  BY <1>1, <1>4 DEF WalkOK, Before
<1>12. HistOK
  BY <1>1 DEF HistOK
<1> QED
  BY <1>6, <1>7, <1>8, <1>10, <1>11, <1>12 DEF IInv

-----------------------------------------------------------------------------
(* Theorems *)

\* Every step preserves IInv, and no step moves a section up.
LEMMA NextIInv ==
    ASSUME HeadersShrink, IInv, [Next]_vars
    PROVE  IInv' /\ \A s \in Secs : sec_addr(s)' <= sec_addr(s)
<1>1. CASE OpenOutput
  BY <1>1, OpenStep
<1>2. CASE PlaceSection
  BY <1>2, PlaceStep
<1>3. CASE ~OpenOutput /\ ~PlaceSection
  <2>1. vma' = vma /\ ooff' = ooff
    BY <1>3 DEF Next, Trip, RelaxPass0, ResolveDone, SkipRelax, RelaxPass1, AlignDone,
       ResolveDelete, RelaxAlign, RelaxAlignError, NextTrip, LastTrip, MapSegments, Finished,
       vars, lay
  <2>2. \A s \in Secs : sec_addr(s)' <= sec_addr(s)
    <3>1. \A s \in Secs : sec_addr(s)' = sec_addr(s) /\ sec_addr(s) \in Nat
      BY <2>1, AddrFacts DEF sec_addr, IInv
    <3> QED
      BY <3>1
  <2>3. CASE RelaxPass0
    BY <2>2, <2>3, Pass0Step
  <2>4. CASE \E x \in Items : ResolveDelete(x)
    BY <2>2, <2>4, ResolveStep
  <2>5. CASE \E p \in Pads : RelaxAlign(p)
    BY <2>2, <2>5, AlignStep
  <2>6. CASE \/ ResolveDone \/ SkipRelax \/ RelaxPass1 \/ AlignDone
             \/ (\E p \in Pads : RelaxAlignError(p))
             \/ NextTrip \/ LastTrip \/ MapSegments \/ UNCHANGED vars
    BY <2>2, <2>6, ControlStep
  <2> QED
    BY <1>3, <2>3, <2>4, <2>5, <2>6 DEF Next, Trip, Finished
<1> QED
  BY <1>1, <1>2, <1>3

\* The invariant is strong enough: a shortened call reaches its target.
LEMMA IInvInRange ==
    ASSUME IInv
    PROVE  JumpsInRange
<1> USE DEF IInv
<1> SUFFICES ASSUME phase = "done", NEW c \in Calls, SecOf[Target[c]] # 0, form[c] # "call"
             PROVE  InRange(c)
  BY DEF JumpsInRange, InRange
<1> DEFINE t == Target[c]
           H == hist[c]
           M == Margin(c)
           i == SecOf[c]
           j == SecOf[t]
<1>1. LooseHist(H) /\ ShrunkSince(H) /\ DecidedFrom(c) /\ FollowsDown(c)
  BY DEF HistOK
<1>2. /\ c \in Points /\ t \in Points /\ i \in Secs /\ j \in Secs /\ M \in Nat \ {0}
      /\ i # 0 /\ cur = NSec + 1
  <2>1. c \in Points /\ t \in Points /\ i \in Secs /\ M \in Nat \ {0}
    BY MarginFacts
  <2>2. j \in Secs
    BY <2>1, SecOfFacts
  <2> QED
    BY <2>1, <2>2 DEF WalkOK, Secs
<1>3. /\ Addr(c) \in Nat /\ Addr(t) \in Nat
      /\ Addr(c) = sec_addr(i) + off[c] /\ Addr(t) = sec_addr(j) + off[t]
      /\ off[c] \in Nat /\ off[t] \in Nat
      /\ sec_addr(i) \in Nat /\ sec_addr(j) \in Nat /\ size[i] \in Nat /\ size[j] \in Nat
  BY <1>2, AddrFacts DEF Addr
<1>4. /\ HistAddr(c, c) = H.addr[i] + H.off[c] /\ HistAddr(c, t) = H.addr[j] + H.off[t]
      /\ H.addr[i] \in Nat /\ H.addr[j] \in Nat /\ H.off[c] \in Nat /\ H.off[t] \in Nat
      /\ H.size[i] \in Nat /\ H.size[j] \in Nat
  BY <1>2, HistFacts
<1>5. off[c] <= size[i] /\ off[t] <= size[j] /\ H.off[c] <= H.size[i] /\ H.off[t] <= H.size[j]
  BY <1>1, <1>2 DEF Separated, LooseHist
<1>6. off[c] <= H.off[c] /\ off[t] <= H.off[t] /\ sec_addr(j) <= H.addr[j]
  BY <1>1, <1>2 DEF ShrunkSince
<1> DEFINE f == Foff(c)
           g == HistFoff(c)
<1>7. /\ f \in Int /\ g \in Int /\ f = Addr(t) - Addr(c)
      /\ g = HistAddr(c, t) - HistAddr(c, c)
  BY <1>3, <1>4 DEF Foff, HistFoff
<1>8. \/ 0 <= f /\ f <= g + M - 1 /\ 0 <= g
      \/ f <= 0 /\ g - M + 1 <= f /\ g <= 0
  <2>1. CASE i = j
    <3>1. CASE H.off[c] <= H.off[t]
      <4>1. off[c] <= off[t] /\ off[t] - off[c] <= H.off[t] - H.off[c]
        BY <1>1, <1>2, <2>1, <3>1 DEF ShrunkSince
      <4> QED
        BY <1>2, <1>3, <1>4, <1>7, <2>1, <3>1, <4>1
    <3>2. CASE H.off[t] <= H.off[c]
      <4>1. off[t] <= off[c] /\ off[c] - off[t] <= H.off[c] - H.off[t]
        BY <1>1, <1>2, <2>1, <3>2 DEF ShrunkSince
      <4> QED
        BY <1>2, <1>3, <1>4, <1>7, <2>1, <3>2, <4>1
    <3> QED
      BY <1>4, <3>1, <3>2
  <2>2. CASE i < j
    <3>1. sec_addr(i) + size[i] <= sec_addr(j) /\ H.addr[i] + H.size[i] <= H.addr[j]
      BY <1>1, <1>2, <2>2 DEF Loose, LooseHist
    <3> DEFINE d == Slip(c, c)
    <3>2. d \in Int /\ HistAddr(c, c) - Addr(c) < d + M
      BY SlipFacts
    <3>3. sec_addr(j) <= H.addr[j] - d
      <4>1. 0 < i /\ i < j /\ j <= j /\ j < cur
        BY <1>2, <2>2, SectionAssumption DEF Secs
      <4> QED
        BY <1>1, <1>2, <4>1 DEF FollowsDown
    <3> HIDE DEF d
    <3>4. 0 <= f /\ 0 <= g
      BY <1>3, <1>4, <1>5, <1>7, <3>1
    <3>5. f <= g + M - 1
      BY <1>2, <1>3, <1>4, <1>6, <1>7, <3>2, <3>3
    <3> QED
      BY <3>4, <3>5
  <2>3. CASE j < i
    <3>1. sec_addr(j) + size[j] <= sec_addr(i) /\ H.addr[j] + H.size[j] <= H.addr[i]
      BY <1>1, <1>2, <2>3 DEF Loose, LooseHist
    <3> DEFINE d == Slip(c, t)
    <3>2. d \in Int /\ HistAddr(c, t) - Addr(t) < d + M
      BY SlipFacts
    <3>3. sec_addr(i) <= H.addr[i] - d
      <4>1. 0 < j /\ j < i /\ i <= i /\ i < cur
        BY <1>2, <2>3, SectionAssumption DEF Secs
      <4> QED
        BY <1>1, <1>2, <4>1 DEF FollowsDown
    <3> HIDE DEF d
    <3>4. f <= 0 /\ g <= 0
      BY <1>3, <1>4, <1>5, <1>7, <3>1
    <3>5. g - M + 1 <= f
      BY <1>2, <1>3, <1>4, <1>6, <1>7, <3>2, <3>3
    <3> QED
      BY <3>4, <3>5
  <2> QED
    BY <1>2, <2>1, <2>2, <2>3 DEF Secs
<1>9. form[c] \in {"jal", "cj", "lo12"}
  BY DEF TypeOK
<1>10. CASE form[c] = "jal"
  <2>1. ValidJ(Widen(g, M))
    BY <1>1, <1>10 DEF DecidedFrom
  <2> HIDE DEF f, g, M
  <2>2. ValidJ(f)
    BY <1>2, <1>7, <1>8, <2>1, ReachAssumption DEF ValidJ, Widen
  <2> QED
    BY <1>10, <2>2 DEF InRange, f
<1>11. CASE form[c] = "cj"
  <2>1. ValidCJ(Widen(g, M))
    BY <1>1, <1>11 DEF DecidedFrom
  <2> HIDE DEF f, g, M
  <2>2. ValidCJ(f)
    BY <1>2, <1>7, <1>8, <2>1, ReachAssumption DEF ValidJ, ValidCJ, Widen
  <2> QED
    BY <1>11, <2>2 DEF InRange, f
<1>12. CASE form[c] = "lo12"
  <2>1. HistAddr(c, t) < IReach
    BY <1>1, <1>12 DEF DecidedFrom
  <2>2. near_zero(c)
    BY <1>3, <1>4, <1>6, <2>1, ReachAssumption DEF near_zero
  <2> QED
    BY <1>12, <2>2 DEF InRange
<1> QED
  BY <1>9, <1>10, <1>11, <1>12

\* The variables keep their types, deletion keeps instructions and labels
\* apart, and the bookkeeping of pass 0 is consistent: the inductive
\* invariant holds in every state of a link whose headers do not grow.
THEOREM Invariance ==
    ASSUME HeadersShrink
    PROVE  Spec => []IInv
<1>1. Init => IInv
  BY InitIInv
<1>2. IInv /\ [Next]_vars => IInv'
  BY NextIInv
<1> QED
  BY <1>1, <1>2, PTL DEF Spec

\* The variables of RelaxLayout keep their types in every link whose headers do not
\* grow between the passes.
THEOREM TypeCorrectness ==
    ASSUME HeadersShrink
    PROVE  Spec => []TypeOK
<1>1. IInv => TypeOK
  BY DEF IInv
<1> QED
  BY <1>1, Invariance, PTL

\* Deleting bytes never makes two pieces of a section overlap or a symbol point
\* into the middle of a relaxed instruction (_riscv_relax_delete_bytes).
THEOREM Separation ==
    ASSUME HeadersShrink
    PROVE  Spec => []Separated
<1>1. IInv => Separated
  BY DEF IInv
<1> QED
  BY <1>1, Invariance, PTL

\* Every call _bfd_riscv_relax_call shortens to a symbol in a section is in
\* range when the layout is finished: the margin of one alignment is enough,
\* whatever is deleted later and however old and new addresses were mixed.
THEOREM ShortenedCallsReach ==
    ASSUME HeadersShrink
    PROVE  Spec => []JumpsInRange
<1>1. IInv => JumpsInRange
  BY IInvInRange
<1> QED
  BY <1>1, Invariance, PTL

\* No step of the relaxation moves a section to a higher address.
THEOREM NeverMoveUp ==
    ASSUME HeadersShrink
    PROVE  Spec => SectionsNeverMoveUp
<1>1. IInv /\ [Next]_vars => [\A s \in Secs : sec_addr(s)' <= sec_addr(s)]_vars
  BY NextIInv
<1> QED
  BY <1>1, Invariance, PTL DEF Spec, SectionsNeverMoveUp

-----------------------------------------------------------------------------
(* The finished layout *)

\* A section stays placed while it and the end of the section before it stay.
LEMMA PlacedKept ==
    ASSUME NEW k \in Secs, Placed(k), round' = round, sec_addr(k)' = sec_addr(k),
           First(k) => vma'[OutSec[k]] = vma[OutSec[k]],
           k # 1 => sec_addr(k - 1)' = sec_addr(k - 1) /\ size'[k - 1] = size[k - 1]
    PROVE  Placed(k)'
<1>1. Before(k)' = Before(k)
  BY DEF Before
<1> QED
  BY <1>1 DEF Placed, PlaceAt, OpenAt, First

\* A deletion in the current section changes the size of no other section.
LEMMA DeletionLocal ==
    ASSUME IInv, NEW x \in Items, ResolveDelete(x) \/ (x \in Pads /\ RelaxAlign(x))
    PROVE  /\ cur \in Secs /\ SecOf[x] = cur
           /\ \A k \in Secs : k # cur => size'[k] = size[k]
           /\ \A y \in Items : y # x => len'[y] = len[y]
           /\ \A y \in Points : SecOf[y] # cur => off'[y] = off[y]
           /\ UNCHANGED <<vma, ooff, cur, round, pass, phase, again, form>>
<1> USE DEF IInv
<1>1. x \in Here /\ UNCHANGED <<vma, ooff, cur, round, pass, phase, again, form>>
  BY DEF ResolveDelete, RelaxAlign, NextPad, LivePads, lay, ctl
<1>2. SecOf[x] = cur /\ cur \in Secs
  BY <1>1, SecOfFacts DEF Here
<1>3. PICK n \in Int : DeleteTail(x, n)
  <2>1. len[x] \in Int /\ mark[x] \in Int
    BY DEF TypeOK
  <2>2. CASE ResolveDelete(x)
    BY <2>1, <2>2 DEF ResolveDelete
  <2>3. CASE x \in Pads /\ RelaxAlign(x)
    <3>1. Addr(x) \in Int /\ PadTo[x] \in Nat \ {0} /\ PadAlign(len[x]) = PadTo[x]
      BY <2>3, AddrFacts, SecOfFacts, PointAssumption DEF RelaxAlign, NextPad, LivePads, MarksOK
    <3>2. NopLen(x) \in Int
      BY <3>1, AlignUpBounds DEF NopLen
    <3> QED
      BY <2>1, <2>3, <3>2 DEF RelaxAlign
  <2> QED
    BY <2>2, <2>3
<1>4. \A k \in Secs : k # cur => size'[k] = size[k]
  BY <1>2, <1>3 DEF DeleteTail, TypeOK
<1>5. \A y \in Items : y # x => len'[y] = len[y]
  BY <1>3 DEF DeleteTail, TypeOK
<1>6. \A y \in Points : SecOf[y] # cur => off'[y] = off[y]
  BY <1>2, <1>3 DEF DeleteTail, Moved, TypeOK
<1> QED
  BY <1>1, <1>2, <1>4, <1>5, <1>6

\* The steps that only move the walk on.
Quietly ==
    \/ ResolveDone \/ SkipRelax \/ RelaxPass1 \/ AlignDone
    \/ (\E p \in Pads : RelaxAlignError(p)) \/ LastTrip \/ UNCHANGED vars

\* They are the steps that are left when the others are taken out.
LEMMA StepCases ==
    ASSUME [Next]_vars
    PROVE  \/ OpenOutput \/ PlaceSection \/ RelaxPass0
           \/ (\E x \in Items : ResolveDelete(x)) \/ (\E p \in Pads : RelaxAlign(p))
           \/ NextTrip \/ MapSegments \/ Quietly
BY DEF Next, Trip, Finished, Quietly

\* They leave code and layout alone, and handle no directive.
LEMMA QuietStep ==
    ASSUME Quietly
    PROVE  UNCHANGED <<off, len, form, mark, live, size, hist, vma, ooff, pass, round, cur, dot, again>>
BY DEF Quietly, ResolveDone, SkipRelax, RelaxPass1, AlignDone, RelaxAlignError, LastTrip, vars,
       code, lay, ctl

\* Behind the walk every section lies where lang_size_sections_1 placed it.
LEMMA PrefixStep ==
    ASSUME HeadersShrink, IInv, PrefixLaid, [Next]_vars
    PROVE  PrefixLaid'
<1> USE DEF IInv
<1>0. \A k \in Secs : k \in Nat /\ k # 0 /\ (k # 1 => k - 1 \in Secs)
  BY SectionAssumption DEF Secs
<1>1. cur \in Nat
  BY SectionAssumption DEF TypeOK
<1>2. ASSUME NEW k \in Secs, k < cur, cur' = cur, round' = round,
             \A i \in Secs : i < cur => sec_addr(i)' = sec_addr(i) /\ size'[i] = size[i],
             \A i \in Secs : i < cur => vma'[OutSec[i]] = vma[OutSec[i]]
      PROVE  Placed(k)'
  <2>1. Placed(k)
    BY <1>2 DEF PrefixLaid
  <2>2. k # 1 => k - 1 \in Secs /\ k - 1 < cur
    BY <1>0, <1>1, <1>2
  <2> QED
    BY <1>2, <2>1, <2>2, PlacedKept
<1>3. CASE OpenOutput
  <2>1. /\ cur \in Secs /\ First(cur) /\ UNCHANGED <<size, ooff, cur, round>>
        /\ vma' = [vma EXCEPT ![OutSec[cur]] = OpenAt(cur, dot)]
    BY <1>3 DEF OpenOutput, WalkOK, code
  <2>2. \A i \in Secs : i < cur => OutSec[i] # OutSec[cur]
    BY <1>0, <2>1, FirstOfOutput
  <2>3. \A i \in Secs : i < cur => vma'[OutSec[i]] = vma[OutSec[i]]
    BY <2>1, <2>2, OutSecFacts DEF TypeOK
  <2>4. \A i \in Secs : i < cur => sec_addr(i)' = sec_addr(i) /\ size'[i] = size[i]
    BY <1>0, <2>1, <2>3 DEF sec_addr
  <2> QED
    BY <1>2, <2>1, <2>3, <2>4 DEF PrefixLaid
<1>4. CASE PlaceSection
  <2>1. /\ cur \in Secs /\ UNCHANGED <<size, vma, round>> /\ cur' = cur + 1
        /\ ooff' = [ooff EXCEPT ![cur] = PlaceHere - vma[OutSec[cur]]]
        /\ dot = OpenAt(cur, Before(cur)) /\ (First(cur) => vma[OutSec[cur]] = dot)
    BY <1>4 DEF PlaceSection, WalkOK, code
  <2>2. \A i \in Secs : i # cur => sec_addr(i)' = sec_addr(i)
    BY <2>1 DEF sec_addr, TypeOK
  <2>3. ASSUME NEW k \in Secs, k < cur PROVE Placed(k)'
    <3>1. Placed(k)
      BY <2>3 DEF PrefixLaid
    <3>2. k # cur /\ (k # 1 => k - 1 \in Secs /\ k - 1 # cur)
      BY <1>0, <1>1, <2>3
    <3> QED
      BY <2>1, <2>2, <3>1, <3>2, PlacedKept
  <2>4. ASSUME NEW k \in Secs, k = cur PROVE Placed(k)'
    <3>1. Before(k)' = Before(k)
      <4>1. k # 1 => k - 1 \in Secs /\ k - 1 # cur
        BY <1>0, <2>4
      <4> QED
        BY <2>1, <2>2, <4>1 DEF Before
    <3>2. PlaceHere = PlaceAt(k, Before(k)) /\ PlaceHere \in Int
      <4>1. dot \in Int /\ SecAlign[cur] \in Nat \ {0}
        BY <2>1, OutSecFacts DEF TypeOK
      <4>2. PlaceHere \in Int
        BY <4>1, AlignUpBounds DEF PlaceHere
      <4> QED
        BY <2>1, <2>4, <4>2 DEF PlaceHere, PlaceAt
    <3>3. vma[OutSec[k]] \in Nat /\ ooff'[k] = PlaceHere - vma[OutSec[k]]
      BY <2>1, <2>4, OutSecFacts DEF TypeOK
    <3>4. sec_addr(k)' = PlaceHere
      BY <1>0, <2>1, <3>2, <3>3 DEF sec_addr
    <3>5. First(k) => vma'[OutSec[k]] = OpenAt(k, Before(k))
      BY <2>1, <2>4
    <3> QED
      BY <3>1, <3>2, <3>4, <3>5 DEF Placed, PlaceAt, OpenAt, First
  <2>5. \A k \in Secs : k < cur' => k < cur \/ k = cur
    BY <1>0, <1>1, <2>1
  <2> QED
    BY <2>3, <2>4, <2>5 DEF PrefixLaid
<1>5. CASE (\E x \in Items : ResolveDelete(x)) \/ (\E p \in Pads : RelaxAlign(p))
  <2>1. PICK x \in Items : ResolveDelete(x) \/ (x \in Pads /\ RelaxAlign(x))
    BY <1>5 DEF Items
  <2>2. \A k \in Secs : k # cur => size'[k] = size[k]
    BY <2>1, DeletionLocal
  <2>3. UNCHANGED <<vma, ooff, cur, round>>
    BY <2>1, DeletionLocal
  <2>4. \A i \in Secs : i < cur => sec_addr(i)' = sec_addr(i) /\ size'[i] = size[i]
    BY <1>0, <1>1, <2>2, <2>3 DEF sec_addr
  <2> QED
    BY <1>2, <2>3, <2>4 DEF PrefixLaid
<1>6. CASE RelaxPass0 \/ Quietly
  <2>1. UNCHANGED <<vma, ooff, cur, round, size>>
    BY <1>6, QuietStep DEF RelaxPass0, lay
  <2> QED
    BY <1>2, <2>1 DEF PrefixLaid, sec_addr
<1>7. CASE NextTrip \/ MapSegments
  <2>1. cur' = 1
    BY <1>7 DEF NextTrip, MapSegments, Restart
  <2> QED
    BY <1>0, <2>1 DEF PrefixLaid
<1> QED
  BY <1>3, <1>4, <1>5, <1>6, <1>7, StepCases

\* Which phases each pass goes through.
LEMMA PassStep ==
    ASSUME IInv, PassOK, [Next]_vars
    PROVE  PassOK'
<1> USE DEF PassOK
<1>0. cur \in 1 .. NSec + 1 /\ flg0 \in [Secs -> BOOLEAN] /\ pass \in 0 .. 2 /\ again \in BOOLEAN
  BY DEF IInv, TypeOK
<1>1. CASE OpenOutput
  BY <1>1 DEF OpenOutput, code
<1>2. CASE PlaceSection
  BY <1>2 DEF PlaceSection, code
<1>3. CASE RelaxPass0
  BY <1>3 DEF RelaxPass0, Relaxable
<1>4. CASE (\E x \in Items : ResolveDelete(x))
  BY <1>4 DEF ResolveDelete, ctl
<1>5. CASE \E p \in Pads : RelaxAlign(p)
  BY <1>5 DEF RelaxAlign, ctl
<1>6. CASE NextTrip
  BY <1>0, <1>6 DEF NextTrip, Restart
<1>7. CASE MapSegments
  BY <1>7 DEF MapSegments, Restart
<1>8. CASE Quietly
  BY <1>8 DEF Quietly, ResolveDone, SkipRelax, RelaxPass1, AlignDone, RelaxAlignError, LastTrip,
              vars, code, ctl
<1> QED
  BY <1>1, <1>2, <1>3, <1>4, <1>5, <1>6, <1>7, <1>8, StepCases

-----------------------------------------------------------------------------
(* Alignment directives *)

\* Sums of multiples are multiples.
LEMMA DividesAdd ==
    ASSUME NEW a \in Nat \ {0}, NEW b \in Int, NEW c \in Int, Divides(a, b), Divides(a, c)
    PROVE  Divides(a, b + c)
<1>1. Divides(a, 0 - c) /\ 0 - c \in Int
  BY DividesSelf, DividesSub
<1>2. Divides(a, b - (0 - c))
  BY <1>1, DividesSub
<1>3. b - (0 - c) = b + c
  OBVIOUS
<1> QED
  BY <1>2, <1>3

\* A section is aligned even while old and new addresses are mixed.
LEMMA SecAligned ==
    ASSUME IInv, PadsOK, NEW k \in Secs
    PROVE  Divides(SecAlign[k], sec_addr(k))
<1>1. /\ SecAlign[k] \in Nat \ {0} /\ OutAlign[OutSec[k]] \in Nat \ {0}
      /\ vma[OutSec[k]] \in Int /\ ooff[k] \in Int
  BY OutSecFacts DEF IInv, TypeOK
<1>2. Divides(SecAlign[k], OutAlign[OutSec[k]]) /\ Divides(OutAlign[OutSec[k]], vma[OutSec[k]])
  BY AlignAssumption, OutSecFacts DEF IInv, Loose
<1>3. Divides(SecAlign[k], vma[OutSec[k]])
  BY <1>1, <1>2, DividesTrans
<1>4. Divides(SecAlign[k], vma[OutSec[k]] + ooff[k])
  BY <1>1, <1>3, DividesAdd DEF PadsOK
<1> QED
  BY <1>4, AddrFacts DEF IInv

\* How many NOPs _bfd_riscv_relax_align keeps.
LEMMA NopLenFacts ==
    ASSUME IInv, NEW p \in Pads, live[p]
    PROVE  /\ PadTo[p] \in Nat \ {0} /\ NopLen(p) \in Nat /\ NopLen(p) < PadTo[p]
           /\ Divides(PadTo[p], Addr(p) + NopLen(p))
<1>1. PadTo[p] \in Nat \ {0} /\ PadAlign(len[p]) = PadTo[p] /\ p \in Points
  BY PointAssumption, SecOfFacts DEF IInv, MarksOK, Items
<1>2. Addr(p) \in Int
  BY <1>1, AddrFacts DEF IInv
<1>3. /\ AlignUp(Addr(p), PadTo[p]) \in Int /\ Addr(p) <= AlignUp(Addr(p), PadTo[p])
      /\ AlignUp(Addr(p), PadTo[p]) < Addr(p) + PadTo[p]
      /\ Divides(PadTo[p], AlignUp(Addr(p), PadTo[p]))
  BY <1>1, <1>2, AlignUpBounds
<1>4. NopLen(p) = AlignUp(Addr(p), PadTo[p]) - Addr(p)
  BY <1>1 DEF NopLen
<1>5. NopLen(p) \in Nat /\ NopLen(p) < PadTo[p]
  BY <1>1, <1>2, <1>3, <1>4
<1>6. Addr(p) + NopLen(p) = AlignUp(Addr(p), PadTo[p])
  BY <1>2, <1>3, <1>4
<1> QED
  BY <1>1, <1>3, <1>5, <1>6

\* Handling directive p aligns what follows it inside the section, and moves
\* no directive handled before.
LEMMA AlignHandles ==
    ASSUME IInv, PadsOK, NEW p \in Pads, RelaxAlign(p)
    PROVE  /\ Divides(PadTo[p], off'[p] + len'[p])
           /\ \A q \in Pads : ~live[q] => off'[q] = off[q] /\ len'[q] = len[q]
           /\ \A q, r \in Pads : SecOf[q] = SecOf[r] /\ off[q] <= off[r] => off'[q] <= off'[r]
<1>1. /\ live[p] /\ p \in Items /\ p \in Points /\ SecOf[p] = cur /\ cur \in Secs
      /\ NopLen(p) <= len[p] /\ DeleteTail(p, len[p] - NopLen(p)) /\ NextPad(p)
  BY SecOfFacts DEF RelaxAlign, NextPad, LivePads, Here, Items
<1>2. /\ PadTo[p] \in Nat \ {0} /\ NopLen(p) \in Nat
      /\ Divides(PadTo[p], Addr(p) + NopLen(p))
  BY <1>1, NopLenFacts
<1>3. off[p] \in Nat /\ len[p] \in Nat /\ off \in [Points -> Nat] /\ len \in [Items -> Nat]
  BY <1>1 DEF IInv, TypeOK
<1> DEFINE n == len[p] - NopLen(p)
<1>4. n \in Nat /\ n <= len[p]
  BY <1>1, <1>2, <1>3
<1>5. off'[p] = off[p] /\ len'[p] = NopLen(p)
  <2>1. off'[p] = off[p]
    BY <1>1, <1>3, <1>4 DEF DeleteTail, Moved
  <2>2. len'[p] = len[p] - n
    BY <1>1, <1>3 DEF DeleteTail
  <2> QED
    BY <1>2, <1>3, <2>1, <2>2
<1>6. Divides(PadTo[p], off[p] + NopLen(p))
  <2>1. Divides(PadTo[p], SecAlign[cur]) /\ SecAlign[cur] \in Nat \ {0} /\ sec_addr(cur) \in Int
    BY <1>1, OutSecFacts, AddrFacts DEF PadsOK, IInv
  <2>2. Divides(PadTo[p], sec_addr(cur))
    BY <1>1, <1>2, <2>1, SecAligned, DividesTrans
  <2>3. Addr(p) = sec_addr(cur) + off[p]
    BY <1>1 DEF Addr
  <2>4. Divides(PadTo[p], (Addr(p) + NopLen(p)) - sec_addr(cur))
    BY <1>2, <1>3, <2>1, <2>2, <2>3, DividesSub
  <2>5. (Addr(p) + NopLen(p)) - sec_addr(cur) = off[p] + NopLen(p)
    BY <1>2, <1>3, <2>1, <2>3
  <2> QED
    BY <2>4, <2>5
<1>7. ASSUME NEW q \in Pads, ~live[q]
      PROVE  off'[q] = off[q] /\ len'[q] = len[q]
  <2>1. q \in Items /\ q \in Points /\ q # p /\ off[q] \in Nat
    BY <1>1, <1>3, <1>7, SecOfFacts DEF Items
  <2>2. len'[q] = len[q]
    BY <1>1, <1>3, <2>1 DEF DeleteTail
  <2>3. SecOf[q] = cur => off[q] <= off[p]
    BY <1>1, <1>7 DEF PadsOK
  <2>4. ~(SecOf[q] = SecOf[p] /\ off[q] > off[p] + len[p] - n)
    BY <1>1, <1>2, <1>3, <1>4, <2>1, <2>3
  <2>5. off'[q] = off[q]
    BY <1>1, <2>1, <2>4 DEF DeleteTail, Moved
  <2> QED
    BY <2>2, <2>5
<1>8. \A q, r \in Points : SecOf[q] = SecOf[r] /\ off[q] <= off[r] => off'[q] <= off'[r]
  BY <1>1, <1>4, DeleteShrinks DEF IInv
<1>9. \A q \in Pads : q \in Points
  BY SecOfFacts DEF Items
<1> QED
  BY <1>5, <1>6, <1>7, <1>8, <1>9

\* Handled directives stay aligned inside their sections.
LEMMA PadsStep ==
    ASSUME IInv, PassOK, PadsOK, [Next]_vars
    PROVE  PadsOK'
<1>0. /\ flg0 \in [Secs -> BOOLEAN] /\ live \in [Pads -> BOOLEAN] /\ ooff \in [Secs -> Nat]
      /\ \A p \in Pads : p \in Items /\ p \in Points /\ SecOf[p] \in Secs
  BY SecOfFacts DEF IInv, TypeOK, Items
<1>1. CASE OpenOutput \/ RelaxPass0 \/ NextTrip \/ MapSegments
  <2>1. UNCHANGED <<off, len, live, flg0, ooff>>
    BY <1>1 DEF OpenOutput, RelaxPass0, NextTrip, MapSegments, code, lay
  <2> QED
    BY <2>1 DEF PadsOK
<1>2. CASE Quietly
  <2>1. UNCHANGED <<off, len, live, ooff>>
    BY <1>2, QuietStep
  <2>2. \A s \in Secs : flg0[s] => flg0'[s]
    BY <1>0, <1>2 DEF Quietly, ResolveDone, SkipRelax, RelaxPass1, AlignDone, RelaxAlignError,
                      LastTrip, vars, code
  <2> QED
    BY <1>0, <2>1, <2>2 DEF PadsOK
<1>3. CASE PlaceSection
  <2>1. /\ cur \in Secs /\ UNCHANGED <<off, len, live, flg0>>
        /\ ooff' = [ooff EXCEPT ![cur] = PlaceHere - vma[OutSec[cur]]]
    BY <1>3 DEF PlaceSection, IInv, WalkOK, code
  <2>2. Divides(SecAlign[cur], PlaceHere - vma[OutSec[cur]])
    <3>1. /\ dot \in Int /\ SecAlign[cur] \in Nat \ {0} /\ OutAlign[OutSec[cur]] \in Nat \ {0}
          /\ vma[OutSec[cur]] \in Int
      BY <2>1, OutSecFacts DEF IInv, TypeOK
    <3>2. PlaceHere \in Int /\ Divides(SecAlign[cur], PlaceHere)
      BY <3>1, AlignUpBounds DEF PlaceHere
    <3>3. Divides(OutAlign[OutSec[cur]], vma[OutSec[cur]])
      BY <2>1, OutSecFacts DEF IInv, Loose
    <3>4. Divides(SecAlign[cur], vma[OutSec[cur]])
      BY <2>1, <3>1, <3>3, AlignAssumption, DividesTrans
    <3> QED
      BY <3>1, <3>2, <3>4, DividesSub
  <2>3. \A k \in Secs : Divides(SecAlign[k], ooff'[k])
    BY <1>0, <2>1, <2>2 DEF PadsOK
  <2> QED
    BY <2>1, <2>3 DEF PadsOK
<1>4. CASE \E x \in Items : ResolveDelete(x)
  <2>1. PICK x \in Items : ResolveDelete(x)
    BY <1>4
  <2>2. /\ SecOf[x] = cur /\ UNCHANGED <<ooff, live, flg0>>
        /\ \A y \in Items : y # x => len'[y] = len[y]
        /\ \A y \in Points : SecOf[y] # cur => off'[y] = off[y]
    BY <2>1, DeletionLocal DEF ResolveDelete
  <2>3. \A p \in Pads : ~live[p] => SecOf[p] # cur
    BY <2>1 DEF ResolveDelete, PassOK, PadsOK
  <2>4. \A p \in Pads : ~live[p] => off'[p] = off[p] /\ len'[p] = len[p]
    BY <1>0, <2>2, <2>3
  <2>5. \A p, q \in Pads : ~live[p] /\ SecOf[p] = SecOf[q] => off'[q] = off[q]
    BY <1>0, <2>2, <2>3
  <2> QED
    BY <2>2, <2>4, <2>5 DEF PadsOK
<1>5. CASE \E p \in Pads : RelaxAlign(p)
  <2>1. PICK p \in Pads : RelaxAlign(p)
    BY <1>5
  <2>2. /\ UNCHANGED ooff /\ live' = [live EXCEPT ![p] = FALSE]
        /\ flg0' = [flg0 EXCEPT ![cur] = TRUE] /\ SecOf[p] = cur /\ cur \in Secs /\ live[p]
        /\ \A q \in Pads : live[q] /\ SecOf[q] = cur => off[p] <= off[q]
    BY <1>0, <2>1 DEF RelaxAlign, NextPad, LivePads, Here, lay
  <2>3. /\ Divides(PadTo[p], off'[p] + len'[p])
        /\ \A q \in Pads : ~live[q] => off'[q] = off[q] /\ len'[q] = len[q]
        /\ \A q, r \in Pads : SecOf[q] = SecOf[r] /\ off[q] <= off[r] => off'[q] <= off'[r]
    BY <2>1, AlignHandles
  <2>4. /\ flg0'[cur] /\ \A s \in Secs : flg0[s] => flg0'[s]
        /\ \A q \in Pads : ~live'[q] => q = p \/ ~live[q]
        /\ \A q \in Pads : live'[q] => live[q]
    BY <1>0, <2>2
  <2>5. \A q \in Pads : ~live'[q] => flg0'[SecOf[q]] /\ Divides(PadTo[q], off'[q] + len'[q])
    BY <1>0, <2>2, <2>3, <2>4 DEF PadsOK
  <2>6. \A q, r \in Pads : ~live'[q] /\ live'[r] /\ SecOf[q] = SecOf[r] => off'[q] <= off'[r]
    BY <2>2, <2>3, <2>4 DEF PadsOK
  <2> QED
    BY <2>2, <2>5, <2>6 DEF PadsOK
<1> QED
  BY <1>1, <1>2, <1>3, <1>4, <1>5, StepCases

\* Pass 1 leaves no directive behind.
LEMMA PadsDoneStep ==
    ASSUME IInv, PassOK, PadsDone, [Next]_vars
    PROVE  PadsDone'
<1>0. /\ flg0 \in [Secs -> BOOLEAN] /\ live \in [Pads -> BOOLEAN]
      /\ cur \in Int /\ pass \in 0 .. 2 /\ NSec \in Nat
      /\ \A p \in Pads : p \in Items /\ SecOf[p] \in Secs /\ SecOf[p] \in 1 .. NSec
  BY SecOfFacts, SectionAssumption DEF IInv, TypeOK, Items, Secs
<1> SUFFICES ASSUME NEW p \in Pads, live'[p]
             PROVE  /\ flg0'[SecOf[p]] => SecOf[p] = cur' /\ phase' \in {"align", "error"}
                    /\ pass' # 2
                    /\ pass' = 1 => cur' <= SecOf[p] /\ ~(SecOf[p] = cur' /\ phase' = "place")
  BY DEF PadsDone
<1> DEFINE s == SecOf[p]
<1>1. live[p]
  BY <1>0, QuietStep, StepCases DEF OpenOutput, PlaceSection, RelaxPass0, ResolveDelete,
     RelaxAlign, NextTrip, MapSegments, code
<1>2. /\ flg0[s] => s = cur /\ phase \in {"align", "error"}
      /\ pass # 2
      /\ pass = 1 => cur <= s /\ ~(s = cur /\ phase = "place")
      /\ s \in 1 .. NSec /\ s \in Secs
  BY <1>0, <1>1 DEF PadsDone
<1>3. CASE OpenOutput
  BY <1>2, <1>3 DEF OpenOutput, code
<1>4. CASE PlaceSection
  <2>1. phase = "place" /\ cur' = cur + 1 /\ UNCHANGED <<flg0, pass>>
    BY <1>4 DEF PlaceSection, code
  <2>2. ~flg0'[s]
    BY <1>2, <2>1
  <2>3. phase' # "place"
    BY <1>4 DEF PlaceSection
  <2> QED
    BY <1>0, <1>2, <2>1, <2>2, <2>3
<1>5. CASE RelaxPass0
  BY <1>2, <1>5 DEF RelaxPass0
<1>6. CASE \E x \in Items : ResolveDelete(x)
  BY <1>2, <1>6 DEF ResolveDelete, ctl
<1>7. CASE \E q \in Pads : RelaxAlign(q)
  <2>1. /\ phase = "align" /\ cur \in Secs /\ UNCHANGED <<phase, cur, pass>>
        /\ flg0' = [flg0 EXCEPT ![cur] = TRUE]
    BY <1>0, <1>7 DEF RelaxAlign, NextPad, LivePads, Here, ctl
  <2>2. flg0'[s] => s = cur
    BY <1>0, <1>2, <2>1
  <2> QED
    BY <1>2, <2>1, <2>2
<1>8. CASE NextTrip
  <2>1. phase = "trip" /\ cur = NSec + 1
    BY <1>8 DEF NextTrip, IInv, WalkOK
  <2>2. pass # 1
    BY <1>0, <1>2, <2>1
  <2>3. phase' = "open" /\ cur' = 1 /\ pass' # 2 /\ UNCHANGED flg0
    BY <1>0, <1>2, <1>8, <2>2 DEF NextTrip, Restart, code
  <2> QED
    BY <1>0, <1>2, <2>1, <2>3
<1>9. CASE MapSegments
  BY <1>2, <1>9 DEF MapSegments, PassOK
<1>10. CASE \E q \in Pads : RelaxAlignError(q)
  <2>1. /\ phase = "align" /\ cur \in Secs /\ UNCHANGED <<cur, pass>> /\ phase' = "error"
        /\ flg0' = [flg0 EXCEPT ![cur] = TRUE]
    BY <1>0, <1>10 DEF RelaxAlignError, NextPad, LivePads, Here
  <2>2. flg0'[s] => s = cur
    BY <1>0, <1>2, <2>1
  <2> QED
    BY <1>2, <2>1, <2>2
<1>11. CASE AlignDone
  <2>1. UNCHANGED <<flg0, cur, pass>> /\ phase' = "place" /\ LivePads = {}
    BY <1>11 DEF AlignDone, code
  <2>2. s # cur
    BY <1>0, <1>1, <2>1 DEF LivePads, Here
  <2> QED
    BY <1>2, <2>1, <2>2
<1>12. CASE ResolveDone
  BY <1>2, <1>12 DEF ResolveDone, PassOK, code
<1>13. CASE SkipRelax
  BY <1>2, <1>13 DEF SkipRelax, code
<1>14. CASE RelaxPass1 \/ LastTrip \/ UNCHANGED vars
  BY <1>0, <1>2, <1>14 DEF RelaxPass1, LastTrip, vars, code, ctl
<1> QED
  BY <1>3, <1>4, <1>5, <1>6, <1>7, <1>8, <1>9, <1>10, <1>11, <1>12, <1>13, <1>14, StepCases
     DEF Quietly

\* What the layout facts give once the link is done.
LEMMA DoneAligned ==
    ASSUME IInv, PassOK, PadsOK, PadsDone
    PROVE  PadsAligned
<1> SUFFICES ASSUME phase = "done", NEW p \in Pads
             PROVE  Divides(PadTo[p], Addr(p) + len[p])
  BY DEF PadsAligned
<1> DEFINE s == SecOf[p]
<1>1. p \in Items /\ p \in Points /\ s \in Secs /\ PadTo[p] \in Nat \ {0}
  BY SecOfFacts, PointAssumption DEF Items
<1>2. off[p] \in Nat /\ len[p] \in Nat /\ sec_addr(s) \in Int /\ SecAlign[s] \in Nat \ {0}
  BY <1>1, AddrFacts, OutSecFacts DEF IInv, TypeOK
<1>3. ~live[p]
  BY DEF PassOK, PadsDone
<1>4. Divides(PadTo[p], off[p] + len[p]) /\ Divides(PadTo[p], SecAlign[s])
  BY <1>3 DEF PadsOK
<1>5. Divides(PadTo[p], sec_addr(s))
  BY <1>1, <1>2, <1>4, SecAligned, DividesTrans
<1>6. Divides(PadTo[p], sec_addr(s) + (off[p] + len[p]))
  <2> DEFINE e == off[p] + len[p]
  <2>1. e \in Int /\ Divides(PadTo[p], e)
    BY <1>2, <1>4
  <2> HIDE DEF e
  <2>2. Divides(PadTo[p], sec_addr(s) + e)
    BY <1>1, <1>2, <1>5, <2>1, DividesAdd
  <2> QED
    BY <2>2 DEF e
<1>7. Addr(p) + len[p] = sec_addr(s) + (off[p] + len[p])
  BY <1>2 DEF Addr
<1> QED
  BY <1>6, <1>7

\* The object files start with every section placed and no directive handled.
LEMMA InitMore ==
    ASSUME Init
    PROVE  PassOK /\ PadsOK /\ PadsDone /\ PrefixLaid /\ \A k \in Secs : Placed(k)
<1>1. PICK o \in Objects :
         /\ off = o.off /\ size = o.size /\ vma = o.vma /\ ooff = o.ooff
         /\ live = [p \in Pads |-> TRUE] /\ flg0 = [s \in Secs |-> FALSE]
         /\ pass = 0 /\ round = 1 /\ phase = "open" /\ cur = 1 /\ again = FALSE
  BY DEF Init
<1>2. WellFormed(o) /\ PadsFit(o)
  BY ObjectAssumption
<1>3. IInv
  BY InitIInv
<1>4. \A k \in Secs : Placed(k)
  <2>1. TAKE k \in Secs
  <2>2. Laid(o.vma, o.ooff, o.size, Starts[1])
    BY <1>2 DEF WellFormed
  <2>3. Before(k) = IF k = 1 THEN Starts[1] ELSE o.vma[OutSec[k - 1]] + o.ooff[k - 1] + o.size[k - 1]
    BY <1>1, SectionAssumption DEF Before, sec_addr, Secs
  <2>4. sec_addr(k) = o.vma[OutSec[k]] + o.ooff[k]
    BY <1>1 DEF sec_addr, Secs
  <2> QED
    BY <1>1, <2>2, <2>3, <2>4 DEF Laid, Placed
<1>5. PassOK /\ PadsDone /\ PrefixLaid
  <2>1. \A p \in Pads : SecOf[p] \in Secs
    BY SecOfFacts DEF Items
  <2>2. PassOK
    BY <1>1 DEF PassOK
  <2>3. PadsDone
    BY <1>1, <2>1 DEF PadsDone
  <2> QED
    BY <1>4, <2>2, <2>3 DEF PrefixLaid
<1>6. \A k \in Secs : Divides(SecAlign[k], ooff[k])
  <2>1. TAKE k \in Secs
  <2>2. /\ SecAlign[k] \in Nat \ {0} /\ OutAlign[OutSec[k]] \in Nat \ {0}
        /\ vma[OutSec[k]] \in Nat /\ ooff[k] \in Nat /\ sec_addr(k) = vma[OutSec[k]] + ooff[k]
        /\ Before(k) \in Int
    BY <1>3, OutSecFacts, AddrFacts DEF IInv, TypeOK
  <2>3. Divides(SecAlign[k], sec_addr(k))
    <3>1. sec_addr(k) = AlignUp(OpenAt(k, Before(k)), SecAlign[k])
      BY <1>4 DEF Placed, PlaceAt
    <3>2. OpenAt(k, Before(k)) \in Int
      BY <2>2, PlaceBounds
    <3> QED
      BY <2>2, <3>1, <3>2, AlignUpBounds
  <2>4. Divides(OutAlign[OutSec[k]], vma[OutSec[k]]) /\ Divides(SecAlign[k], OutAlign[OutSec[k]])
    BY <1>3, OutSecFacts, AlignAssumption DEF IInv, Loose
  <2>5. Divides(SecAlign[k], vma[OutSec[k]])
    BY <2>2, <2>4, DividesTrans
  <2>6. Divides(SecAlign[k], sec_addr(k) - vma[OutSec[k]])
    BY <2>2, <2>3, <2>5, DividesSub
  <2>7. sec_addr(k) - vma[OutSec[k]] = ooff[k]
    BY <2>2
  <2> QED
    BY <2>6, <2>7
<1>7. PadsOK
  BY <1>1, <1>2, <1>6 DEF PadsOK, PadsFit
<1> QED
  BY <1>4, <1>5, <1>7

\* In the finished link every input section lies where a plain sizing of the
\* relaxed sections would put it: no trip leaves an address of an earlier one.
THEOREM LayoutIsFinal ==
    ASSUME HeadersShrink
    PROVE  Spec => []FinalLayout
<1>1. Init => IInv /\ PrefixLaid
  BY InitIInv, InitMore
<1>2. IInv /\ PrefixLaid /\ [Next]_vars => (IInv /\ PrefixLaid)'
  BY NextIInv, PrefixStep
<1>3. IInv /\ PrefixLaid => FinalLayout
  <2> SUFFICES ASSUME IInv, PrefixLaid, phase = "done"
               PROVE  Laid(vma, ooff, size, Starts[round])
    BY DEF FinalLayout
  <2>1. cur = NSec + 1
    BY DEF IInv, WalkOK
  <2>2. \A k \in Secs : Placed(k)
    BY <2>1, SectionAssumption DEF PrefixLaid, Secs
  <2>3. ASSUME NEW k \in Secs
        PROVE  /\ Before(k) = IF k = 1 THEN Starts[round]
                              ELSE vma[OutSec[k - 1]] + ooff[k - 1] + size[k - 1]
               /\ sec_addr(k) = vma[OutSec[k]] + ooff[k]
    BY <2>3, SectionAssumption DEF Before, sec_addr, Secs
  <2> QED
    BY <2>2, <2>3 DEF Laid, Placed
<1> QED
  BY <1>1, <1>2, <1>3, PTL DEF Spec

\* In the finished link what follows every alignment directive is aligned,
\* whatever moved after _bfd_riscv_relax_align measured it.
THEOREM DirectivesAligned ==
    ASSUME HeadersShrink
    PROVE  Spec => []PadsAligned
<1> DEFINE Inv == IInv /\ PassOK /\ PadsOK /\ PadsDone
<1>1. Init => Inv
  BY InitIInv, InitMore
<1>2. Inv /\ [Next]_vars => Inv'
  BY NextIInv, PassStep, PadsStep, PadsDoneStep
<1>3. Inv => PadsAligned
  BY DoneAligned
<1> QED
  BY <1>1, <1>2, <1>3, PTL DEF Spec

-----------------------------------------------------------------------------
(* The end of pass 0 *)

\* What relax_call decides about a call depends on the addresses alone.
LEMMA ShortFormKept ==
    ASSUME UNCHANGED <<off, vma, ooff>>, NEW c \in Calls
    PROVE  ShortForm(c)' = ShortForm(c)
<1>1. Foff(c)' = Foff(c) /\ near_zero(c)' = near_zero(c)
  BY DEF Foff, near_zero, Addr, sec_addr
<1>2. PaddedFoff(c)' = PaddedFoff(c)
  BY <1>1 DEF PaddedFoff, Widen, Margin, ValidJ
<1>3. UseRvc(c)' = UseRvc(c)
  BY <1>2 DEF UseRvc, ValidCJ
<1> QED
  BY <1>1, <1>2, <1>3 DEF ShortForm, ValidJ

\* A trip that starts from a finished layout and has changed nothing keeps
\* it, and the calls it has passed would be decided the same way again.
LEMMA QuietTrip ==
    ASSUME HeadersFixed, IInv, PassOK, PrefixLaid, Quiet, [Next]_vars
    PROVE  Quiet'
<1>0. /\ cur \in Int /\ NSec \in Nat /\ pass \in 0 .. 2 /\ again \in BOOLEAN
      /\ flg0 \in [Secs -> BOOLEAN] /\ NoRelax \in BOOLEAN
      /\ \A c \in Calls : c \in Items /\ SecOf[c] \in Secs
      /\ \A k \in Secs : k \in 1 .. NSec
  BY SecOfFacts, SectionAssumption, RoundAssumption DEF IInv, TypeOK, Items, Secs
<1>1. ASSUME UNCHANGED <<off, len, form, mark, size, vma, ooff, flg0, round>>
      PROVE  /\ \A c \in Calls : Unshortened(c)' <=> Unshortened(c)
             /\ \A k \in Secs : Placed(k)' <=> Placed(k)
  <2>1. \A c \in Calls : Unshortened(c)' <=> Unshortened(c)
    BY <1>1, ShortFormKept DEF Unshortened
  <2>2. \A k \in Secs : Placed(k)' <=> Placed(k)
    BY <1>1 DEF Placed, sec_addr, Before, PlaceAt, OpenAt, First
  <2> QED
    BY <2>1, <2>2
<1>2. CASE OpenOutput
  <2>1. /\ phase = "open" /\ phase' = "relax" /\ cur \in Secs /\ First(cur) /\ dot = Before(cur)
        /\ vma' = [vma EXCEPT ![OutSec[cur]] = OpenAt(cur, dot)]
        /\ UNCHANGED <<off, len, form, mark, size, ooff, flg0, round, pass, cur, again>>
    BY <1>2 DEF OpenOutput, IInv, WalkOK, code
  <2>2. CASE pass = 0 /\ ~again
    <3>1. vma[OutSec[cur]] = OpenAt(cur, dot)
      BY <2>1, <2>2 DEF Quiet, Placed
    <3>2. vma' = vma
      BY <2>1, <3>1, OutSecFacts DEF IInv, TypeOK
    <3> QED
      BY <1>1, <2>1, <2>2, <3>2 DEF Quiet
  <2>3. CASE ~(pass = 0 /\ ~again)
    BY <2>1, <2>3 DEF Quiet
  <2> QED
    BY <2>2, <2>3
<1>3. CASE PlaceSection
  <2>1. /\ phase = "place" /\ phase' # "place" /\ phase' # "resolve" /\ cur \in Secs
        /\ cur' = cur + 1 /\ dot = OpenAt(cur, Before(cur))
        /\ ooff' = [ooff EXCEPT ![cur] = PlaceHere - vma[OutSec[cur]]]
        /\ UNCHANGED <<off, len, form, mark, size, vma, flg0, round, pass, again>>
    BY <1>3 DEF PlaceSection, IInv, WalkOK, code
  <2>2. CASE pass = 0 /\ ~again
    <3>1. PlaceHere = sec_addr(cur)
      BY <2>1, <2>2 DEF Quiet, Placed, PlaceHere, PlaceAt
    <3>2. /\ sec_addr(cur) = vma[OutSec[cur]] + ooff[cur]
          /\ vma[OutSec[cur]] \in Int /\ ooff[cur] \in Int /\ ooff \in [Secs -> Nat]
      BY <2>1, AddrFacts, OutSecFacts DEF IInv, TypeOK
    <3>3. PlaceHere - vma[OutSec[cur]] = ooff[cur]
      BY <3>1, <3>2
    <3>4. ooff' = ooff
      BY <2>1, <3>2, <3>3
    <3>5. ASSUME NEW c \in Calls, SecOf[c] < cur'
          PROVE  SecOf[c] < cur \/ SecOf[c] = cur
      <4>1. SecOf[c] < cur + 1
        BY <2>1, <3>5
      <4>2. SecOf[c] \in Int /\ cur \in Int
        BY <1>0
      <4> QED
        BY <4>1, <4>2
    <3>6. ~(pass' = 1)
      BY <2>1, <2>2
    <3> QED
      BY <1>1, <2>1, <2>2, <3>4, <3>5, <3>6 DEF Quiet
  <2>3. CASE ~(pass = 0 /\ ~again)
    <3>1. cur' # 1
      BY <1>0, <2>1
    <3> QED
      BY <2>1, <2>3, <3>1 DEF Quiet
  <2> QED
    BY <2>2, <2>3
<1>4. CASE RelaxPass0
  <2>1. /\ phase = "relax" /\ phase' = "resolve" /\ pass = 0 /\ Relaxable
        /\ UNCHANGED <<off, len, size, vma, ooff, flg0, round, pass, cur>>
        /\ form' = [c \in Calls |-> IF c \in Shortened THEN ShortForm(c) ELSE form[c]]
    BY <1>4 DEF RelaxPass0, lay
  <2>2. PICK cut \in [His \cap Here -> {0, 1, HiLen}] :
          /\ mark' = [x \in Items |->
                        IF x \in Shortened THEN CallLen - FormLen(ShortForm(x))
                        ELSE IF x \in His \cap Here THEN cut[x] ELSE 0]
          /\ again' = (again \/ Shortened # {} \/ \E h \in His \cap Here : cut[h] # 0)
    BY <1>4 DEF RelaxPass0, AskAgain
  <2>3. CASE again'
    BY <2>1, <2>3 DEF Quiet
  <2>4. CASE ~again'
    <3>1. ~again /\ Shortened = {} /\ \A h \in His \cap Here : cut[h] = 0
      BY <2>2, <2>4
    <3>2. \A x \in Items : mark'[x] = 0
      BY <2>2, <3>1
    <3>3. form' = form
      BY <2>1, <3>1 DEF IInv, TypeOK
    <3>4. \A c \in Calls : Unshortened(c)' <=> Unshortened(c)
      BY <2>1, <3>3, ShortFormKept DEF Unshortened
    <3>5. \A k \in Secs : Placed(k)'
      <4>1. \A k \in Secs : Placed(k)
        BY <2>1, <3>1 DEF Quiet
      <4> QED
        BY <2>1, <4>1 DEF Placed, sec_addr, Before, PlaceAt, OpenAt, First
    <3>6. \A c \in Calls : SecOf[c] = cur => Unshortened(c)
      <4>1. \A c \in Calls : SecOf[c] = cur => c \in Here
        BY <1>0 DEF Here
      <4> QED
        BY <3>1, <4>1 DEF Unshortened, Shortened
    <3> QED
      BY <2>1, <3>1, <3>2, <3>4, <3>5, <3>6 DEF Quiet
  <2> QED
    BY <2>3, <2>4
<1>5. CASE \E x \in Items : ResolveDelete(x)
  <2>1. PICK x \in Items : ResolveDelete(x)
    BY <1>5
  <2>2. phase = "resolve" /\ mark[x] > 0 /\ pass = 0 /\ UNCHANGED <<pass, phase, again>>
    BY <2>1 DEF ResolveDelete, PassOK, ctl
  <2>3. again
    BY <2>2 DEF Quiet
  <2> QED
    BY <2>2, <2>3 DEF Quiet
<1>6. CASE \E p \in Pads : RelaxAlign(p)
  <2>1. phase = "align" /\ pass = 1 /\ UNCHANGED <<pass, phase, again>>
    BY <1>6 DEF RelaxAlign, PassOK, ctl
  <2> QED
    BY <2>1 DEF Quiet
<1>7. ASSUME phase \in {"trip", "done"}
      PROVE  \A k \in Secs : Placed(k) /\ k < cur
  BY <1>0, <1>7 DEF IInv, WalkOK, PrefixLaid
<1>8. CASE NextTrip
  <2>1. /\ phase = "trip" /\ pass' = IF again THEN pass ELSE pass + 1
        /\ phase' = "open" /\ cur' = 1 /\ again' = FALSE
        /\ UNCHANGED <<off, len, form, mark, size, vma, ooff, flg0, round>>
    BY <1>8 DEF NextTrip, Restart, code, lay
  <2>2. \A x \in Items : mark[x] = 0
    BY <2>1 DEF IInv, MarksOK, TypeOK
  <2>3. \A k \in Secs : Placed(k)'
    BY <1>1, <1>7, <2>1
  <2>4. \A c \in Calls : ~(SecOf[c] < cur' \/ (SecOf[c] = cur' /\ phase' \in {"resolve", "place"}))
    BY <1>0, <2>1
  <2>5. CASE pass' = 1
    <3>1. pass = 0 /\ ~again
      BY <1>0, <2>1, <2>5 DEF PassOK
    <3>2. \A c \in Calls : SecOf[c] < cur
      BY <1>0, <1>7, <2>1
    <3>3. ~NoRelax => \A c \in Calls : Unshortened(c)'
      BY <1>1, <2>1, <3>1, <3>2 DEF Quiet
    <3> QED
      BY <2>5, <3>3 DEF Quiet
  <2>6. CASE pass' # 1
    BY <2>1, <2>2, <2>3, <2>4, <2>6 DEF Quiet
  <2> QED
    BY <2>5, <2>6
<1>9. CASE MapSegments
  <2>1. /\ phase = "done" /\ pass' = 0 /\ phase' = "open" /\ cur' = 1
        /\ round \in 1 .. Rounds - 1 /\ round' = round + 1
        /\ UNCHANGED <<off, len, form, mark, size, vma, ooff, flg0>>
    BY <1>9, RoundAssumption DEF MapSegments, Restart, code, lay, IInv, TypeOK
  <2>2. \A x \in Items : mark[x] = 0
    BY <2>1 DEF IInv, MarksOK, TypeOK
  <2>3. Starts[round'] = Starts[round]
    BY <2>1 DEF HeadersFixed
  <2>4. \A k \in Secs : Placed(k)'
    <3>1. \A k \in Secs : Before(k)' = Before(k)
      BY <2>1, <2>3 DEF Before, sec_addr
    <3>2. \A k \in Secs : Placed(k)
      BY <1>7, <2>1
    <3> QED
      BY <2>1, <3>1, <3>2 DEF Placed, sec_addr, PlaceAt, OpenAt, First
  <2>5. \A c \in Calls : ~(SecOf[c] < cur' \/ (SecOf[c] = cur' /\ phase' \in {"resolve", "place"}))
    BY <1>0, <2>1
  <2> QED
    BY <2>1, <2>2, <2>4, <2>5 DEF Quiet
<1>10. CASE Quietly
  <2>1. UNCHANGED <<off, len, form, mark, size, vma, ooff, pass, round, cur, again>>
    BY <1>10, QuietStep
  <2>2. CASE ~UNCHANGED flg0
    <3>1. phase' = "error" /\ pass = 1
      BY <1>10, <2>2 DEF Quietly, ResolveDone, SkipRelax, RelaxPass1, AlignDone, RelaxAlignError,
                         LastTrip, vars, code, PassOK
    <3> QED
      BY <2>1, <3>1 DEF Quiet
  <2>3. CASE UNCHANGED flg0
    <3>1. phase' = "open" => phase = "open"
      BY <1>10 DEF Quietly, ResolveDone, SkipRelax, RelaxPass1, AlignDone, RelaxAlignError,
                   LastTrip, vars, ctl
    <3>2. phase' = "place" /\ pass = 0 /\ ~NoRelax =>
            phase \in {"place", "resolve"} \/ flg0[cur] \/ phase = "align"
      BY <1>10 DEF Quietly, ResolveDone, SkipRelax, RelaxPass1, AlignDone, RelaxAlignError,
                   LastTrip, vars, ctl
    <3>3. phase = "align" => pass = 1
      BY DEF PassOK
    <3>4. phase' = "resolve" => phase = "resolve"
      BY <1>10 DEF Quietly, ResolveDone, SkipRelax, RelaxPass1, AlignDone, RelaxAlignError,
                   LastTrip, vars, ctl
    <3>5. \A c \in Calls : SecOf[c] = cur /\ flg0[cur] => Unshortened(c)
      BY DEF Unshortened
    <3> QED
      BY <1>1, <2>1, <2>3, <3>1, <3>2, <3>3, <3>4, <3>5 DEF Quiet
  <2> QED
    BY <2>2, <2>3
<1> QED
  BY <1>2, <1>3, <1>4, <1>5, <1>6, <1>8, <1>9, <1>10, StepCases

\* Pass 0 ends at a fixpoint: in the layout in which pass 1 begins, relax_call
\* would shorten no further call.  (When the headers change size between two
\* rounds, a trip may start from a layout that is not finished, and the fixpoint is
\* only reached if something is shortened in it.)
THEOREM Pass0Fixpoint ==
    ASSUME HeadersFixed
    PROVE  Spec => []NothingLeftToShorten
<1> DEFINE Inv == IInv /\ PassOK /\ PrefixLaid /\ Quiet
<1>1. HeadersShrink
  <2>1. \A r \in 1 .. Rounds - 1 : r \in 1 .. Rounds
    BY RoundAssumption
  <2> QED
    BY <2>1, RoundAssumption DEF HeadersFixed, HeadersShrink
<1>2. Init => Inv
  <2> SUFFICES ASSUME Init PROVE Quiet
    BY InitIInv, InitMore
  <2>1. pass = 0 /\ cur = 1 /\ phase = "open" /\ \A x \in Items : mark[x] = 0
    BY DEF Init
  <2>2. \A c \in Calls : SecOf[c] \in Secs
    BY SecOfFacts DEF Items
  <2>3. \A c \in Calls : ~(SecOf[c] < cur)
    BY <2>1, <2>2, SectionAssumption DEF Secs
  <2> QED
    BY <2>1, <2>3, InitMore DEF Quiet
<1>3. Inv /\ [Next]_vars => Inv'
  BY <1>1, NextIInv, PassStep, PrefixStep, QuietTrip
<1>4. Inv => NothingLeftToShorten
  BY DEF Quiet, Unshortened, NothingLeftToShorten
<1> QED
  BY <1>2, <1>3, <1>4, PTL DEF Spec

-----------------------------------------------------------------------------
(* Objects without compressed instructions *)

\* Even numbers: closed under sum and difference, two apart.
LEMMA EvenFacts ==
    /\ Even(0) /\ Even(2) /\ Even(4)
    /\ \A a, b \in Int : Even(a) /\ Even(b) => Even(a + b) /\ Even(a - b)
    /\ \A a, b \in Int : Even(a) /\ Even(b) /\ a < b => a <= b - 2
<1>1. Even(0) /\ Even(2) /\ Even(4)
  BY DEF Even, Divides
<1>2. ASSUME NEW a \in Int, NEW b \in Int, Even(a), Even(b)
      PROVE  Even(a + b) /\ Even(a - b)
  BY <1>2, DividesAdd, DividesSub DEF Even
<1>3. ASSUME NEW a \in Int, NEW b \in Int, Even(a), Even(b), a < b
      PROVE  a <= b - 2
  <2>1. PICK m \in Int : a = m * 2
    BY <1>3, DividesWitness DEF Even
  <2>2. PICK n \in Int : b = n * 2
    BY <1>3, DividesWitness DEF Even
  <2> QED
    BY <1>3, <2>1, <2>2
<1> QED
  BY <1>1, <1>2, <1>3

\* A pad of such an object needs an even number of parcels.
LEMMA NopLenEven ==
    ASSUME IInv, PadsOK, FourByteKept, NEW p \in Pads, live[p], ~Rvc[SecOf[p]]
    PROVE  Even(NopLen(p)) /\ Even(PadTo[p]) /\ Even(len[p]) /\ len[p] >= PadTo[p] - 2
<1> DEFINE s == SecOf[p]
<1>1. p \in Items /\ p \in Points /\ s \in Secs
  BY SecOfFacts DEF Items
<1>2. /\ Even(SecAlign[s]) /\ Even(off[p]) /\ Even(len[p]) /\ Even(PadTo[p])
      /\ len[p] >= PadTo[p] - 2
  BY <1>1 DEF FourByteKept
<1>3. /\ PadTo[p] \in Nat \ {0} /\ NopLen(p) \in Nat
      /\ Divides(PadTo[p], Addr(p) + NopLen(p))
  BY NopLenFacts
<1>4. off[p] \in Int /\ sec_addr(s) \in Int /\ SecAlign[s] \in Nat \ {0} /\ Addr(p) \in Int
      /\ Addr(p) = sec_addr(s) + off[p]
  BY <1>1, AddrFacts, OutSecFacts DEF IInv, TypeOK, Addr
<1>5. Even(sec_addr(s))
  BY <1>1, <1>2, <1>4, SecAligned, DividesTrans DEF Even
<1>6. Even(Addr(p))
  BY <1>2, <1>4, <1>5, EvenFacts
<1>7. Even(Addr(p) + NopLen(p)) /\ Addr(p) + NopLen(p) \in Int
  BY <1>2, <1>3, <1>4, DividesTrans DEF Even
<1>8. Even((Addr(p) + NopLen(p)) - Addr(p))
  BY <1>4, <1>6, <1>7, EvenFacts
<1>9. (Addr(p) + NopLen(p)) - Addr(p) = NopLen(p)
  BY <1>3, <1>4
<1> QED
  BY <1>2, <1>8, <1>9

\* Deleting an even number of parcels keeps the offsets of its section even.
LEMMA DeleteEven ==
    ASSUME IInv, NEW x \in Items, NEW n \in Nat, n <= len[x], DeleteTail(x, n),
           ~Rvc[SecOf[x]] => Even(n),
           \A y \in Items : ~Rvc[SecOf[y]] => Even(off[y]) /\ Even(len[y])
    PROVE  \A y \in Items : ~Rvc[SecOf[y]] => Even(off'[y]) /\ Even(len'[y])
<1> SUFFICES ASSUME NEW y \in Items, ~Rvc[SecOf[y]]
             PROVE  Even(off'[y]) /\ Even(len'[y])
  OBVIOUS
<1>1. /\ y \in Points /\ x \in Points /\ off \in [Points -> Nat] /\ len \in [Items -> Nat]
  BY SecOfFacts DEF IInv, TypeOK
<1>2. off'[y] = off[y] \/ (off'[y] = off[y] - n /\ SecOf[y] = SecOf[x])
  BY <1>1 DEF DeleteTail, Moved
<1>3. len'[y] = len[y] \/ (len'[y] = len[y] - n /\ y = x)
  BY <1>1 DEF DeleteTail
<1>4. off[y] \in Int /\ len[y] \in Int /\ Even(off[y]) /\ Even(len[y])
  BY <1>1
<1>5. SecOf[y] = SecOf[x] => Even(off[y] - n) /\ Even(len[y] - n)
  <2>1. SecOf[y] = SecOf[x] => Even(n)
    OBVIOUS
  <2>2. n \in Int
    OBVIOUS
  <2> QED
    BY <1>4, <2>1, <2>2, EvenFacts
<1> QED
  BY <1>2, <1>3, <1>4, <1>5

\* Relaxation deletes whole 4-byte instructions of such an object.
LEMMA FourByteStep ==
    ASSUME IInv, PadsOK, FourByteKept, [Next]_vars
    PROVE  FourByteKept'
<1>0. /\ mark \in [Items -> Nat] /\ len \in [Items -> Nat] /\ live \in [Pads -> BOOLEAN]
      /\ \A p \in Pads : p \in Items
      /\ \A x \in Items : ~Rvc[SecOf[x]] => Even(off[x]) /\ Even(len[x])
  BY DEF IInv, TypeOK, Items, FourByteKept
<1>1. CASE OpenOutput \/ PlaceSection \/ NextTrip \/ MapSegments \/ Quietly
  <2>1. UNCHANGED <<off, len, mark, live>>
    BY <1>1, QuietStep DEF OpenOutput, PlaceSection, NextTrip, MapSegments, code
  <2> QED
    BY <2>1 DEF FourByteKept
<1>2. CASE RelaxPass0
  <2>1. UNCHANGED <<off, len, live>>
    BY <1>2 DEF RelaxPass0
  <2>2. PICK cut \in [His \cap Here -> {0, 1, HiLen}] :
          /\ \A h \in His \cap Here : cut[h] = 1 => Rvc[cur]
          /\ mark' = [x \in Items |->
                        IF x \in Shortened THEN CallLen - FormLen(ShortForm(x))
                        ELSE IF x \in His \cap Here THEN cut[x] ELSE 0]
    BY <1>2 DEF RelaxPass0
  <2>3. ASSUME NEW x \in Items, ~Rvc[SecOf[x]]
        PROVE  Even(mark'[x])
    <3>1. CASE x \in Shortened
      <4>1. x \in Calls /\ ShortForm(x) # "call" /\ ~UseRvc(x)
        BY <2>3, <3>1 DEF Shortened, UseRvc
      <4>2. ShortForm(x) \in {"jal", "lo12"}
        BY <4>1 DEF ShortForm
      <4>3. FormLen(ShortForm(x)) = 2
        BY <4>2 DEF FormLen
      <4>4. mark'[x] = 2
        BY <2>2, <3>1, <4>3 DEF CallLen
      <4> QED
        BY <4>4, EvenFacts
    <3>2. CASE x \notin Shortened /\ x \in His \cap Here
      <4>1. SecOf[x] = cur
        BY <3>2 DEF Here
      <4>2. mark'[x] = cut[x] /\ cut[x] \in {0, 2}
        BY <2>2, <2>3, <3>2, <4>1 DEF HiLen
      <4> QED
        BY <4>2, EvenFacts
    <3>3. CASE x \notin Shortened /\ x \notin His \cap Here
      <4>1. mark'[x] = 0
        BY <2>2, <3>3
      <4> QED
        BY <4>1, EvenFacts
    <3> QED
      BY <3>1, <3>2, <3>3
  <2> QED
    BY <2>1, <2>3 DEF FourByteKept
<1>3. CASE \E x \in Items : ResolveDelete(x)
  <2>1. PICK x \in Items : ResolveDelete(x)
    BY <1>3
  <2>2. /\ mark[x] \in Nat /\ mark[x] > 0 /\ mark[x] <= len[x] /\ x \notin Pads
        /\ DeleteTail(x, mark[x]) /\ UNCHANGED live /\ mark' = [mark EXCEPT ![x] = 0]
    BY <1>0, <2>1 DEF ResolveDelete, ClearMark, IInv, MarksOK
  <2>3. ~Rvc[SecOf[x]] => Even(mark[x])
    BY DEF FourByteKept
  <2>4. \A y \in Items : ~Rvc[SecOf[y]] => Even(off'[y]) /\ Even(len'[y])
    BY <1>0, <2>2, <2>3, DeleteEven
  <2>5. \A y \in Items : mark'[y] = 0 \/ mark'[y] = mark[y]
    BY <1>0, <2>2
  <2>6. \A p \in Pads : len'[p] = len[p]
    BY <1>0, <2>2 DEF DeleteTail
  <2> QED
    BY <1>0, <2>2, <2>4, <2>5, <2>6, EvenFacts DEF FourByteKept
<1>4. CASE \E p \in Pads : RelaxAlign(p)
  <2>1. PICK p \in Pads : RelaxAlign(p)
    BY <1>4
  <2>2. /\ live[p] /\ p \in Items /\ NopLen(p) <= len[p] /\ DeleteTail(p, len[p] - NopLen(p))
        /\ live' = [live EXCEPT ![p] = FALSE] /\ UNCHANGED mark
    BY <1>0, <2>1 DEF RelaxAlign, NextPad, LivePads
  <2>3. NopLen(p) \in Nat /\ len[p] \in Nat
    BY <1>0, <2>2, NopLenFacts
  <2>4. ~Rvc[SecOf[p]] => Even(len[p] - NopLen(p))
    <3>1. ~Rvc[SecOf[p]] => Even(len[p]) /\ Even(NopLen(p))
      BY <2>2, NopLenEven
    <3>2. len[p] \in Int /\ NopLen(p) \in Int
      BY <2>3
    <3> QED
      BY <3>1, <3>2, EvenFacts
  <2>5. \A y \in Items : ~Rvc[SecOf[y]] => Even(off'[y]) /\ Even(len'[y])
    <3> DEFINE n == len[p] - NopLen(p)
    <3>1. n \in Nat /\ n <= len[p] /\ DeleteTail(p, n) /\ (~Rvc[SecOf[p]] => Even(n))
      BY <2>2, <2>3, <2>4
    <3> HIDE DEF n
    <3> QED
      BY <1>0, <2>2, <3>1, DeleteEven
  <2>6. \A q \in Pads : live'[q] => live[q] /\ len'[q] = len[q]
    BY <1>0, <2>2 DEF DeleteTail
  <2> QED
    BY <1>0, <2>2, <2>5, <2>6 DEF FourByteKept
<1> QED
  BY <1>1, <1>2, <1>3, <1>4, StepCases

\* Where objects without compressed instructions are assembled as gas does it,
\* a link stops for want of NOPs only at a directive of an RVC object that
\* was assembled with 4-byte NOPs.
THEOREM ErrorOnlyIfMixed ==
    ASSUME HeadersShrink, FourByteObjects
    PROVE  Spec => []AlignErrorOnlyIfMixed
<1> DEFINE Inv == IInv /\ PassOK /\ PadsOK /\ FourByteKept /\ AlignErrorOnlyIfMixed
<1>1. Init => Inv
  <2> SUFFICES ASSUME Init PROVE FourByteKept /\ AlignErrorOnlyIfMixed
    BY InitIInv, InitMore
  <2>1. PICK o \in Objects :
           /\ off = o.off /\ len = [x \in Items |-> ItemLen(o, x)] /\ mark = [x \in Items |-> 0]
           /\ phase = "open"
    BY DEF Init
  <2>2. ASSUME NEW x \in Items, ~Rvc[SecOf[x]]
        PROVE  /\ Even(SecAlign[SecOf[x]]) /\ Even(off[x]) /\ Even(len[x]) /\ Even(mark[x])
               /\ x \in Pads => Even(PadTo[x]) /\ len[x] >= PadTo[x] - 2
    <3>1. FourByteObject(o, SecOf[x])
      BY <2>2, SecOfFacts DEF FourByteObjects
    <3>2. x \notin Pads => len[x] \in {2, 4}
      BY <2>1 DEF ItemLen, Items, CallLen, HiLen
    <3>3. x \in Pads => len[x] = o.pad[x]
      BY <2>1, PointAssumption DEF ItemLen
    <3>4. mark[x] = 0
      BY <2>1
    <3> QED
      BY <2>1, <3>1, <3>2, <3>3, <3>4, EvenFacts DEF FourByteObject
  <2> QED
    BY <2>1, <2>2 DEF FourByteKept, AlignErrorOnlyIfMixed
<1>2. Inv /\ [Next]_vars => Inv'
  <2> SUFFICES ASSUME Inv, [Next]_vars PROVE AlignErrorOnlyIfMixed'
    BY NextIInv, PassStep, PadsStep, FourByteStep
  <2>1. CASE \E p \in Pads : RelaxAlignError(p)
    <3>1. PICK p \in Pads : RelaxAlignError(p)
      BY <2>1
    <3>2. p \in LivePads /\ live[p] /\ SecOf[p] = cur /\ NopLen(p) > len[p]
          /\ UNCHANGED <<len, live, cur>>
      BY <3>1 DEF RelaxAlignError, NextPad, LivePads, Here
    <3>3. NopLen(p) \in Nat /\ NopLen(p) < PadTo[p] /\ PadTo[p] \in Nat /\ len[p] \in Nat
      BY <3>2, NopLenFacts DEF IInv, TypeOK, Items
    <3>4. Rvc[cur]
      <4> SUFFICES ASSUME ~Rvc[cur] PROVE FALSE
        OBVIOUS
      <4>1. Even(NopLen(p)) /\ Even(PadTo[p]) /\ len[p] >= PadTo[p] - 2
        BY <3>2, NopLenEven
      <4>2. NopLen(p) <= PadTo[p] - 2
        <5>1. NopLen(p) \in Int /\ PadTo[p] \in Int /\ NopLen(p) < PadTo[p]
          BY <3>3
        <5> QED
          BY <4>1, <5>1, EvenFacts
      <4> QED
        BY <3>2, <3>3, <4>1, <4>2
    <3>5. len[p] < PadTo[p] - 1
      BY <3>2, <3>3
    <3>6. p \in LivePads'
      BY <3>2 DEF LivePads, Here
    <3> QED
      BY <3>2, <3>4, <3>5, <3>6 DEF AlignErrorOnlyIfMixed
  <2>2. CASE UNCHANGED vars
    BY <2>2 DEF AlignErrorOnlyIfMixed, LivePads, Here, vars, code, ctl
  <2>3. CASE phase' # "error"
    BY <2>3 DEF AlignErrorOnlyIfMixed
  <2>4. phase' = "error" => UNCHANGED vars \/ \E p \in Pads : RelaxAlignError(p)
    BY DEF Next, Trip, OpenOutput, RelaxPass0, ResolveDone, SkipRelax, RelaxPass1, AlignDone,
           PlaceSection, ResolveDelete, RelaxAlign, NextTrip, LastTrip, MapSegments, Finished,
           Restart, ctl
  <2> QED
    BY <2>1, <2>2, <2>3, <2>4
<1>3. Inv => AlignErrorOnlyIfMixed
  OBVIOUS
<1> QED
  BY <1>1, <1>2, <1>3, PTL DEF Spec

=============================================================================
