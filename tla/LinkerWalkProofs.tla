-------------------------- MODULE LinkerWalkProofs --------------------------
(***************************************************************************)
(* Proofs about the linker's walks over its input files.                   *)
(*                                                                         *)
(* MergeAttrs: IInv is inductive, and with it the merged attributes are    *)
(* the union of the inputs', and a link succeeds with one ABI and fails    *)
(* only for a cause, whatever files it is given, in whatever order and     *)
(* number.                                                                 *)
(*                                                                         *)
(* RelocSection: RelocInv is inductive, and with it a program that links   *)
(* has every relocation applied and every address pair right, whatever its *)
(* sections, relocations, addends and addresses, in either linker.         *)
(***************************************************************************)
EXTENDS MergeAttrs, RelocSection, TLAPS

-----------------------------------------------------------------------------
(***************************************************************************)
(* Maxima.                                                                 *)
(***************************************************************************)
\* What is in a set of integers and not below any member is its maximum.
LEMMA MaxIs ==
  ASSUME NEW S \in SUBSET Int, NEW m \in S, \A k \in S : k <= m
  PROVE  Max(S) = m
<1>1. \A k \in S : m >= k OBVIOUS
<1>2. \A x \in S : (\A y \in S : x >= y) => x = m OBVIOUS
<1> QED BY <1>1, <1>2 DEF Max

LEMMA MaxOfTwo ==
  ASSUME NEW p \in Int, NEW q \in Int
  PROVE  Max({p, q}) = IF p >= q THEN p ELSE q
<1>1. CASE p >= q
  <2>1. {p, q} \in SUBSET Int /\ p \in {p, q} /\ \A k \in {p, q} : k <= p BY <1>1
  <2> QED BY <1>1, <2>1, MaxIs
<1>2. CASE ~(p >= q)
  <2>1. {p, q} \in SUBSET Int /\ q \in {p, q} /\ \A k \in {p, q} : k <= q BY <1>2
  <2> QED BY <1>2, <2>1, MaxIs
<1> QED BY <1>1, <1>2

-----------------------------------------------------------------------------
(***************************************************************************)
(* Parsing: the extensions of a string, and what they imply without a      *)
(* version.                                                                *)
(***************************************************************************)
Filled(f, D) == [x \in D |-> IF x \in DOMAIN f THEN f[x] ELSE Unknown]

With(D, x, y) == IF x \in D THEN D \cup {y} ELSE D

Closure(D) == With(With(With(With(D, "e", "i"), "d", "f"), "f", "zicsr"), "zfinx", "zicsr")

\* One entry of the table adds one name, without a version.
LEMMA ImpliedFills ==
  ASSUME NEW f, NEW D, DOMAIN f \subseteq D, NEW x, NEW y
  PROVE  /\ Implied(Filled(f, D), x, y) = Filled(f, With(D, x, y))
         /\ DOMAIN f \subseteq With(D, x, y)
<1>1. DOMAIN f \subseteq With(D, x, y) BY DEF With
<1>2. CASE x \in D
  <2>1. Implied(Filled(f, D), x, y)
          = [z \in D \cup {y} |-> IF z \in D THEN IF z \in DOMAIN f THEN f[z] ELSE Unknown ELSE Unknown]
    BY <1>2 DEF Implied, Filled
  <2> QED BY <1>1, <1>2, <2>1 DEF Filled, With
<1>3. CASE x \notin D
  BY <1>1, <1>3 DEF Filled, With, Implied
<1> QED BY <1>2, <1>3

\* A string is parsed into its own extensions and the ones they imply.
LEMMA ParseFills ==
  ASSUME NEW a, IsaStr(a)
  PROVE  /\ Subsets(a) = Filled(a.exts, Closure(DOMAIN a.exts))
         /\ riscv_parse_subset(NoExts, a) = [ok |-> riscv_parse_check_conflicts(Subsets(a)), list |-> Subsets(a)]
<1> DEFINE f == a.exts
           D0 == DOMAIN f
           D1 == With(D0, "e", "i")
           D2 == With(D1, "d", "f")
           D3 == With(D2, "f", "zicsr")
           D4 == With(D3, "zfinx", "zicsr")
           both == [x \in DOMAIN NoExts \cup DOMAIN f |-> IF x \in DOMAIN NoExts THEN NoExts[x] ELSE f[x]]
<1>1. f = [x \in D0 |-> f[x]] /\ a.kind = "isa" BY DEF IsaStr
<1>2. DOMAIN NoExts = {} BY DEF NoExts
<1>3. both = Filled(f, D0) BY <1>1, <1>2 DEF Filled
<1>4. Implied(Filled(f, D0), "e", "i") = Filled(f, D1) /\ DOMAIN f \subseteq D1
  BY ImpliedFills
<1>5. Implied(Filled(f, D1), "d", "f") = Filled(f, D2) /\ DOMAIN f \subseteq D2
  BY <1>4, ImpliedFills
<1>6. Implied(Filled(f, D2), "f", "zicsr") = Filled(f, D3) /\ DOMAIN f \subseteq D3
  BY <1>5, ImpliedFills
<1>7. Implied(Filled(f, D3), "zfinx", "zicsr") = Filled(f, D4)
  BY <1>6, ImpliedFills
<1> HIDE DEF both, D0, D1, D2, D3, D4
<1>8. riscv_parse_add_implicit_subsets(both) = Filled(f, D4)
  BY <1>3, <1>4, <1>5, <1>6, <1>7 DEF riscv_parse_add_implicit_subsets
<1> USE DEF both, D0, D1, D2, D3, D4
<1>9. riscv_parse_subset(NoExts, a) = [ok |-> riscv_parse_check_conflicts(Filled(f, D4)), list |-> Filled(f, D4)]
  BY <1>1, <1>8 DEF riscv_parse_subset
<1>10. Subsets(a) = Filled(f, D4) BY <1>9 DEF Subsets
<1> QED BY <1>9, <1>10 DEF Closure

\* Membership in the closure, extension by extension.
LEMMA InClosure ==
  ASSUME NEW D, NEW x
  PROVE  x \in Closure(D) <=> \/ x \in D
                              \/ x = "i" /\ "e" \in D
                              \/ x = "f" /\ "d" \in D
                              \/ x = "zicsr" /\ ("f" \in D \/ "d" \in D \/ "zfinx" \in D)
BY DEF Closure, With

\* What a parsed list looks like.
LEMMA IsaFacts ==
  ASSUME NEW a, IsaStr(a)
  PROVE  /\ DOMAIN Subsets(a) = Closure(DOMAIN a.exts)
         /\ DOMAIN a.exts \subseteq DOMAIN Subsets(a)
         /\ \A x \in DOMAIN Subsets(a) :
              /\ Subsets(a)[x] = IF x \in DOMAIN a.exts THEN a.exts[x] ELSE Unknown
              /\ Subsets(a)[x] \in Int
         /\ First(Subsets(a)) = First(a.exts)
<1>1. DOMAIN Subsets(a) = Closure(DOMAIN a.exts) BY ParseFills DEF Filled
<1>2. DOMAIN a.exts \subseteq DOMAIN Subsets(a) BY <1>1, InClosure
<1>3. ASSUME NEW x \in DOMAIN Subsets(a)
      PROVE  /\ Subsets(a)[x] = IF x \in DOMAIN a.exts THEN a.exts[x] ELSE Unknown
             /\ Subsets(a)[x] \in Int
  BY <1>1, ParseFills DEF Filled, IsaStr, Unknown
<1>4. First(Subsets(a)) = First(a.exts) BY <1>1, InClosure DEF First
<1> QED BY <1>1, <1>2, <1>3, <1>4

-----------------------------------------------------------------------------
(***************************************************************************)
(* Merging two strings.                                                    *)
(***************************************************************************)
\* The version that is kept is one of the two, and not the older one.
LEMMA NewerFacts ==
  ASSUME NEW a, NEW b, IsaStr(a), IsaStr(b), NEW x \in DOMAIN Subsets(a) \cup DOMAIN Subsets(b)
  PROVE  /\ Newer(Subsets(a), Subsets(b), x) \in Int
         /\ x \in DOMAIN Subsets(a) => Subsets(a)[x] <= Newer(Subsets(a), Subsets(b), x)
         /\ x \in DOMAIN Subsets(b) => Subsets(b)[x] <= Newer(Subsets(a), Subsets(b), x)
         /\ \/ x \in DOMAIN Subsets(a) /\ Newer(Subsets(a), Subsets(b), x) = Subsets(a)[x]
            \/ x \in DOMAIN Subsets(b) /\ Newer(Subsets(a), Subsets(b), x) = Subsets(b)[x]
<1>1. x \in DOMAIN Subsets(a) => Subsets(a)[x] \in Int BY IsaFacts
<1>2. x \in DOMAIN Subsets(b) => Subsets(b)[x] \in Int BY IsaFacts
<1>3. CASE x \notin DOMAIN Subsets(a) BY <1>2, <1>3 DEF Newer
<1>4. CASE x \in DOMAIN Subsets(a) /\ x \notin DOMAIN Subsets(b) BY <1>1, <1>4 DEF Newer
<1>5. CASE x \in DOMAIN Subsets(a) /\ x \in DOMAIN Subsets(b)
  <2>1. Newer(Subsets(a), Subsets(b), x) = Max({Subsets(a)[x], Subsets(b)[x]}) BY <1>5 DEF Newer
  <2>2. Newer(Subsets(a), Subsets(b), x)
          = IF Subsets(a)[x] >= Subsets(b)[x] THEN Subsets(a)[x] ELSE Subsets(b)[x]
    BY <1>1, <1>2, <1>5, <2>1, MaxOfTwo
  <2> QED BY <1>1, <1>2, <1>5, <2>2
<1> QED BY <1>3, <1>4, <1>5

\* n is what the strings a and b merge into: a string whose list has what the two lists
\* have, in the newer version.
MergeOf(n, a, b) ==
  /\ IsaStr(n)
  /\ First(n.exts) = First(a.exts)
  /\ DOMAIN Subsets(n) = DOMAIN Subsets(a) \cup DOMAIN Subsets(b)
  /\ \A x \in DOMAIN Subsets(n) : Subsets(n)[x] = Newer(Subsets(a), Subsets(b), x)

\* Two strings of one base merge: what is not written into the merged string is implied
\* again when it is parsed.
LEMMA MergeStrings ==
  ASSUME NEW a, NEW b, IsaStr(a), IsaStr(b), First(Subsets(a)) = First(Subsets(b)), NEW w \in Nat
  PROVE  MergeOf(riscv_arch_str(w, MergedSubsets(Subsets(a), Subsets(b))), a, b)
<1> DEFINE A == DOMAIN Subsets(a)
           B == DOMAIN Subsets(b)
           base == First(Subsets(a))
           New(x) == Newer(Subsets(a), Subsets(b), x)
           singles == {"e", "i", "m", "f", "d", "c", "k"}
           M == {base} \cup ((A \cup B) \cap StdExts) \cup ((A \cup B) \ singles)
           l == MergedSubsets(Subsets(a), Subsets(b))
           D == {x \in M : New(x) # Unknown /\ ~(x = "i" /\ "e" \in M)}
           n == riscv_arch_str(w, l)
<1>1. l = [x \in M |-> New(x)] BY DEF MergedSubsets
<1>2. n = [kind |-> "isa", xlen |-> w, exts |-> [x \in D |-> New(x)]] BY <1>1 DEF riscv_arch_str
<1> HIDE DEF l, n
<1>3. /\ base = First(a.exts) /\ base = First(b.exts) BY IsaFacts
<1>4. \A x : x \in A <=> \/ x \in DOMAIN a.exts
                         \/ x = "i" /\ "e" \in DOMAIN a.exts
                         \/ x = "f" /\ "d" \in DOMAIN a.exts
                         \/ x = "zicsr" /\ ("f" \in DOMAIN a.exts \/ "d" \in DOMAIN a.exts \/ "zfinx" \in DOMAIN a.exts)
  BY IsaFacts, InClosure
<1>5. \A x : x \in B <=> \/ x \in DOMAIN b.exts
                         \/ x = "i" /\ "e" \in DOMAIN b.exts
                         \/ x = "f" /\ "d" \in DOMAIN b.exts
                         \/ x = "zicsr" /\ ("f" \in DOMAIN b.exts \/ "d" \in DOMAIN b.exts \/ "zfinx" \in DOMAIN b.exts)
  BY IsaFacts, InClosure
<1>6. ("e" \in DOMAIN a.exts) # ("i" \in DOMAIN a.exts) /\ "k" \notin DOMAIN a.exts BY DEF IsaStr
<1>7. ("e" \in DOMAIN b.exts) # ("i" \in DOMAIN b.exts) /\ "k" \notin DOMAIN b.exts BY DEF IsaStr
<1>8. /\ base = "e" => "e" \in DOMAIN a.exts /\ "e" \in DOMAIN b.exts /\ "i" \notin DOMAIN a.exts /\ "i" \notin DOMAIN b.exts
      /\ base # "e" => base = "i" /\ "i" \in DOMAIN a.exts /\ "i" \in DOMAIN b.exts /\ "e" \notin DOMAIN a.exts /\ "e" \notin DOMAIN b.exts
  BY <1>3, <1>6, <1>7 DEF First
<1>9. ASSUME NEW x \in A \cup B
      PROVE  /\ New(x) \in Int
             /\ New(x) = Unknown \/ New(x) \in Nat
             /\ New(x) # Unknown <=> x \in DOMAIN a.exts \cup DOMAIN b.exts
  <2>1. /\ New(x) \in Int
        /\ x \in A => Subsets(a)[x] <= New(x)
        /\ x \in B => Subsets(b)[x] <= New(x)
        /\ (x \in A /\ New(x) = Subsets(a)[x]) \/ (x \in B /\ New(x) = Subsets(b)[x])
    BY NewerFacts
  <2>2. x \in A => Subsets(a)[x] = IF x \in DOMAIN a.exts THEN a.exts[x] ELSE Unknown BY IsaFacts
  <2>3. x \in B => Subsets(b)[x] = IF x \in DOMAIN b.exts THEN b.exts[x] ELSE Unknown BY IsaFacts
  <2>4. DOMAIN a.exts \subseteq A /\ DOMAIN b.exts \subseteq B BY <1>4, <1>5
  <2>5. /\ x \in DOMAIN a.exts => a.exts[x] \in Nat
        /\ x \in DOMAIN b.exts => b.exts[x] \in Nat
    BY DEF IsaStr
  <2> HIDE DEF New, A, B
  <2> QED BY <2>1, <2>2, <2>3, <2>4, <2>5 DEF Unknown
<1>10. base \in A \cup B BY <1>4, <1>8
<1>11. M \subseteq A \cup B BY <1>10
<1>12. \A x : x \in D <=> /\ x \in DOMAIN a.exts \cup DOMAIN b.exts
  <2> HIDE DEF New
  <2> TAKE x
  <2>1. ASSUME x \in D PROVE x \in DOMAIN a.exts \cup DOMAIN b.exts
    BY <1>9, <1>11, <2>1
  <2>2. ASSUME x \in DOMAIN a.exts \cup DOMAIN b.exts PROVE x \in D
    <3>1. x \in A \cup B /\ New(x) # Unknown BY <1>4, <1>5, <1>9, <2>2
    <3>2. x \in M BY <1>6, <1>7, <1>8, <2>2, <3>1 DEF StdExts
    <3>3. ~(x = "i" /\ "e" \in M) BY <1>8, <2>2 DEF StdExts
    <3> QED BY <3>1, <3>2, <3>3
  <2> QED BY <2>1, <2>2
<1>13. IsaStr(n)
  <2>1. n.kind = "isa" /\ n.xlen = w /\ n.exts = [x \in D |-> New(x)] BY <1>2
  <2>2. DOMAIN n.exts = D BY <2>1
  <2>3. \A x \in D : New(x) \in Nat
    <3> HIDE DEF New
    <3> QED BY <1>9, <1>11
  <2>4. n.exts \in [DOMAIN n.exts -> Nat] BY <2>1, <2>3
  <2>5. ("e" \in D) # ("i" \in D) /\ "k" \notin D
    <3> HIDE DEF D
    <3> QED BY <1>6, <1>7, <1>8, <1>12
  <2>6. n = [kind |-> "isa", xlen |-> n.xlen, exts |-> n.exts] BY <1>2, <2>1
  <2> QED BY <2>1, <2>2, <2>4, <2>5, <2>6 DEF IsaStr
<1>14. n.exts = [x \in D |-> New(x)] /\ DOMAIN n.exts = D BY <1>2
<1> HIDE DEF D, New, M
<1>15. First(n.exts) = First(a.exts) BY <1>3, <1>6, <1>8, <1>12, <1>14 DEF First
<1>16. \A x : x \in DOMAIN Subsets(n) <=>
                         \/ x \in D
                         \/ x = "i" /\ "e" \in D
                         \/ x = "f" /\ "d" \in D
                         \/ x = "zicsr" /\ ("f" \in D \/ "d" \in D \/ "zfinx" \in D)
  <2>1. DOMAIN Subsets(n) = Closure(D) BY <1>13, <1>14, IsaFacts
  <2> TAKE x
  <2> QED BY <2>1, InClosure
<1>17. DOMAIN Subsets(n) = A \cup B
  <2>1. ASSUME NEW x \in DOMAIN Subsets(n) PROVE x \in A \cup B BY <1>4, <1>5, <1>12, <1>16
  <2>2. ASSUME NEW x \in A \cup B PROVE x \in DOMAIN Subsets(n)
    <3>1. CASE x \in A BY <1>4, <1>12, <1>16, <3>1
    <3>2. CASE x \in B BY <1>5, <1>12, <1>16, <3>2
    <3> QED BY <3>1, <3>2
  <2> QED BY <2>1, <2>2
<1>18. ASSUME NEW x \in DOMAIN Subsets(n) PROVE Subsets(n)[x] = New(x)
  <2>1. Subsets(n)[x] = IF x \in D THEN n.exts[x] ELSE Unknown
    <3>1. Subsets(n)[x] = IF x \in DOMAIN n.exts THEN n.exts[x] ELSE Unknown BY <1>13, IsaFacts
    <3> QED BY <3>1, <1>14
  <2>2. x \in A \cup B BY <1>17
  <2>3. x \in D => n.exts[x] = New(x) BY <1>14
  <2>4. x \notin D => New(x) = Unknown BY <1>9, <1>12, <2>2
  <2> QED BY <2>1, <2>3, <2>4
<1>19. /\ IsaStr(n) /\ First(n.exts) = First(a.exts)
       /\ DOMAIN Subsets(n) = A \cup B
       /\ \A x \in DOMAIN Subsets(n) : Subsets(n)[x] = New(x)
  BY <1>13, <1>14, <1>15, <1>17, <1>18
<1> QED BY <1>19 DEF n, l, New, MergeOf

\* Two lists merged cover what the one covered and what the other has, and have nothing
\* that neither had.
LEMMA MergeGathers ==
  ASSUME NEW S, NEW ib, NEW o, NEW n,
         \A a \in S : IsaStr(a.arch),
         IsaStr(ib.arch), IsaStr(o), IsaStr(n),
         Covers(Subsets(o), S), Attained(Subsets(o), S),
         DOMAIN Subsets(n) = DOMAIN Subsets(ib.arch) \cup DOMAIN Subsets(o),
         \A x \in DOMAIN Subsets(n) : Subsets(n)[x] = Newer(Subsets(ib.arch), Subsets(o), x)
  PROVE  Covers(Subsets(n), S \cup {ib}) /\ Attained(Subsets(n), S \cup {ib})
<1>1. ASSUME NEW x \in DOMAIN Subsets(n)
      PROVE  /\ Subsets(n)[x] \in Int
             /\ x \in DOMAIN Subsets(ib.arch) => Subsets(ib.arch)[x] <= Subsets(n)[x]
             /\ x \in DOMAIN Subsets(o) => Subsets(o)[x] <= Subsets(n)[x]
             /\ \/ x \in DOMAIN Subsets(ib.arch) /\ Subsets(n)[x] = Subsets(ib.arch)[x]
                \/ x \in DOMAIN Subsets(o) /\ Subsets(n)[x] = Subsets(o)[x]
  BY NewerFacts
<1>2. Covers(Subsets(n), S \cup {ib})
  <2> SUFFICES ASSUME NEW a \in S \cup {ib}, NEW x \in DOMAIN Subsets(a.arch)
               PROVE  x \in DOMAIN Subsets(n) /\ Subsets(a.arch)[x] <= Subsets(n)[x]
    BY DEF Covers
  <2>1. CASE a \in S
    <3>1. x \in DOMAIN Subsets(o) /\ Subsets(a.arch)[x] <= Subsets(o)[x] BY <2>1 DEF Covers
    <3>2. Subsets(a.arch)[x] \in Int /\ Subsets(o)[x] \in Int BY <2>1, <3>1, IsaFacts
    <3>3. x \in DOMAIN Subsets(n) BY <3>1
    <3>4. Subsets(n)[x] \in Int /\ Subsets(o)[x] <= Subsets(n)[x] BY <1>1, <3>1, <3>3
    <3> QED BY <3>1, <3>2, <3>3, <3>4
  <2>2. CASE a = ib BY <1>1, <2>2
  <2> QED BY <2>1, <2>2
<1>3. Attained(Subsets(n), S \cup {ib})
  <2> SUFFICES ASSUME NEW x \in DOMAIN Subsets(n)
               PROVE  \E a \in S \cup {ib} : x \in DOMAIN Subsets(a.arch) /\ Subsets(a.arch)[x] = Subsets(n)[x]
    BY DEF Attained
  <2>1. CASE x \in DOMAIN Subsets(ib.arch) /\ Subsets(n)[x] = Subsets(ib.arch)[x] BY <2>1
  <2>2. CASE x \in DOMAIN Subsets(o) /\ Subsets(n)[x] = Subsets(o)[x]
    <3>1. PICK a \in S : x \in DOMAIN Subsets(a.arch) /\ Subsets(a.arch)[x] = Subsets(o)[x]
      BY <2>2 DEF Attained
    <3> QED BY <2>2, <3>1
  <2> QED BY <1>1, <2>1, <2>2
<1> QED BY <1>2, <1>3

-----------------------------------------------------------------------------
(***************************************************************************)
(* riscv_merge_attributes.                                                 *)
(***************************************************************************)
LEMMA KindFacts ==
  /\ Null.kind = "null" /\ Empty.kind = "empty" /\ Null # Empty
  /\ \A a : IsaStr(a) => a.kind = "isa" /\ a # Null /\ a # Empty
BY DEF Null, Empty, IsaStr

\* Why the strings x and y are not merged.
Unfit(x, y) ==
  \/ ~riscv_parse_check_conflicts(Subsets(x))
  \/ ~riscv_parse_check_conflicts(Subsets(y))
  \/ First(x.exts) # First(y.exts)
  \/ x.xlen # y.xlen
  \/ x.xlen # ARCH_SIZE

\* The outcomes for the string: it is the first one; there is none to merge; it is
\* merged; or the output's is given up.
Taken(ib, r) ==
  /\ out_attr.arch = Null
  /\ r.arch = ib.arch /\ r.ok = TRUE /\ r.in = in_subsets /\ r.out = out_subsets
Kept(ib, r) ==
  /\ out_attr.arch # Null /\ ib.arch = Null
  /\ r.arch = out_attr.arch /\ r.ok = TRUE /\ r.in = in_subsets /\ r.out = out_subsets
Joined(ib, r) ==
  /\ IsaStr(ib.arch) /\ IsaStr(out_attr.arch) /\ ~Unfit(ib.arch, out_attr.arch)
  /\ r.arch = riscv_arch_str(ib.arch.xlen, MergedSubsets(Subsets(ib.arch), Subsets(out_attr.arch)))
  /\ r.ok = TRUE /\ r.in = NoExts /\ r.out = NoExts
GivenUp(ib, r) ==
  /\ ib.arch # Null /\ out_attr.arch # Null
  /\ \/ out_attr.arch = Empty
     \/ ib.arch = Empty
     \/ IsaStr(ib.arch) /\ IsaStr(out_attr.arch) /\ Unfit(ib.arch, out_attr.arch)
  /\ r.arch = Empty /\ r.ok = FALSE

LEMMA ArchOutcomes ==
  ASSUME ConstantsOK, Strings, NEW ib \in Objects, NEW r, r = MergedArch(ib)
  PROVE  Taken(ib, r) \/ Kept(ib, r) \/ Joined(ib, r) \/ GivenUp(ib, r)
<1> DEFINE i == riscv_parse_subset(in_subsets, ib.arch)
           o == riscv_parse_subset(out_subsets, out_attr.arch)
           m == riscv_merge_arch_attr_info(ib.arch, out_attr.arch)
<1>1. CASE out_attr.arch = Null BY <1>1 DEF MergedArch, Taken
<1>2. CASE out_attr.arch # Null /\ ib.arch = Null BY <1>2 DEF MergedArch, Kept
<1>3. CASE out_attr.arch # Null /\ ib.arch # Null
  <2>1. r = [arch |-> IF m.arch = Null THEN Empty ELSE m.arch, ok |-> m.arch # Null, in |-> m.in, out |-> m.out]
    BY <1>3 DEF MergedArch
  <2> HIDE DEF m
  <2>1a. /\ r.arch = IF m.arch = Null THEN Empty ELSE m.arch
         /\ r.ok = (m.arch # Null)
         /\ r.in = m.in /\ r.out = m.out
    BY <2>1
  <2>1b. (m.arch # Null) \in BOOLEAN OBVIOUS
  <2>2. /\ m.arch = Null => r.arch = Empty /\ r.ok = FALSE
        /\ m.arch # Null => r.arch = m.arch /\ r.ok = TRUE
    BY <2>1a, <2>1b
  <2> USE DEF m
  <2>3. ib.arch = Empty \/ IsaStr(ib.arch) BY <1>3 DEF ConstantsOK, File
  <2>4. out_attr.arch = Empty \/ IsaStr(out_attr.arch) BY <1>3 DEF Strings
  <2>5. CASE ib.arch = Empty
    <3>1. i.ok = FALSE BY <2>5, KindFacts DEF riscv_parse_subset
    <3>2. m.arch = Null BY <3>1 DEF riscv_merge_arch_attr_info
    <3> QED BY <1>3, <2>2, <2>5, <3>2 DEF GivenUp
  <2>6. CASE out_attr.arch = Empty
    <3>1. o.ok = FALSE BY <2>6, KindFacts DEF riscv_parse_subset
    <3>2. m.arch = Null BY <3>1 DEF riscv_merge_arch_attr_info
    <3> QED BY <1>3, <2>2, <2>6, <3>2 DEF GivenUp
  <2>7. CASE IsaStr(ib.arch) /\ IsaStr(out_attr.arch)
    <3>1. in_subsets = NoExts /\ out_subsets = NoExts BY <2>7, KindFacts DEF Strings
    <3>2. i.ok = riscv_parse_check_conflicts(Subsets(ib.arch)) /\ i.list = Subsets(ib.arch)
      BY <2>7, <3>1, ParseFills
    <3>3. o.ok = riscv_parse_check_conflicts(Subsets(out_attr.arch)) /\ o.list = Subsets(out_attr.arch)
      BY <2>7, <3>1, ParseFills
    <3>4. First(i.list) = First(ib.arch.exts) /\ First(o.list) = First(out_attr.arch.exts)
      BY <2>7, <3>2, <3>3, IsaFacts
    <3>5. CASE Unfit(ib.arch, out_attr.arch)
      <4>1. ~i.ok \/ ~o.ok \/ ib.arch.xlen # out_attr.arch.xlen \/ First(i.list) # First(o.list)
              \/ ib.arch.xlen # ARCH_SIZE
        BY <3>2, <3>3, <3>4, <3>5 DEF Unfit
      <4> HIDE DEF i, o
      <4>2. m.arch = Null BY <4>1 DEF riscv_merge_arch_attr_info, i, o
      <4> QED BY <1>3, <2>2, <2>7, <3>5, <4>2 DEF GivenUp
    <3>6. CASE ~Unfit(ib.arch, out_attr.arch)
      <4>1. i.ok /\ o.ok /\ ib.arch.xlen = out_attr.arch.xlen /\ First(i.list) = First(o.list)
              /\ ib.arch.xlen = ARCH_SIZE
        BY <3>2, <3>3, <3>4, <3>6 DEF Unfit
      <4>2. m = [arch |-> riscv_arch_str(ib.arch.xlen, MergedSubsets(i.list, o.list)), in |-> NoExts, out |-> NoExts]
        BY <4>1 DEF riscv_merge_arch_attr_info
      <4>3. m.arch.kind = "isa" BY <4>2 DEF riscv_arch_str
      <4>4. m.arch # Null BY <4>3, KindFacts
      <4>5. m.in = NoExts /\ m.out = NoExts
              /\ m.arch = riscv_arch_str(ib.arch.xlen, MergedSubsets(Subsets(ib.arch), Subsets(out_attr.arch)))
        BY <3>2, <3>3, <4>2
      <4> HIDE DEF m
      <4> QED BY <2>2, <2>7, <2>1a, <3>6, <4>4, <4>5 DEF Joined
    <3> QED BY <3>5, <3>6
  <2> QED BY <2>3, <2>4, <2>5, <2>6, <2>7
<1> QED BY <1>1, <1>2, <1>3

\* A clash that was there stays there.
LEMMA ClashStays ==
  ASSUME SomeClash, merged \subseteq merged', Described \subseteq Described'
  PROVE  SomeClash'
<1>1. PICK a, b \in merged : Clash(a, b) BY DEF SomeClash
<1>2. a \in merged' /\ b \in merged' OBVIOUS
<1>3. Clash(a, b)'
  <2> HIDE DEF Described
  <2>1. {a, b} \subseteq Described => {a, b} \subseteq Described' OBVIOUS
  <2> QED BY <1>1, <2>1 DEF Clash
<1> QED BY <1>2, <1>3 DEF SomeClash

\* Where the files with attributes and with a string come from when ib is merged.
LEMMA Grows ==
  ASSUME NEW ib, merged' = merged \cup {ib}
  PROVE  /\ Attributed' = Attributed \cup (IF ib.target = ARCH_SIZE /\ ib.attrs THEN {ib} ELSE {})
         /\ Described' = Described \cup (IF ib.target = ARCH_SIZE /\ ib.attrs /\ ib.arch # Null THEN {ib} ELSE {})
         /\ WithCode' = WithCode \cup (IF ib.code THEN {ib} ELSE {})
         /\ merged \subseteq merged' /\ Described \subseteq Described'
<1>1. Attributed' = Attributed \cup (IF ib.target = ARCH_SIZE /\ ib.attrs THEN {ib} ELSE {})
  BY DEF Attributed
<1>2. Described' = Described \cup (IF ib.target = ARCH_SIZE /\ ib.attrs /\ ib.arch # Null THEN {ib} ELSE {})
  BY DEF Attributed, Described
<1>3. WithCode' = WithCode \cup (IF ib.code THEN {ib} ELSE {}) BY DEF WithCode
<1> QED BY <1>1, <1>2, <1>3

\* A list covers itself.
LEMMA SelfGathers ==
  ASSUME NEW ib, IsaStr(ib.arch)
  PROVE  Covers(Subsets(ib.arch), {ib}) /\ Attained(Subsets(ib.arch), {ib})
BY IsaFacts DEF Covers, Attained

\* What the attributes of the output are after a file whose attributes were looked at.
AttrsKept == /\ Strings /\ Gathered /\ StackFrom /\ PrivFrom
             /\ out_attr.init \in BOOLEAN /\ out_attr.priv \in Nat
             /\ out_attr.arch = Empty => SomeClash

LEMMA Skipped ==
  ASSUME AttrsKept, NEW ib \in Objects, merged' = merged \cup {ib}, ~ib.attrs \/ ib.target # ARCH_SIZE,
         UNCHANGED <<out_attr, in_subsets, out_subsets>>
  PROVE  AttrsKept'
<1>1. Attributed' = Attributed /\ Described' = Described /\ merged \subseteq merged' BY Grows
<1>2. SomeClash => SomeClash' BY <1>1, ClashStays
<1>3. Strings' BY <1>1 DEF AttrsKept, Strings
<1>4. Gathered' BY <1>1 DEF AttrsKept, Gathered
<1>5. StackFrom' BY <1>1 DEF AttrsKept, StackFrom
<1>6. PrivFrom' BY <1>1 DEF AttrsKept, PrivFrom
<1> QED BY <1>2, <1>3, <1>4, <1>5, <1>6 DEF AttrsKept

\* The part of it that is about the string.
StringKept ==
  /\ out_attr.arch \in {Null, Empty} \/ IsaStr(out_attr.arch)
  /\ out_attr.arch # Empty => in_subsets = NoExts /\ out_subsets = NoExts
  /\ out_attr.arch = Null <=> Described = {}
  /\ Gathered
  /\ out_attr.arch = Empty => SomeClash

LEMMA FileFacts ==
  ASSUME ConstantsOK, NEW ib \in Objects
  PROVE  /\ ib.arch \in {Null, Empty} \/ IsaStr(ib.arch)
         /\ ib.arch.kind = "isa" => IsaStr(ib.arch)
         /\ ib.priv \in Nat /\ ib.stack \in Nat
         /\ ib.attrs \in BOOLEAN /\ ib.code \in BOOLEAN /\ ib.rvc \in BOOLEAN
         /\ ib.tso \in BOOLEAN /\ ib.rve \in BOOLEAN /\ ib.unaligned \in BOOLEAN
<1>1. File(ib) BY DEF ConstantsOK
<1>2. ib.arch \in {Null, Empty} \/ IsaStr(ib.arch) BY <1>1 DEF File
<1>3. ib.arch.kind = "isa" => IsaStr(ib.arch) BY <1>2, KindFacts
<1> QED BY <1>1, <1>2, <1>3 DEF File

\* The first string is the output's.
LEMMA FirstString ==
  ASSUME ConstantsOK, StringKept, Described = {}, NEW ib \in Objects, merged' = merged \cup {ib},
         ib.target = ARCH_SIZE, ib.attrs,
         out_attr'.arch = ib.arch, UNCHANGED <<in_subsets, out_subsets>>
  PROVE  StringKept'
<1>1. Described' = IF ib.arch # Null THEN {ib} ELSE {} BY Grows
<1>2. ib.arch \in {Null, Empty} \/ IsaStr(ib.arch) BY FileFacts
<1>3. out_attr.arch # Empty BY KindFacts DEF StringKept
<1>4. in_subsets' = NoExts /\ out_subsets' = NoExts BY <1>3 DEF StringKept
<1>5. Gathered'
  <2> SUFFICES ASSUME ib.arch.kind = "isa" PROVE Gathered' BY DEF Gathered
  <2>1. IsaStr(ib.arch) /\ ib.arch # Null BY FileFacts, KindFacts
  <2>2. Described' = {ib} BY <1>1, <2>1
  <2>3. Covers(Subsets(ib.arch), {ib}) /\ Attained(Subsets(ib.arch), {ib}) BY <2>1, SelfGathers
  <2>4. Covers(Subsets(out_attr.arch), Described)' /\ Attained(Subsets(out_attr.arch), Described)'
    BY <2>2, <2>3
  <2> QED BY <2>2, <2>4 DEF Gathered
<1>6. ASSUME out_attr'.arch = Empty PROVE SomeClash'
  <2>1. ib \in Described' /\ ib.arch.kind # "isa" BY <1>1, <1>6, KindFacts
  <2>2. Clash(ib, ib)' BY <2>1 DEF Clash
  <2> QED BY <2>2 DEF SomeClash
<1>7. out_attr'.arch = Null <=> Described' = {} BY <1>1
<1> QED BY <1>2, <1>4, <1>5, <1>6, <1>7 DEF StringKept

\* A file without a string leaves it as it is.
LEMMA NoString ==
  ASSUME StringKept, NEW ib \in Objects, merged' = merged \cup {ib}, ib.arch = Null,
         out_attr'.arch = out_attr.arch, UNCHANGED <<in_subsets, out_subsets>>
  PROVE  StringKept'
<1>1. Described' = Described /\ merged \subseteq merged' BY Grows
<1>2. SomeClash => SomeClash' BY <1>1, ClashStays
<1>3. Gathered' BY <1>1 DEF StringKept, Gathered
<1> QED BY <1>1, <1>2, <1>3 DEF StringKept

\* A string that fits is merged.
LEMMA JoinedString ==
  ASSUME ConstantsOK, TypeOK, StringKept, NEW ib \in Objects, merged' = merged \cup {ib},
         ib.target = ARCH_SIZE, ib.attrs, NEW r, Joined(ib, r),
         out_attr'.arch = r.arch, in_subsets' = r.in, out_subsets' = r.out
  PROVE  StringKept'
<1> DEFINE o == out_attr.arch
           n == r.arch
<1>1. IsaStr(ib.arch) /\ IsaStr(o) /\ First(ib.arch.exts) = First(o.exts) /\ ib.arch.xlen \in Nat
  BY DEF Joined, Unfit, IsaStr
<1>2. First(Subsets(ib.arch)) = First(Subsets(o)) BY <1>1, IsaFacts
<1>3. n = riscv_arch_str(ib.arch.xlen, MergedSubsets(Subsets(ib.arch), Subsets(o))) BY DEF Joined
<1>4. /\ IsaStr(n)
      /\ n.xlen = ib.arch.xlen
      /\ First(n.exts) = First(ib.arch.exts)
      /\ DOMAIN Subsets(n) = DOMAIN Subsets(ib.arch) \cup DOMAIN Subsets(o)
      /\ \A x \in DOMAIN Subsets(n) : Subsets(n)[x] = Newer(Subsets(ib.arch), Subsets(o), x)
  <2>1. MergeOf(n, ib.arch, o) BY <1>1, <1>2, <1>3, MergeStrings
  <2>2. n.xlen = ib.arch.xlen BY <1>3 DEF riscv_arch_str
  <2> QED BY <2>1, <2>2 DEF MergeOf
<1>5. ib.arch # Null /\ o # Null /\ n # Null /\ n # Empty /\ o.kind = "isa" /\ ib.arch.kind = "isa" BY <1>1, <1>4, KindFacts
<1>6. Described' = Described \cup {ib} BY <1>5, Grows
<1>7. Gathered'
  <2>1. /\ \A a \in Described : a.arch.kind = "isa" /\ First(a.arch.exts) = First(o.exts)
        /\ Covers(Subsets(o), Described)
        /\ Attained(Subsets(o), Described)
    BY <1>5 DEF StringKept, Gathered
  <2>2. \A a \in Described : IsaStr(a.arch)
    <3> SUFFICES ASSUME NEW a \in Described PROVE IsaStr(a.arch) OBVIOUS
    <3>1. a \in Objects BY DEF TypeOK, Described, Attributed
    <3> QED BY <2>1, <3>1, FileFacts
  <2> HIDE DEF n, o
  <2>3. Covers(Subsets(n), Described \cup {ib}) /\ Attained(Subsets(n), Described \cup {ib})
    BY <1>1, <1>4, <2>1, <2>2, MergeGathers
  <2>4. Covers(Subsets(out_attr.arch), Described)' /\ Attained(Subsets(out_attr.arch), Described)'
    BY <1>6, <2>3 DEF n
  <2>5. \A a \in Described' : a.arch.kind = "isa" /\ First(a.arch.exts) = First(n.exts)
    BY <1>1, <1>4, <1>5, <1>6, <2>1
  <2>6. \E a \in Described' : a.arch.xlen = n.xlen BY <1>4, <1>6
  <2> QED BY <2>4, <2>5, <2>6 DEF Gathered, n
<1>8. in_subsets' = NoExts /\ out_subsets' = NoExts BY DEF Joined
<1>9. (out_attr.arch \in {Null, Empty} \/ IsaStr(out_attr.arch))' BY <1>4
<1> QED BY <1>5, <1>6, <1>7, <1>8, <1>9 DEF StringKept

\* A string that does not fit is given up, for a cause.
LEMMA GivenUpString ==
  ASSUME ConstantsOK, TypeOK, StringKept, NEW ib \in Objects, merged' = merged \cup {ib},
         ib.target = ARCH_SIZE, ib.attrs, NEW r, GivenUp(ib, r), out_attr'.arch = r.arch
  PROVE  StringKept' /\ SomeClash'
<1> DEFINE o == out_attr.arch
<1>1. ib.arch # Null /\ o # Null /\ out_attr'.arch = Empty BY DEF GivenUp
<1>2. Described' = Described \cup {ib} /\ merged \subseteq merged' /\ ib \in merged' BY <1>1, Grows
<1>3. Gathered' BY <1>1, KindFacts DEF Gathered
<1>4. \A a \in Described : a \in Described' /\ a \in merged' /\ a \in Objects
  BY <1>2 DEF TypeOK, Described, Attributed
<1>5. SomeClash'
  <2>1. CASE o = Empty BY <1>2, <2>1, ClashStays DEF StringKept
  <2>2. CASE ib.arch = Empty
    <3>1. Clash(ib, ib)' BY <1>2, <2>2, KindFacts DEF Clash
    <3> QED BY <1>2, <3>1 DEF SomeClash
  <2>3. CASE IsaStr(ib.arch) /\ IsaStr(o) /\ Unfit(ib.arch, o)
    <3>1. /\ \A a \in Described : a.arch.kind = "isa" /\ First(a.arch.exts) = First(o.exts)
          /\ Attained(Subsets(o), Described)
          /\ \E a \in Described : a.arch.xlen = o.xlen
      BY <2>3, KindFacts DEF StringKept, Gathered
    <3>2. CASE ~riscv_parse_check_conflicts(Subsets(ib.arch))
      <4>1. Clash(ib, ib)' BY <1>2, <3>2 DEF Clash, riscv_parse_check_conflicts
      <4> QED BY <1>2, <4>1 DEF SomeClash
    <3>3. CASE ~riscv_parse_check_conflicts(Subsets(o))
      <4>1. "zfinx" \in DOMAIN Subsets(o) /\ "f" \in DOMAIN Subsets(o)
        BY <3>3 DEF riscv_parse_check_conflicts
      <4>2. PICK a \in Described : "zfinx" \in DOMAIN Subsets(a.arch) BY <3>1, <4>1 DEF Attained
      <4>3. PICK b \in Described : "f" \in DOMAIN Subsets(b.arch) BY <3>1, <4>1 DEF Attained
      <4>4. Clash(a, b)' BY <1>4, <4>2, <4>3 DEF Clash
      <4> QED BY <1>4, <4>4 DEF SomeClash
    <3>4. CASE First(ib.arch.exts) # First(o.exts)
      <4>1. PICK a \in Described : First(a.arch.exts) = First(o.exts) BY <3>1
      <4>2. Clash(ib, a)' BY <1>2, <1>4, <3>4, <4>1 DEF Clash
      <4> QED BY <1>2, <1>4, <4>2 DEF SomeClash
    <3>5. CASE ib.arch.xlen # ARCH_SIZE
      <4>1. Clash(ib, ib)' BY <1>2, <3>5 DEF Clash
      <4> QED BY <1>2, <4>1 DEF SomeClash
    <3>6. CASE ib.arch.xlen = ARCH_SIZE /\ ib.arch.xlen # o.xlen
      <4>1. PICK a \in Described : a.arch.xlen = o.xlen BY <3>1
      <4>2. Clash(a, a)' BY <1>4, <3>6, <4>1 DEF Clash
      <4> QED BY <1>4, <4>2 DEF SomeClash
    <3> QED BY <2>3, <3>2, <3>3, <3>4, <3>5, <3>6 DEF Unfit
  <2> QED BY <2>1, <2>2, <2>3 DEF GivenUp
<1> QED BY <1>1, <1>2, <1>3, <1>5, KindFacts DEF StringKept

\* The privileged spec that is kept is one of the two, and not the older one.
LEMMA PrivFacts ==
  ASSUME ConstantsOK, NEW p \in Nat, NEW q \in Nat
  PROVE  /\ riscv_get_priv_spec_class(p) \in Nat
         /\ MergedPriv(p, q) \in {p, q}
         /\ riscv_get_priv_spec_class(p) <= riscv_get_priv_spec_class(MergedPriv(p, q))
         /\ riscv_get_priv_spec_class(q) <= riscv_get_priv_spec_class(MergedPriv(p, q))
<1>1. /\ riscv_get_priv_spec_class(p) \in Nat
      /\ riscv_get_priv_spec_class(q) \in Nat
  BY DEF riscv_get_priv_spec_class, ConstantsOK
<1>2. MergedPriv(p, q) = IF riscv_get_priv_spec_class(q) = 0
                            \/ riscv_get_priv_spec_class(p) > riscv_get_priv_spec_class(q)
                         THEN p ELSE q
  BY DEF MergedPriv
<1>3. CASE riscv_get_priv_spec_class(q) = 0 \/ riscv_get_priv_spec_class(p) > riscv_get_priv_spec_class(q)
  <2>1. MergedPriv(p, q) = p BY <1>2, <1>3
  <2> QED BY <1>1, <1>3, <2>1
<1>4. CASE ~(riscv_get_priv_spec_class(q) = 0 \/ riscv_get_priv_spec_class(p) > riscv_get_priv_spec_class(q))
  <2>1. MergedPriv(p, q) = q BY <1>2, <1>4
  <2> QED BY <1>1, <1>4, <2>1
<1> QED BY <1>3, <1>4

\* The string is in order whenever all attributes are.
LEMMA StringPart ==
  AttrsKept <=> /\ StringKept /\ StackFrom /\ PrivFrom
                /\ out_attr.init \in BOOLEAN /\ out_attr.priv \in Nat
                /\ out_attr.init <=> Attributed # {}
BY DEF AttrsKept, StringKept, Strings

LEMMA Copied ==
  ASSUME ConstantsOK, AttrsKept, NEW ib \in Objects, merged' = merged \cup {ib}, ib.target = ARCH_SIZE,
         AttrsCopied(ib)
  PROVE  AttrsKept'
<1>1. /\ ib.attrs /\ ~out_attr.init
      /\ out_attr' = [init |-> TRUE, arch |-> ib.arch, priv |-> ib.priv,
                      unaligned |-> ib.unaligned, stack |-> ib.stack]
      /\ UNCHANGED <<in_subsets, out_subsets>>
  BY DEF AttrsCopied
<1>2. Attributed = {} BY <1>1, StringPart
<1>3. Described = {} BY <1>2 DEF Described
<1>4. Attributed' = {ib} BY <1>1, <1>2, Grows
<1>5. out_attr'.arch = ib.arch /\ out_attr'.priv = ib.priv /\ out_attr'.stack = ib.stack /\ out_attr'.init = TRUE
  BY <1>1
<1>6. StringKept' BY <1>1, <1>3, <1>5, FirstString, StringPart
<1>7. StackFrom' BY <1>4, <1>5 DEF StackFrom
<1>8. ib.priv \in Nat BY FileFacts
<1>9. riscv_get_priv_spec_class(ib.priv) \in Nat BY <1>8, PrivFacts
<1>10. PrivFrom'
  <2>1. riscv_get_priv_spec_class(out_attr.priv)' = riscv_get_priv_spec_class(ib.priv)
    BY <1>5 DEF riscv_get_priv_spec_class
  <2> QED BY <1>4, <1>9, <2>1 DEF PrivFrom
<1>11. out_attr'.init \in BOOLEAN /\ out_attr'.priv \in Nat /\ (out_attr'.init <=> Attributed' # {})
  BY <1>4, <1>5, <1>8
<1> QED BY <1>6, <1>7, <1>10, <1>11 DEF AttrsKept, StringKept, Strings

\* The attributes of a file are merged; if they do not fit there is a cause.
LEMMA Merged ==
  ASSUME ConstantsOK, TypeOK, AttrsKept, NEW ib \in Objects, merged' = merged \cup {ib},
         ib.target = ARCH_SIZE, NEW ok \in BOOLEAN, AttrsMerged(ib, ok)
  PROVE  AttrsKept' /\ (~ok => SomeClash')
<1>1. PICK r \in {MergedArch(ib)} :
        /\ ib.attrs /\ out_attr.init
        /\ out_attr' = [init |-> TRUE, arch |-> r.arch, priv |-> MergedPriv(ib.priv, out_attr.priv),
                        unaligned |-> ib.unaligned \/ out_attr.unaligned,
                        stack |-> IF out_attr.stack = 0 THEN ib.stack ELSE out_attr.stack]
        /\ in_subsets' = r.in
        /\ out_subsets' = r.out
        /\ ok = (r.ok /\ ~StackClash(ib))
  BY DEF AttrsMerged
<1>2. /\ out_attr'.init = TRUE /\ out_attr'.arch = r.arch
      /\ out_attr'.priv = MergedPriv(ib.priv, out_attr.priv)
      /\ out_attr'.stack = IF out_attr.stack = 0 THEN ib.stack ELSE out_attr.stack
  BY <1>1
<1>3. StringKept /\ StackFrom /\ PrivFrom /\ Strings /\ out_attr.priv \in Nat BY StringPart DEF AttrsKept
<1>4. Taken(ib, r) \/ Kept(ib, r) \/ Joined(ib, r) \/ GivenUp(ib, r) BY <1>3, ArchOutcomes
<1>5. StringKept' /\ (r.ok = TRUE \/ SomeClash')
  <2>1. CASE Taken(ib, r)
    <3>1. Described = {} BY <1>3, <2>1 DEF Strings, Taken
    <3>2. r.arch = ib.arch /\ r.ok = TRUE /\ UNCHANGED <<in_subsets, out_subsets>> BY <1>1, <2>1 DEF Taken
    <3> QED BY <1>1, <1>2, <1>3, <3>1, <3>2, FirstString
  <2>2. CASE Kept(ib, r)
    <3>1. ib.arch = Null /\ r.arch = out_attr.arch /\ r.ok = TRUE /\ UNCHANGED <<in_subsets, out_subsets>>
      BY <1>1, <2>2 DEF Kept
    <3> QED BY <1>2, <1>3, <3>1, NoString
  <2>3. CASE Joined(ib, r)
    <3>1. r.ok = TRUE BY <2>3 DEF Joined
    <3> QED BY <1>1, <1>2, <1>3, <2>3, <3>1, JoinedString
  <2>4. CASE GivenUp(ib, r) BY <1>1, <1>2, <1>3, <2>4, GivenUpString
  <2> QED BY <1>4, <2>1, <2>2, <2>3, <2>4
<1>6. Attributed' = Attributed \cup {ib} /\ ib \in merged' /\ merged \subseteq merged' BY <1>1, Grows
<1>7. StackFrom'
  <2>1. CASE out_attr.stack = 0 BY <1>2, <1>6, <2>1 DEF StackFrom
  <2>2. CASE out_attr.stack # 0
    <3>1. PICK a \in Attributed : a.stack = out_attr.stack BY <1>3, <2>2 DEF StackFrom
    <3> QED BY <1>2, <1>6, <2>2, <3>1 DEF StackFrom
  <2> QED BY <2>1, <2>2
<1>8. PrivFrom'
  <2> DEFINE class(n) == riscv_get_priv_spec_class(n)
             new == MergedPriv(ib.priv, out_attr.priv)
  <2>1. ib.priv \in Nat BY FileFacts
  <2>2. PICK a \in Attributed : class(a.priv) = class(out_attr.priv) BY <1>1, <1>3 DEF PrivFrom
  <2>3. \A b \in Attributed : class(b.priv) <= class(out_attr.priv) BY <1>1, <1>3 DEF PrivFrom
  <2>4. /\ new \in {ib.priv, out_attr.priv}
        /\ class(ib.priv) <= class(new) /\ class(out_attr.priv) <= class(new)
    BY <1>3, <2>1, PrivFacts
  <2>5. \A b \in Attributed : class(b.priv) \in Nat
    <3> SUFFICES ASSUME NEW b \in Attributed PROVE class(b.priv) \in Nat OBVIOUS
    <3>1. b \in Objects BY DEF TypeOK, Attributed
    <3>2. b.priv \in Nat BY <3>1, FileFacts
    <3> QED BY <3>2, PrivFacts
  <2>6. class(new) \in Nat /\ class(out_attr.priv) \in Nat BY <1>3, <2>1, <2>4, PrivFacts
  <2>7. class(out_attr.priv)' = class(new) BY <1>2 DEF riscv_get_priv_spec_class
  <2> HIDE DEF class, new
  <2>8. \A b \in Attributed' : class(b.priv) <= class(new) BY <1>6, <2>3, <2>4, <2>5, <2>6
  <2>9. \E b \in Attributed' : class(b.priv) = class(new) BY <1>6, <2>2, <2>4
  <2> USE DEF class
  <2> QED BY <2>7, <2>8, <2>9 DEF PrivFrom
<1>9. out_attr'.init \in BOOLEAN /\ out_attr'.priv \in Nat /\ (out_attr'.init <=> Attributed' # {})
  <2>1. ib.priv \in Nat BY FileFacts
  <2>2. MergedPriv(ib.priv, out_attr.priv) \in {ib.priv, out_attr.priv} BY <1>3, <2>1, PrivFacts
  <2> QED BY <1>2, <1>3, <1>6, <2>1, <2>2
<1>10. AttrsKept' BY <1>5, <1>7, <1>8, <1>9 DEF AttrsKept, StringKept, Strings
<1>11. ASSUME ~ok PROVE SomeClash'
  <2>1. CASE r.ok # TRUE BY <1>5, <2>1
  <2>2. CASE r.ok = TRUE
    <3>1. StackClash(ib) BY <1>1, <1>11, <2>2
    <3>2. ib.stack # 0 /\ out_attr.stack # 0 /\ ib.stack # out_attr.stack BY <3>1 DEF StackClash
    <3>3. PICK a \in Attributed : a.stack = out_attr.stack BY <1>3, <3>2 DEF StackFrom
    <3>4. a \in merged' /\ a.attrs BY <1>6 DEF Attributed
    <3>5. Clash(ib, a)' BY <1>1, <3>2, <3>3, <3>4 DEF Clash
    <3> QED BY <1>6, <3>4, <3>5 DEF SomeClash
  <2> QED BY <2>1, <2>2
<1> QED BY <1>10, <1>11

-----------------------------------------------------------------------------
(***************************************************************************)
(* The invariant.                                                          *)
(***************************************************************************)
\* IInv in the parts that one file changes: the attributes, the flags, the verdict.
FlagsKept == FlagsFrom /\ AbiAgrees

LEMMA Parts == IInv <=> TypeOK /\ AttrsKept /\ FlagsKept /\ (failed => SomeClash)
<1>1. IInv => TypeOK /\ AttrsKept /\ FlagsKept /\ (failed => SomeClash)
  BY DEF IInv, TypeOK, AttrsKept, FlagsKept, Caused
<1>2. TypeOK /\ AttrsKept /\ FlagsKept /\ (failed => SomeClash) => IInv
  BY DEF IInv, TypeOK, AttrsKept, FlagsKept, Caused
<1> QED BY <1>1, <1>2

LEMMA InitIInv == ASSUME ConstantsOK, Init PROVE IInv
<1> USE DEF Init
<1>1. merged = {} /\ failed = FALSE /\ out_attr.arch = Null /\ out_attr.init = FALSE /\ out_attr.priv = 0
        /\ out_attr.stack = 0 /\ flags.init = FALSE
  OBVIOUS
<1>2. Attributed = {} /\ Described = {} /\ WithCode = {} BY <1>1 DEF Attributed, Described, WithCode
<1>3. TypeOK BY <1>1 DEF TypeOK
<1>4. Strings BY <1>1, <1>2, KindFacts DEF Strings
<1>5. Gathered BY <1>1, KindFacts DEF Gathered
<1>6. StackFrom /\ PrivFrom /\ FlagsFrom BY <1>1 DEF StackFrom, PrivFrom, FlagsFrom
<1>7. Caused BY <1>1, KindFacts DEF Caused
<1>8. AbiAgrees BY <1>2 DEF AbiAgrees
<1> QED BY <1>3, <1>4, <1>5, <1>6, <1>7, <1>8 DEF IInv

\* A file whose attributes are merged without an error.
LEMMA AttrsStep ==
  ASSUME ConstantsOK, TypeOK, AttrsKept, NEW ib \in Objects, merged' = merged \cup {ib},
         ib.target = ARCH_SIZE, riscv_merge_attributes(ib)
  PROVE  AttrsKept'
<1>1. CASE AttrsSkipped(ib) BY <1>1, Skipped DEF AttrsSkipped
<1>2. CASE AttrsCopied(ib) BY <1>2, Copied
<1>3. CASE AttrsMerged(ib, TRUE) BY <1>3, Merged
<1> QED BY <1>1, <1>2, <1>3 DEF riscv_merge_attributes

LEMMA NextIInv ==
  ASSUME ConstantsOK, IInv, NEW ib \in Objects, Input(ib),
         \/ TargetClash(ib) \/ AttributesClash(ib) \/ OnlyData(ib)
         \/ FirstFlags(ib) \/ FlagsClash(ib) \/ MergeFlags(ib)
  PROVE  IInv'
<1>1. TypeOK /\ AttrsKept /\ FlagsKept /\ (failed => SomeClash) BY Parts
<1>2. merged' = merged \cup {ib} BY DEF Input
<1>3. merged' \subseteq Objects /\ ib \in merged' BY <1>1, <1>2 DEF TypeOK
<1>4. WithCode' = WithCode \cup (IF ib.code THEN {ib} ELSE {}) /\ (SomeClash => SomeClash')
  BY <1>2, Grows, ClashStays
<1>5. /\ ib.code \in BOOLEAN /\ ib.rvc \in BOOLEAN /\ ib.tso \in BOOLEAN /\ ib.rve \in BOOLEAN
      /\ ib.float \in {"soft"} \cup {o.float : o \in Objects}
  BY FileFacts
<1>6. AttrsKept' => out_attr'.init \in BOOLEAN /\ out_attr'.priv \in Nat BY DEF AttrsKept
<1>7. CASE TargetClash(ib)
  <2>1. ib.target # ARCH_SIZE /\ failed' = TRUE /\ UNCHANGED <<out_attr, in_subsets, out_subsets, flags>>
    BY <1>7 DEF TargetClash
  <2>2. AttrsKept' BY <1>1, <1>2, <2>1, Skipped
  <2>3. Clash(ib, ib)' BY <2>1 DEF Clash
  <2>4. SomeClash' BY <1>3, <2>3 DEF SomeClash
  <2>5. TypeOK' BY <1>1, <1>3, <2>1 DEF TypeOK
  <2>6. FlagsKept' BY <1>1, <1>4, <2>1 DEF FlagsKept, FlagsFrom, AbiAgrees
  <2> QED BY <2>2, <2>4, <2>5, <2>6 DEF IInv, AttrsKept, FlagsKept, Caused
<1>8. CASE AttributesClash(ib)
  <2>1. ib.target = ARCH_SIZE /\ failed' = TRUE /\ flags' = flags /\ AttrsMerged(ib, FALSE)
    BY <1>8 DEF AttributesClash
  <2>2. AttrsKept' /\ SomeClash' BY <1>1, <1>2, <2>1, Merged
  <2>3. TypeOK' BY <1>1, <1>3, <1>6, <2>1, <2>2 DEF TypeOK
  <2>4. FlagsKept' BY <1>1, <1>4, <2>1 DEF FlagsKept, FlagsFrom, AbiAgrees
  <2> QED BY <2>2, <2>3, <2>4 DEF IInv, AttrsKept, FlagsKept, Caused
<1>9. CASE OnlyData(ib)
  <2>1. ib.target = ARCH_SIZE /\ ~ib.code /\ UNCHANGED <<flags, failed>> /\ riscv_merge_attributes(ib)
    BY <1>9 DEF OnlyData
  <2>2. AttrsKept' BY <1>1, <1>2, <2>1, AttrsStep
  <2>3. TypeOK' BY <1>1, <1>3, <1>6, <2>1, <2>2 DEF TypeOK
  <2>4. WithCode' = WithCode BY <1>4, <2>1
  <2>5. FlagsKept' BY <1>1, <2>1, <2>4 DEF FlagsKept, FlagsFrom, AbiAgrees
  <2> QED BY <1>1, <1>4, <2>1, <2>2, <2>3, <2>5 DEF IInv, AttrsKept, FlagsKept, Caused
<1>10. CASE FirstFlags(ib)
  <2>1. /\ ib.target = ARCH_SIZE /\ ib.code /\ riscv_merge_attributes(ib) /\ ~flags.init /\ failed' = failed
        /\ flags' = [init |-> TRUE, rvc |-> ib.rvc, tso |-> ib.tso, rve |-> ib.rve, float |-> ib.float]
    BY <1>10 DEF FirstFlags
  <2>2. AttrsKept' BY <1>1, <1>2, <2>1, AttrsStep
  <2>3. TypeOK' BY <1>1, <1>3, <1>5, <1>6, <2>1, <2>2 DEF TypeOK
  <2>4. WithCode' = WithCode \cup {ib} BY <1>4, <2>1
  <2>5. flags'.init = TRUE /\ flags'.rvc = ib.rvc /\ flags'.tso = ib.tso /\ flags'.rve = ib.rve /\ flags'.float = ib.float
    BY <2>1
  <2>6. FlagsFrom' BY <2>4, <2>5 DEF FlagsFrom
  <2>7. AbiAgrees'
    <3>1. ~failed' => WithCode = {} BY <1>1, <2>1 DEF FlagsKept, AbiAgrees
    <3> QED BY <2>4, <2>5, <3>1 DEF AbiAgrees
  <2> QED BY <1>1, <1>4, <2>1, <2>2, <2>3, <2>6, <2>7 DEF IInv, AttrsKept, Caused
<1>11. CASE FlagsClash(ib)
  <2>1. /\ ib.target = ARCH_SIZE /\ ib.code /\ riscv_merge_attributes(ib) /\ flags.init /\ failed' = TRUE
        /\ flags' = flags /\ (ib.float # flags.float \/ ib.rve # flags.rve)
    BY <1>11 DEF FlagsClash, AbiClash
  <2>2. AttrsKept' BY <1>1, <1>2, <2>1, AttrsStep
  <2>3. TypeOK' BY <1>1, <1>3, <1>6, <2>1, <2>2 DEF TypeOK
  <2>4. FlagsKept' BY <1>1, <1>4, <2>1 DEF FlagsKept, FlagsFrom, AbiAgrees
  <2>5. PICK a \in WithCode : a.float = flags.float /\ a.rve = flags.rve
    BY <1>1, <2>1 DEF FlagsKept, FlagsFrom
  <2>6. a \in merged' /\ a.code BY <1>2 DEF WithCode
  <2>7. Clash(ib, a)' BY <2>1, <2>5, <2>6 DEF Clash
  <2>8. SomeClash' BY <1>3, <2>6, <2>7 DEF SomeClash
  <2> QED BY <2>2, <2>3, <2>4, <2>8 DEF IInv, AttrsKept, FlagsKept, Caused
<1>12. CASE MergeFlags(ib)
  <2>1. /\ ib.target = ARCH_SIZE /\ ib.code /\ riscv_merge_attributes(ib) /\ flags.init /\ failed' = failed
        /\ flags' = [flags EXCEPT !.rvc = @ \/ ib.rvc, !.tso = @ \/ ib.tso]
        /\ ib.float = flags.float /\ ib.rve = flags.rve
    BY <1>12 DEF MergeFlags, AbiClash
  <2>2. AttrsKept' BY <1>1, <1>2, <2>1, AttrsStep
  <2>3. WithCode' = WithCode \cup {ib} BY <1>4, <2>1
  <2>4. flags' \in [init : BOOLEAN, rvc : BOOLEAN, tso : BOOLEAN, rve : BOOLEAN,
                    float : {"soft"} \cup {o.float : o \in Objects}]
    BY <1>1, <2>1 DEF TypeOK
  <2>5. TypeOK' BY <1>1, <1>3, <1>6, <2>1, <2>2, <2>4 DEF TypeOK
  <2>6. /\ flags'.init = flags.init /\ flags'.float = flags.float /\ flags'.rve = flags.rve
        /\ flags'.rvc = (flags.rvc \/ ib.rvc) /\ flags'.tso = (flags.tso \/ ib.tso)
    BY <1>1, <2>1 DEF TypeOK
  <2>7. FlagsFrom' BY <2>1, <2>3, <2>6 DEF FlagsFrom
  <2>8. AbiAgrees'
    <3> SUFFICES ASSUME ~failed, NEW a \in WithCode \cup {ib}
                 PROVE  /\ flags'.init /\ flags'.float = a.float /\ flags'.rve = a.rve
                        /\ a.rvc => flags'.rvc
                        /\ a.tso => flags'.tso
      BY <2>1, <2>3 DEF AbiAgrees
    <3>1. CASE a \in WithCode BY <1>1, <2>6, <3>1 DEF FlagsKept, AbiAgrees
    <3>2. CASE a = ib BY <2>1, <2>6, <3>2
    <3> QED BY <3>1, <3>2
  <2> QED BY <1>1, <1>4, <2>1, <2>2, <2>5, <2>7, <2>8 DEF IInv, AttrsKept, Caused
<1> QED BY <1>7, <1>8, <1>9, <1>10, <1>11, <1>12

\* The inductive invariant holds in every link: whatever the files, their order and
\* number, _bfd_riscv_elf_merge_private_bfd_data keeps it.
THEOREM Invariance == Spec => []IInv
<1>1. Init => IInv BY InitIInv, ConstantsOK
<1>2. IInv /\ [Next]_vars => IInv'
  <2> SUFFICES ASSUME IInv, [Next]_vars PROVE IInv' OBVIOUS
  <2>1. CASE Next
    <3>1. PICK ib \in Objects : \/ TargetClash(ib) \/ AttributesClash(ib) \/ OnlyData(ib)
                                \/ FirstFlags(ib) \/ FlagsClash(ib) \/ MergeFlags(ib)
      BY <2>1 DEF Next
    <3>2. Input(ib)
      BY <3>1 DEF TargetClash, AttributesClash, OnlyData, FirstFlags, FlagsClash, MergeFlags
    <3> QED BY <3>1, <3>2, NextIInv, ConstantsOK
  <2>2. CASE UNCHANGED vars
    BY <2>2 DEF vars, IInv, TypeOK, Strings, Gathered, StackFrom, PrivFrom, FlagsFrom, Caused, AbiAgrees,
                Attributed, Described, WithCode, SomeClash, Clash
  <2> QED BY <2>1, <2>2
<1> QED BY <1>1, <1>2, PTL DEF Spec

\* The merged attributes are the union of the inputs': every extension an input names,
\* in its newest version, none besides, and the newest privileged spec.
THEOREM Union == Spec => []MergedIsUnion
<1>1. ASSUME IInv PROVE MergedIsUnion
  <2> DEFINE o == out_attr.arch
             In(x) == {ib \in Described : x \in DOMAIN Subsets(ib.arch)}
             V(x) == {Subsets(ib.arch)[x] : ib \in In(x)}
  <2>1. IsaIsUnion
    <3> SUFFICES ASSUME o.kind = "isa" PROVE IsaIsUnion BY DEF IsaIsUnion
    <3>1. IsaStr(o) BY <1>1, KindFacts DEF IInv, Strings
    <3>2. /\ \A ib \in Described : ib.arch.kind = "isa"
          /\ Covers(Subsets(o), Described) /\ Attained(Subsets(o), Described)
      BY <1>1 DEF IInv, Gathered
    <3>3. \A ib \in Described : IsaStr(ib.arch)
      <4> SUFFICES ASSUME NEW ib \in Described PROVE IsaStr(ib.arch) OBVIOUS
      <4>1. ib \in Objects BY <1>1 DEF IInv, TypeOK, Described, Attributed
      <4> QED BY <3>2, <4>1, FileFacts, ConstantsOK
    <3>4. DOMAIN Subsets(o) = UNION {DOMAIN Subsets(ib.arch) : ib \in Described}
      <4>1. ASSUME NEW x \in DOMAIN Subsets(o) PROVE \E ib \in Described : x \in DOMAIN Subsets(ib.arch)
        BY <3>2 DEF Attained
      <4>2. ASSUME NEW ib \in Described PROVE DOMAIN Subsets(ib.arch) \subseteq DOMAIN Subsets(o)
        BY <3>2 DEF Covers
      <4> QED BY <4>1, <4>2
    <3>5. ASSUME NEW x \in DOMAIN o.exts PROVE o.exts[x] = Max(V(x))
      <4>1. x \in DOMAIN Subsets(o) /\ Subsets(o)[x] = o.exts[x] BY <3>1, IsaFacts
      <4>2. V(x) \in SUBSET Int
        <5> SUFFICES ASSUME NEW ib \in In(x) PROVE Subsets(ib.arch)[x] \in Int OBVIOUS
        <5> QED BY <3>3, IsaFacts
      <4>3. o.exts[x] \in V(x)
        <5>1. PICK ib \in Described : x \in DOMAIN Subsets(ib.arch) /\ Subsets(ib.arch)[x] = Subsets(o)[x]
          BY <3>2, <4>1 DEF Attained
        <5> QED BY <4>1, <5>1
      <4>4. \A k \in V(x) : k <= o.exts[x] BY <3>2, <4>1 DEF Covers
      <4> HIDE DEF V
      <4> QED BY <4>2, <4>3, <4>4, MaxIs
    <3> QED BY <3>4, <3>5 DEF IsaIsUnion
  <2>2. PrivIsNewest
    <3> SUFFICES ASSUME out_attr.init PROVE PrivIsNewest BY DEF PrivIsNewest
    <3> DEFINE class(n) == riscv_get_priv_spec_class(n)
               P == {class(ib.priv) : ib \in Attributed}
    <3>1. P \in SUBSET Int
      <4> SUFFICES ASSUME NEW ib \in Attributed PROVE class(ib.priv) \in Int OBVIOUS
      <4>1. ib \in Objects BY <1>1 DEF IInv, TypeOK, Attributed
      <4>2. ib.priv \in Nat BY <4>1, FileFacts, ConstantsOK
      <4> QED BY <4>2, PrivFacts, ConstantsOK
    <3>2. class(out_attr.priv) \in P BY <1>1 DEF IInv, PrivFrom
    <3>3. \A k \in P : k <= class(out_attr.priv) BY <1>1 DEF IInv, PrivFrom
    <3> HIDE DEF P
    <3>4. Max(P) = class(out_attr.priv) BY <3>1, <3>2, <3>3, MaxIs
    <3> QED BY <3>4 DEF P, PrivIsNewest
  <2> QED BY <2>1, <2>2 DEF MergedIsUnion
<1> QED BY <1>1, Invariance, PTL

\* A link that succeeds has one ABI, which its flags say, and a link that fails has two
\* files that really clash.
THEOREM AbiIsOne == Spec => []OneAbi
<1>1. IInv => OneAbi BY DEF IInv, OneAbi, FailureHasCause, Caused
<1> QED BY <1>1, Invariance, PTL

-----------------------------------------------------------------------------
(***************************************************************************)
(* Arithmetic of addresses.                                                *)
(***************************************************************************)
\* A number is known by its quotient and its remainder, and by them alone.
LEMMA Division ==
  ASSUME NEW x \in Int, NEW m \in Nat \ {0}
  PROVE  /\ x \div m \in Int /\ x % m \in 0 .. m - 1
         /\ x = m * (x \div m) + (x % m)
<1>1. m \in Int /\ m > 0 OBVIOUS
<1>2. x \div m \in Int /\ x % m \in 0 .. m - 1 BY <1>1
<1>3. x = m * (x \div m) + (x % m) BY <1>1
<1> QED BY <1>2, <1>3

LEMMA Remainder ==
  ASSUME NEW m \in Nat \ {0}, NEW q \in Int, NEW r \in 0 .. m - 1
  PROVE  (m * q + r) % m = r
<1> DEFINE x == m * q + r
<1>1. x \in Int OBVIOUS
<1>2. PICK p \in Int, s \in 0 .. m - 1 : p = x \div m /\ s = x % m /\ x = m * p + s
  BY <1>1, Division
<1>3. m * (q - p) = s - r BY <1>2
<1>4. q - p < 1
  <2>1. SUFFICES ASSUME q - p >= 1 PROVE FALSE OBVIOUS
  <2>2. m * (q - p) >= m BY <2>1
  <2> QED BY <1>3, <2>2
<1>5. q - p > -1
  <2>1. SUFFICES ASSUME q - p <= -1 PROVE FALSE OBVIOUS
  <2>2. m * (q - p) <= -m BY <2>1
  <2> QED BY <1>3, <2>2
<1>6. q = p BY <1>4, <1>5
<1> QED BY <1>2, <1>6

\* Multiples of the modulus make no difference.
LEMMA Congruent ==
  ASSUME NEW m \in Nat \ {0}, NEW x \in Int, NEW y \in Int, NEW q \in Int, x = y + m * q
  PROVE  x % m = y % m
<1>1. PICK p \in Int, r \in 0 .. m - 1 : r = y % m /\ y = m * p + r BY Division
<1>2. x = m * (p + q) + r /\ p + q \in Int BY <1>1
<1>3. (m * (p + q) + r) % m = r BY <1>2, Remainder
<1> QED BY <1>1, <1>2, <1>3

LEMMA WrapFacts ==
  ASSUME NEW x \in Int
  PROVE  /\ Wrap(x) \in Addresses /\ Wrap(x) \in Nat
         /\ \E q \in Int : x = Wrap(x) + Space * q
         /\ x \in Addresses => Wrap(x) = x
<1>1. Space \in Nat \ {0} BY WordsAssumption
<1>2. x \div Space \in Int /\ x % Space \in 0 .. Space - 1 /\ x = Space * (x \div Space) + (x % Space)
  BY <1>1, Division
<1>3. ASSUME x \in Addresses PROVE Wrap(x) = x
  <2>1. x \in 0 .. Space - 1 /\ 0 \in Int /\ Space * 0 + x = x BY <1>1, <1>3 DEF Addresses
  <2> QED BY <1>1, <2>1, Remainder DEF Wrap
<1>4. \E q \in Int : x = Wrap(x) + Space * q
  <2>1. x = (x % Space) + Space * (x \div Space) BY <1>1, <1>2
  <2> QED BY <1>2, <2>1 DEF Wrap
<1>5. Wrap(x) \in Addresses /\ Wrap(x) \in Nat BY <1>1, <1>2 DEF Wrap, Addresses
<1> QED BY <1>3, <1>4, <1>5

LEMMA SameWrap ==
  ASSUME NEW x \in Int, NEW y \in Int, NEW q \in Int, x = y + Space * q
  PROVE  Wrap(x) = Wrap(y)
<1>1. Space \in Nat \ {0} BY WordsAssumption
<1> QED BY <1>1, Congruent DEF Wrap

\* Two sums wrap alike when their parts do.
LEMMA WrapSum ==
  ASSUME NEW x \in Int, NEW y \in Int
  PROVE  Wrap(Wrap(x) + y) = Wrap(x + y)
<1>1. Space \in Nat \ {0} /\ Wrap(x) \in Int BY WordsAssumption, WrapFacts
<1>2. PICK q \in Int : x = Wrap(x) + Space * q BY WrapFacts
<1>3. x + y \in Int /\ Wrap(x) + y \in Int /\ x + y = (Wrap(x) + y) + Space * q
  BY <1>1, <1>2
<1> QED BY <1>3, SameWrap

\* A sign-extended low part added to the high part it was cut from gives the
\* number back.
LEMMA HighAndLow ==
  ASSUME NEW z \in Int
  PROVE  /\ HighPart(Wrap(z)) \in Int /\ LowImm(z) \in Int
         /\ Wrap(HighPart(Wrap(z)) + LowImm(z)) = Wrap(z)
<1> DEFINE h == R \div 2
           y == Wrap(Wrap(z) + h)
           r == (z + h) % R
<1>1. R \in Nat \ {0} /\ Space \in Nat \ {0} BY WordsAssumption
<1>2. h \in Nat /\ R = 2 * h
  <2>1. R = 2 * (R \div 2) + (R % 2) /\ R \div 2 \in Int BY <1>1, Division
  <2> QED BY <1>1, <2>1, WordsAssumption
<1>3. PICK t \in Int : Space = R * t
  <2>1. Space = R * (Space \div R) + (Space % R) /\ Space \div R \in Int BY <1>1, Division
  <2> QED BY <2>1, WordsAssumption, <1>1
<1>4. Wrap(z) \in Int BY WrapFacts
<1>5. y = Wrap(z + h) BY <1>2, WrapSum
<1>6. PICK q \in Int : z + h = y + Space * q
  <2>1. z + h \in Int BY <1>2
  <2> QED BY <1>5, <2>1, WrapFacts
<1>7. y \in Int /\ r \in Int /\ r \in 0 .. R - 1
  <2>1. z + h \in Int BY <1>2
  <2>2. Wrap(z + h) \in Nat BY <2>1, WrapFacts
  <2>3. r \in 0 .. R - 1 BY <1>1, <2>1, Division
  <2> QED BY <1>1, <1>5, <2>2, <2>3
<1>8. y % R = r
  <2>1. z + h = y + R * (t * q) BY <1>1, <1>2, <1>3, <1>6, <1>7
  <2>2. t * q \in Int /\ z + h \in Int BY <1>2
  <2>3. (z + h) % R = y % R BY <1>1, <1>7, <2>1, <2>2, Congruent
  <2> QED BY <2>3
<1>9. HighPart(Wrap(z)) = y - r
  BY <1>8 DEF HighPart
<1>10. LowImm(z) = r - h
  <2>1. PICK p \in Int, s \in 0 .. R - 1 : s = z % R /\ z = R * p + s BY <1>1, Division
  <2>2. CASE s < h
    <3>1. z + h = R * p + (s + h) /\ s + h \in 0 .. R - 1 BY <1>1, <1>2, <2>1, <2>2
    <3>2. r = s + h BY <1>1, <3>1, Remainder
    <3>3. LowImm(z) = s BY <2>1, <2>2 DEF LowImm
    <3> QED BY <1>2, <3>2, <3>3
  <2>3. CASE ~(s < h)
    <3>1. z + h = R * (p + 1) + (s - h) /\ s - h \in 0 .. R - 1 /\ p + 1 \in Int BY <1>1, <1>2, <2>1, <2>3
    <3>2. r = s - h BY <1>1, <3>1, Remainder
    <3>3. LowImm(z) = s - R BY <2>1, <2>3 DEF LowImm
    <3> QED BY <1>2, <3>2, <3>3
  <2> QED BY <2>2, <2>3
<1> HIDE DEF h, y, r
<1>11. HighPart(Wrap(z)) + LowImm(z) = y - h BY <1>2, <1>7, <1>9, <1>10
<1>12. Wrap(z) = Wrap(y - h)
  <2>1. z = (y - h) + Space * q /\ y - h \in Int BY <1>1, <1>2, <1>6, <1>7
  <2> QED BY <2>1, SameWrap
<1> QED BY <1>2, <1>7, <1>9, <1>10, <1>11, <1>12

\* VALID_UTYPE_IMM: what lui and auipc read from the instruction is the high
\* part, as an address.
LEMMA ReadBack ==
  ASSUME span \in 1 .. Space, NEW x \in Int, span = Space \/ ValidUtype(x)
  PROVE  Signed(x) \in Int /\ Wrap(Signed(x)) = Wrap(x)
<1>1. span \in Nat \ {0} /\ Space \in Nat \ {0} BY WordsAssumption
<1>2. PICK p \in Int, r \in 0 .. span - 1 : r = x % span /\ x = span * p + r BY <1>1, Division
<1>3. Signed(x) = r \/ Signed(x) = r - span BY <1>2 DEF Signed
<1>4. Signed(x) \in Int BY <1>1, <1>3
<1>5. CASE span = Space
  <2>1. CASE Signed(x) = r
    <3>1. x = Signed(x) + Space * p BY <1>1, <1>2, <1>5, <2>1
    <3> QED BY <1>4, <3>1, SameWrap
  <2>2. CASE Signed(x) = r - span
    <3>1. x = Signed(x) + Space * (p + 1) /\ p + 1 \in Int BY <1>1, <1>2, <1>5, <2>2
    <3>2. Wrap(x) = Wrap(Signed(x)) BY <1>4, <3>1, SameWrap
    <3> QED BY <1>4, <3>2
  <2> QED BY <1>3, <2>1, <2>2
<1>6. CASE ValidUtype(x)
  <2>1. Wrap(Signed(x)) = x BY <1>6 DEF ValidUtype
  <2>2. x \in Addresses BY <1>4, <2>1, WrapFacts
  <2> QED BY <1>4, <2>1, <2>2, WrapFacts
<1> QED BY <1>5, <1>6

\* The two instructions of a pair, executed after each other.
LEMMA PairExecuted ==
  ASSUME span \in 1 .. Space, NEW base \in Int, NEW v \in Int, NEW add \in Int,
         v = Wrap(v), HighPart(v) = HighPart(Wrap(v + add)),
         span = Space \/ ValidUtype(HighPart(v))
  PROVE  Wrap(base + Signed(HighPart(v)) + LowImm(v + add)) = Wrap(base + v + add)
<1> DEFINE H == HighPart(v)
           z == v + add
           S == Signed(H)
           L == LowImm(z)
<1>1. z \in Int /\ z = v + add OBVIOUS
<1>2. H \in Int /\ L \in Int /\ Wrap(H + L) = Wrap(z) BY <1>1, HighAndLow
<1>3. S \in Int /\ Wrap(S) = Wrap(H) BY <1>2, ReadBack
<1> HIDE DEF H, z, S, L
<1>4. Wrap(S + (L + base)) = Wrap(H + (L + base))
  <2>1. L + base \in Int BY <1>2
  <2>2. Wrap(Wrap(S) + (L + base)) = Wrap(S + (L + base)) BY <1>3, <2>1, WrapSum
  <2>3. Wrap(Wrap(H) + (L + base)) = Wrap(H + (L + base)) BY <1>2, <2>1, WrapSum
  <2> QED BY <1>3, <2>2, <2>3
<1>5. Wrap((H + L) + base) = Wrap(z + base)
  <2>1. H + L \in Int BY <1>2
  <2>2. Wrap(Wrap(H + L) + base) = Wrap((H + L) + base) BY <2>1, WrapSum
  <2>3. Wrap(Wrap(z) + base) = Wrap(z + base) BY <1>1, WrapSum
  <2> QED BY <1>2, <2>2, <2>3
<1>6. base + S + L = S + (L + base) /\ H + (L + base) = (H + L) + base /\ base + v + add = z + base
  BY <1>1, <1>2, <1>3
<1>7. Wrap(base + S + L) = Wrap(base + v + add) BY <1>4, <1>5, <1>6
<1> QED BY <1>7 DEF H, z, S, L

-----------------------------------------------------------------------------
(***************************************************************************)
(* The relocations of a program, which no step changes.                    *)
(***************************************************************************)
LEMMA SectionFacts ==
  ASSUME InputOK, NEW s \in 1 .. Len(prog)
  PROVE  /\ prog[s] \in [base : Nat, relocs : Seq(Relocations)]
         /\ prog[s].relocs \in Seq(Relocations) /\ Len(prog[s].relocs) \in Nat
<1> DEFINE T == [base : Nat, relocs : Seq(Relocations)]
<1>1. prog \in Seq(T) BY DEF InputOK
<1> HIDE DEF T
<1>2. prog[s] \in T BY <1>1
<1>3. prog[s].relocs \in Seq(Relocations) BY <1>2 DEF T
<1> QED BY <1>2, <1>3 DEF T

LEMMA RelocFacts ==
  ASSUME InputOK, NEW k \in Relocs
  PROVE  /\ k[1] \in 1 .. Len(prog) /\ k[2] \in 1 .. Len(prog[k[1]].relocs)
         /\ k = <<k[1], k[2]>> /\ At(k) \in Relocations
         /\ prog[k[1]] \in [base : Nat, relocs : Seq(Relocations)]
<1>1. PICK s \in 1 .. Len(prog) : k \in {<<s, i>> : i \in 1 .. Len(prog[s].relocs)} BY DEF Relocs
<1>2. PICK i \in 1 .. Len(prog[s].relocs) : k = <<s, i>> BY <1>1
<1>3. prog[s] \in [base : Nat, relocs : Seq(Relocations)] BY SectionFacts
<1>4. prog[s].relocs \in Seq(Relocations) BY SectionFacts
<1>5. prog[s].relocs[i] \in Relocations BY <1>4
<1> QED BY <1>2, <1>3, <1>5 DEF At

LEMMA RelocAt ==
  ASSUME NEW s \in 1 .. Len(prog), NEW i \in 1 .. Len(prog[s].relocs)
  PROVE  /\ <<s, i>> \in Relocs /\ At(<<s, i>>) = prog[s].relocs[i]
         /\ PcOf(<<s, i>>) = Wrap(prog[s].base + prog[s].relocs[i].off)
BY DEF Relocs, At, PcOf

LEMMA InputKept ==
  ASSUME UNCHANGED input
  PROVE  /\ UNCHANGED <<span, prog, value>>
         /\ Relocs' = Relocs /\ (InputOK => InputOK')
         /\ \A k : At(k)' = At(k) /\ PcOf(k)' = PcOf(k) /\ Target(k)' = Target(k)
         /\ \A k : IsHigh(k)' <=> IsHigh(k)
         /\ \A k, op : HiValue(k, op)' = HiValue(k, op)
         /\ \A l : AddressOf(l)' = AddressOf(l)
         /\ \A x : Signed(x)' = Signed(x) /\ (ValidUtype(x)' <=> ValidUtype(x))
         /\ \A j, k : (UlebOf(j, k)' <=> UlebOf(j, k)) /\ Wanted(j, k)' = Wanted(j, k)
<1>1. UNCHANGED <<span, prog, value>> BY DEF input
<1>2. Relocs' = Relocs BY <1>1 DEF Relocs
<1>3. InputOK => InputOK' BY <1>1 DEF InputOK
<1>4. \A k : At(k)' = At(k) BY <1>1 DEF At
<1>5. \A k : PcOf(k)' = PcOf(k) BY <1>1, <1>4 DEF PcOf, Wrap
<1>6. \A k : Target(k)' = Target(k) BY <1>1, <1>4 DEF Target, Wrap
<1>7. \A k : IsHigh(k)' <=> IsHigh(k) BY <1>4 DEF IsHigh
<1>8. \A k, op : HiValue(k, op)' = HiValue(k, op) BY <1>5, <1>6 DEF HiValue, Wrap
<1>9. \A l : AddressOf(l)' = AddressOf(l) BY <1>1 DEF AddressOf, Wrap
<1>10. \A x : Signed(x)' = Signed(x) BY <1>1 DEF Signed
<1>11. \A x : ValidUtype(x)' <=> ValidUtype(x) BY <1>10 DEF ValidUtype, Wrap
<1>12. \A j, k : UlebOf(j, k)' <=> UlebOf(j, k) BY <1>4 DEF UlebOf
<1>13. \A j, k : Wanted(j, k)' = Wanted(j, k) BY <1>1, <1>4 DEF Wanted, Wrap
<1> QED BY <1>1, <1>2, <1>3, <1>4, <1>5, <1>6, <1>7, <1>8, <1>9, <1>10, <1>11, <1>12, <1>13

-----------------------------------------------------------------------------
(***************************************************************************)
(* What is written stays written, so what is done stays done.              *)
(***************************************************************************)
Grown == \A k \in DOMAIN code : k \in DOMAIN code' /\ code'[k] = code[k]

\* A step that keeps the input and what was written.
Keeps ==
  /\ UNCHANGED input /\ Grown
  /\ \A k \in Relocs : Passed(k) => Passed(k)'
  /\ \A s \in Symbols : got[s].done => got'[s].done

LEMMA HighStays ==
  ASSUME InputOK, Keeps, NEW k \in Relocs, HighDone(k)
  PROVE  HighDone(k)' /\ code'[k] = code[k]
<1>1. k \in DOMAIN code' /\ code'[k] = code[k] BY DEF Keeps, Grown, HighDone
<1>2. UNCHANGED <<span, prog, value>> BY InputKept DEF Keeps
<1>3. At(k).type = "got" => got'[At(k).sym].done
  <2>1. At(k).sym \in Symbols BY RelocFacts DEF Relocations
  <2> QED BY <2>1 DEF Keeps, HighDone
<1> QED
  BY <1>1, <1>2, <1>3 DEF HighDone, HiValue, Target, At, PcOf, ValidUtype, Signed, HighPart, Wrap

LEMMA LowStays ==
  ASSUME InputOK, HighsDone, Keeps, NEW k \in Relocs, LowDone(k)
  PROVE  LowDone(k)'
<1>1. PICK h \in Relocs : Passed(h) /\ PairOf(h, k) BY DEF LowDone
<1>2. h \in DOMAIN code BY <1>1 DEF HighsDone, HighDone, PairOf
<1>3. UNCHANGED <<span, prog, value>> /\ Relocs' = Relocs BY InputKept DEF Keeps
<1>4. code'[h] = code[h] /\ code'[k] = code[k] /\ k \in DOMAIN code'
  BY <1>2 DEF LowDone, Keeps, Grown
<1>5. PairOf(h, k)'
  BY <1>1, <1>3, <1>4 DEF PairOf, IsHigh, At, PcOf, AddressOf, Executed, Wanted, Signed, Wrap
<1>6. Passed(h)' BY <1>1 DEF Keeps
<1> QED BY <1>3, <1>4, <1>5, <1>6 DEF LowDone

LEMMA SubStays ==
  ASSUME Keeps, NEW k \in Relocs, SubDone(k)
  PROVE  SubDone(k)'
<1>1. PICK j \in Relocs :
        UlebOf(j, k) /\ code[k].imm = Wrap(value[At(j).sym] + At(j).add - value[At(k).sym])
  BY DEF SubDone
<1>2. UNCHANGED <<span, prog, value>> /\ Relocs' = Relocs BY InputKept DEF Keeps
<1>3. code'[k] = code[k] /\ k \in DOMAIN code' BY DEF SubDone, Keeps, Grown
<1>4. UlebOf(j, k)' BY <1>1, InputKept DEF Keeps
<1>5. (code[k].imm = Wrap(value[At(j).sym] + At(j).add - value[At(k).sym]))'
  BY <1>1, <1>2, <1>3 DEF At, Wrap
<1> QED BY <1>2, <1>3, <1>4, <1>5 DEF SubDone

\* What an entry of the table of high parts promises.
Tells(h, a, e) ==
  Passed(h) /\ IsHigh(h) /\ PcOf(h) = a /\ e = [value |-> HiValue(h, code[h].op), type |-> At(h).type]

LEMMA TellsStays ==
  ASSUME InputOK, HighsDone, Keeps, NEW h \in Relocs, NEW a, NEW e, Tells(h, a, e)
  PROVE  Tells(h, a, e)'
<1>1. HighDone(h) BY DEF Tells, HighsDone
<1>2. code'[h] = code[h] BY <1>1, HighStays
<1>3. UNCHANGED <<span, prog, value>> BY InputKept DEF Keeps
<1>4. Passed(h)' BY DEF Keeps, Tells
<1> QED BY <1>2, <1>3, <1>4 DEF Tells, IsHigh, At, PcOf, HiValue, Target, Wrap

LEMMA TableStays ==
  ASSUME InputOK, HighsDone, Keeps, TableOK, UNCHANGED hi
  PROVE  TableOK'
<1>1. Relocs' = Relocs BY InputKept DEF Keeps
<1>2. \A a \in DOMAIN hi : \E h \in Relocs : Tells(h, a, hi[a]) BY DEF TableOK, Tells
<1>3. \A a \in DOMAIN hi : \E h \in Relocs : Tells(h, a, hi[a])'
  <2> TAKE a \in DOMAIN hi
  <2>1. PICK h \in Relocs : Tells(h, a, hi[a]) BY <1>2
  <2>2. PICK e : e = hi[a] /\ e = hi'[a] OBVIOUS
  <2>3. Tells(h, a, e) BY <2>1, <2>2
  <2>4. Tells(h, a, e)' BY <2>3, TellsStays
  <2>5. Tells(h, a, hi[a])' BY <2>2, <2>4 DEF Tells
  <2> QED BY <2>5
<1> QED BY <1>1, <1>3 DEF TableOK, Tells

-----------------------------------------------------------------------------
(***************************************************************************)
(* The steps of the walk: to the next relocation, to the next section.     *)
(***************************************************************************)
Here == <<sec, at>>

LEMMA HereFacts ==
  ASSUME InputOK, WalkOK, Walking
  PROVE  /\ sec \in 1 .. Len(prog) /\ at \in 1 .. Len(prog[sec].relocs)
         /\ Here \in Relocs /\ At(Here) = Rel /\ PcOf(Here) = Pc
         /\ Rel \in Relocations /\ Len(prog[sec].relocs) \in Nat
<1>1. sec \in 1 .. Len(prog)
  <2>1. Len(prog) \in Nat BY DEF InputOK
  <2> QED BY <2>1 DEF WalkOK, Walking
<1>4. Len(prog[sec].relocs) \in Nat BY <1>1, SectionFacts
<1>5. at \in 1 .. Len(prog[sec].relocs) BY <1>4 DEF WalkOK, Walking
<1>6. Here \in Relocs /\ At(Here) = Rel /\ PcOf(Here) = Pc
  BY <1>1, <1>5, RelocAt DEF Here, Rel, Pc
<1> QED BY <1>1, <1>4, <1>5, <1>6, RelocFacts

\* The end of a section, after an error too.
LEMMA SectionEnds ==
  ASSUME InputOK, WalkOK, UNCHANGED <<input, code>>, NextSection, unresolved' \in BOOLEAN
  PROVE  InputOK' /\ WalkOK'
<1>1. UNCHANGED <<span, prog, value>> /\ InputOK' BY InputKept
<1>2. sec' \in Nat \ {0} /\ at' = 1 /\ uleb' = 0 /\ lo' = << >> BY DEF NextSection, WalkOK
<1>3. sec' <= Len(prog') => at' <= Len(prog'[sec'].relocs) + 1
  <2>1. SUFFICES ASSUME sec' \in 1 .. Len(prog') PROVE Len(prog'[sec'].relocs) \in Nat
    <3>1. Len(prog') \in Nat BY <1>1 DEF InputOK
    <3> QED BY <1>2, <2>1, <3>1
  <2> DEFINE T == [base : Nat, relocs : Seq(Relocations)]
  <2>2. prog' \in Seq(T) BY <1>1 DEF InputOK
  <2> HIDE DEF T
  <2>3. prog'[sec'] \in T BY <2>1, <2>2
  <2>4. prog'[sec'].relocs \in Seq(Relocations) BY <2>3 DEF T
  <2> QED BY <2>4
<1>4. \A k \in DOMAIN code' : k \in Nat \X Nat /\ Passed(k)' /\ ~ Waits(k)'
  <2> TAKE k \in DOMAIN code'
  <2>1. k \in Nat \X Nat /\ Passed(k) BY DEF WalkOK
  <2>2. Passed(k)' BY <2>1 DEF Passed, NextSection, WalkOK
  <2>3. ~ Waits(k)' BY <1>2 DEF Waits
  <2> QED BY <2>1, <2>2, <2>3
<1> QED BY <1>1, <1>2, <1>3, <1>4 DEF WalkOK

\* The walk to the next relocation: what it writes, it writes here, or it
\* puts the relocation on the list.
Writes == \E op, imm : code' = Write(at, op, imm)

LEMMA AdvanceWalks ==
  ASSUME InputOK, WalkOK, Walking, Advance, uleb' \in Nat,
         \/ lo' = lo /\ (code' = code \/ Writes)
         \/ lo' = <<at>> \o lo /\ Rel.type = "lo" /\ code' = code
  PROVE  /\ InputOK' /\ WalkOK' /\ Grown /\ UNCHANGED input
         /\ \A k \in Relocs : Passed(k)' <=> Passed(k) \/ k = Here
         /\ \A k \in Relocs : Waits(k) => Waits(k)'
<1>1. UNCHANGED input /\ UNCHANGED <<span, prog, value>> /\ InputOK' BY InputKept DEF Advance, input
<1>2. UNCHANGED <<sec, unresolved>> /\ at' = at + 1 /\ sec \in Nat \ {0} /\ at \in Nat \ {0}
  BY DEF Advance, WalkOK
<1>3. at <= Len(prog[sec].relocs) /\ Len(prog[sec].relocs) \in Nat /\ sec \in 1 .. Len(prog) BY HereFacts
<1>4. \A k \in Relocs : Passed(k)' <=> Passed(k) \/ k = Here
  <2> TAKE k \in Relocs
  <2>1. k[1] \in Nat /\ k[2] \in Nat /\ k = <<k[1], k[2]>>
    <3>1. k[1] \in 1 .. Len(prog) /\ k[2] \in 1 .. Len(prog[k[1]].relocs) /\ k = <<k[1], k[2]>>
      BY RelocFacts
    <3> QED BY <3>1
  <2> QED BY <1>2, <2>1 DEF Passed, Here
<1>5. lo' \in Seq(Nat)
  <2>1. lo \in Seq(Nat) /\ <<at>> \in Seq(Nat) BY <1>2 DEF WalkOK
  <2>2. <<at>> \o lo \in Seq(Nat) BY <2>1
  <2> QED BY <2>1, <2>2
<1>6. /\ \A n \in 1 .. Len(lo') : lo'[n] \in 1 .. at' - 1 /\ prog'[sec'].relocs[lo'[n]].type = "lo"
      /\ \A m, n \in 1 .. Len(lo') : lo'[m] = lo'[n] => m = n
      /\ \A i : (\E n \in 1 .. Len(lo) : lo[n] = i) => \E n \in 1 .. Len(lo') : lo'[n] = i
      /\ \A n \in 1 .. Len(lo') : lo'[n] = at \/ \E m \in 1 .. Len(lo) : lo'[n] = lo[m]
      /\ lo' = lo => \A n \in 1 .. Len(lo') : lo'[n] # at
  <2>1. lo \in Seq(Nat) /\ Len(lo) \in Nat BY DEF WalkOK
  <2>2. /\ \A n \in 1 .. Len(lo) : lo[n] \in 1 .. at - 1 /\ prog[sec].relocs[lo[n]].type = "lo"
        /\ \A m, n \in 1 .. Len(lo) : lo[m] = lo[n] => m = n
    BY DEF WalkOK
  <2>3. CASE lo' = lo BY <1>1, <1>2, <2>1, <2>2, <2>3
  <2>4. CASE lo' = <<at>> \o lo /\ Rel.type = "lo"
    <3>1. /\ Len(lo') = Len(lo) + 1 /\ lo'[1] = at
          /\ \A n \in 2 .. Len(lo) + 1 : lo'[n] = lo[n - 1]
      <4>1. <<at>> \in Seq(Nat) /\ Len(<<at>>) = 1 /\ <<at>>[1] = at BY <1>2
      <4>2. Len(<<at>> \o lo) = Len(lo) + 1 BY <2>1, <4>1
      <4>3. \A n \in 1 .. Len(lo) + 1 :
              (<<at>> \o lo)[n] = IF n <= 1 THEN <<at>>[n] ELSE lo[n - 1]
        BY <2>1, <4>1
      <4>4. 1 \in 1 .. Len(lo) + 1 /\ \A n \in 2 .. Len(lo) + 1 : n \in 1 .. Len(lo) + 1 /\ ~(n <= 1)
        BY <2>1
      <4> QED BY <2>4, <4>1, <4>2, <4>3, <4>4
    <3>2. \A n \in 1 .. Len(lo') : n = 1 \/ (n \in 2 .. Len(lo) + 1 /\ n - 1 \in 1 .. Len(lo))
      BY <2>1, <3>1
    <3>3. \A n \in 1 .. Len(lo') : lo'[n] \in 1 .. at' - 1 /\ prog'[sec'].relocs[lo'[n]].type = "lo"
      BY <1>1, <1>2, <2>2, <2>4, <3>1, <3>2 DEF Rel
    <3>4. \A m, n \in 1 .. Len(lo') : lo'[m] = lo'[n] => m = n
      <4>1. \A n \in 2 .. Len(lo) + 1 : n - 1 \in 1 .. Len(lo) /\ lo'[n] = lo[n - 1] /\ lo'[n] # at
        <5> TAKE n \in 2 .. Len(lo) + 1
        <5>1. n - 1 \in 1 .. Len(lo) /\ lo'[n] = lo[n - 1] BY <2>1, <3>1
        <5>2. lo[n - 1] \in 1 .. at - 1 BY <2>2, <5>1
        <5> QED BY <1>2, <5>1, <5>2
      <4> TAKE m, n \in 1 .. Len(lo')
      <4>2. CASE m = 1 \/ n = 1 BY <3>1, <3>2, <4>1, <4>2
      <4>3. CASE m # 1 /\ n # 1
        <5>1. m \in 2 .. Len(lo) + 1 /\ n \in 2 .. Len(lo) + 1 BY <3>2, <4>3
        <5>2. lo'[m] = lo'[n] => m - 1 = n - 1 BY <2>2, <4>1, <5>1
        <5> QED BY <5>1, <5>2
      <4> QED BY <4>2, <4>3
    <3>5. \A n \in 1 .. Len(lo) : n + 1 \in 1 .. Len(lo') /\ n + 1 \in 2 .. Len(lo) + 1 /\ (n + 1) - 1 = n
      BY <2>1, <3>1
    <3>6. \A n \in 1 .. Len(lo) : lo'[n + 1] = lo[n] BY <3>1, <3>5
    <3>7. \A i : (\E n \in 1 .. Len(lo) : lo[n] = i) => \E n \in 1 .. Len(lo') : lo'[n] = i
      BY <3>5, <3>6
    <3>8. \A n \in 1 .. Len(lo') : lo'[n] = at \/ \E m \in 1 .. Len(lo) : lo'[n] = lo[m]
      BY <3>1, <3>2
    <3>9. Len(lo') # Len(lo) BY <2>1, <3>1
    <3> QED BY <3>3, <3>4, <3>7, <3>8, <3>9
  <2> QED BY <2>3, <2>4
<1>7. \A k \in Relocs : Waits(k) => Waits(k)' BY <1>2, <1>6 DEF Waits
<1>8. \A k \in DOMAIN code : k \in Nat \X Nat /\ Passed(k) /\ ~ Waits(k) /\ k # Here
  <2> TAKE k \in DOMAIN code
  <2>1. k \in Nat \X Nat /\ Passed(k) /\ ~ Waits(k) BY DEF WalkOK
  <2> QED BY <1>2, <2>1 DEF Passed, Here
<1>9. /\ Grown
      /\ \A k \in DOMAIN code' : k \in DOMAIN code \/ (k = Here /\ lo' = lo)
  BY <1>8 DEF Writes, Write, Grown, Here
<1>10. \A k \in DOMAIN code' : k \in Nat \X Nat /\ Passed(k)' /\ ~ Waits(k)'
  <2> TAKE k \in DOMAIN code'
  <2>1. CASE k \in DOMAIN code
    <3>1. k \in Nat \X Nat /\ Passed(k) /\ ~ Waits(k) /\ k # Here BY <1>8, <2>1
    <3>2. Passed(k)' BY <1>2, <3>1 DEF Passed
    <3>3. ~ Waits(k)'
      <4>1. SUFFICES ASSUME sec' = k[1], NEW n \in 1 .. Len(lo'), lo'[n] = k[2] PROVE FALSE
        BY DEF Waits
      <4>2. k = <<k[1], k[2]>> BY <3>1
      <4>3. k[2] # at BY <1>2, <3>1, <4>1, <4>2 DEF Here
      <4>4. PICK m \in 1 .. Len(lo) : lo'[n] = lo[m] BY <1>6, <4>1, <4>3
      <4> QED BY <1>2, <3>1, <4>1, <4>4 DEF Waits
    <3> QED BY <3>1, <3>2, <3>3
  <2>2. CASE k = Here /\ lo' = lo BY <1>2, <1>6, <2>2 DEF Here, Passed, Waits
  <2> QED BY <1>9, <2>1, <2>2
<1>11. WalkOK'
  BY <1>1, <1>2, <1>3, <1>5, <1>6, <1>10 DEF WalkOK
<1> QED BY <1>1, <1>4, <1>7, <1>9, <1>11

\* What has to be shown of a step to the next relocation.
LEMMA AdvanceDone ==
  ASSUME InputOK, WalkOK, AllDone, Keeps, NEW here \in Relocs,
         \A k \in Relocs : Passed(k)' <=> Passed(k) \/ k = here,
         \A k \in Relocs : Waits(k) => Waits(k)',
         TableOK',
         IsHigh(here) => HighDone(here)',
         At(here).type = "lo" => Waits(here)',
         At(here).type = "sub" => SubDone(here)',
         uleb' # 0 => (sec <= Len(prog) /\ at = uleb + 1 /\ prog[sec].relocs[uleb].type = "set")',
         \A j \in Relocs : (Passed(j) \/ j = here) /\ At(j).type = "set" =>
            j = <<sec', uleb'>> \/ \E k \in Relocs : UlebOf(j, k)
  PROVE  AllDone'
<1>1. Relocs' = Relocs /\ UNCHANGED <<span, prog, value>> BY InputKept DEF Keeps
<1>2. \A k : At(k)' = At(k) /\ (IsHigh(k)' <=> IsHigh(k)) BY InputKept DEF Keeps
<1>3. HighsDone'
  <2>1. \A k \in Relocs : Passed(k) /\ IsHigh(k) => HighDone(k)' BY HighStays DEF AllDone, HighsDone
  <2> QED BY <1>1, <1>2, <2>1 DEF HighsDone
<1>4. LowsDone'
  <2>1. \A k \in Relocs : Passed(k) /\ At(k).type = "lo" => Waits(k) \/ LowDone(k)
    BY DEF AllDone, LowsDone
  <2>2. \A k \in Relocs : LowDone(k) => LowDone(k)' BY LowStays DEF AllDone
  <2> QED BY <1>1, <1>2, <2>1, <2>2 DEF LowsDone
<1>5. \A k \in Relocs : Passed(k)' /\ At(k)'.type = "sub" => SubDone(k)'
  <2>1. \A k \in Relocs : Passed(k) /\ At(k).type = "sub" => SubDone(k)' BY SubStays DEF AllDone, UlebDone
  <2> QED BY <1>2, <2>1
<1>6. \A j \in Relocs : Passed(j)' /\ At(j)'.type = "set" =>
        j = <<sec', uleb'>> \/ \E k \in Relocs : UlebOf(j, k)'
  <2>1. \A j, k : UlebOf(j, k)' <=> UlebOf(j, k) BY InputKept DEF Keeps
  <2> QED BY <1>2, <2>1
<1>7. UlebDone' BY <1>1, <1>5, <1>6 DEF UlebDone
<1> QED BY <1>3, <1>4, <1>7 DEF AllDone

\* A SET_ULEB128 that waits is followed by what settles it.
LEMMA UlebWaits ==
  ASSUME InputOK, WalkOK, UlebDone, sec <= Len(prog), uleb # 0
  PROVE  at <= Len(prog[sec].relocs) /\ prog[sec].relocs[at].type \in {"set", "sub"}
<1>1. sec \in 1 .. Len(prog)
  <2>1. Len(prog) \in Nat BY DEF InputOK
  <2> QED BY <2>1 DEF WalkOK
<1>2. at = uleb + 1 /\ prog[sec].relocs[uleb].type = "set" BY DEF UlebDone
<1>3. Len(prog[sec].relocs) \in Nat BY <1>1, SectionFacts
<1>4. uleb \in 1 .. Len(prog[sec].relocs) BY <1>2, <1>3 DEF WalkOK
<1>5. NoLoneSet(prog[sec].relocs) BY <1>1 DEF InputOK
<1>6. uleb < Len(prog[sec].relocs) /\ prog[sec].relocs[uleb + 1].type \in {"set", "sub"}
  BY <1>2, <1>4, <1>5 DEF NoLoneSet
<1> QED BY <1>2, <1>3, <1>4, <1>6

-----------------------------------------------------------------------------
(***************************************************************************)
(* The actions.                                                            *)
(***************************************************************************)
\* An error ends the section; nothing is promised any more.
LEMMA FailKeeps ==
  ASSUME InputOK, WalkOK, GotOK', Fail
  PROVE  RelocInv'
<1>1. UNCHANGED <<input, code>> /\ NextSection /\ unresolved' = TRUE BY DEF Fail
<1>2. InputOK' /\ WalkOK' BY <1>1, SectionEnds
<1> QED BY <1>1, <1>2 DEF RelocInv

\* PerformHi, for either kind of relocation and of instruction.
LEMMA HighKeeps ==
  ASSUME RelocInv, Walking, IsHigh(Here), GotOK', NEW absolute \in BOOLEAN,
         PerformHi(Target(Here), absolute),
         \A s \in Symbols : got[s].done => got'[s].done,
         Rel.type = "got" => got'[Rel.sym].done
  PROVE  RelocInv'
<1> DEFINE v == Target(Here)
           x == IF absolute THEN v ELSE Wrap(v - Pc)
           op == IF absolute THEN "lui" ELSE "auipc"
<1>1. InputOK /\ WalkOK /\ (~ unresolved => AllDone) BY DEF RelocInv
<1>2. CASE Fail BY <1>1, <1>2, FailKeeps
<1>3. CASE ~ Fail
  <2>1. /\ span = Space \/ ValidUtype(HighPart(x))
        /\ code' = Write(at, op, HighPart(x))
        /\ RecordHi(v, absolute) /\ Advance /\ UNCHANGED <<lo, uleb>>
    BY <1>3 DEF PerformHi
  <2>2. /\ Here \in Relocs /\ At(Here) = Rel /\ PcOf(Here) = Pc BY <1>1, HereFacts
  <2>3. Writes BY <2>1 DEF Writes
  <2>4. uleb' \in Nat /\ lo' = lo BY <1>1, <2>1 DEF WalkOK
  <2>5. /\ InputOK' /\ WalkOK' /\ Grown /\ UNCHANGED input
        /\ \A k \in Relocs : Passed(k)' <=> Passed(k) \/ k = Here
        /\ \A k \in Relocs : Waits(k) => Waits(k)'
    BY <1>1, <2>1, <2>3, <2>4, AdvanceWalks
  <2>6. SUFFICES ASSUME ~ unresolved PROVE AllDone'
    BY <2>1, <2>5 DEF Advance, RelocInv
  <2>7. AllDone BY <1>1, <2>6
  <2>8. Keeps BY <2>5 DEF Keeps
  <2>9. UNCHANGED <<span, prog, value>> /\ UNCHANGED sec BY <2>1, <2>5, InputKept DEF Advance
  <2>10. PICK here : here = Here OBVIOUS
  <2>11. here \in DOMAIN code' /\ code'[here] = [op |-> op, imm |-> HighPart(x)]
    BY <2>1, <2>10 DEF Write, Here
  <2>12. HiValue(here, op) = x /\ At(here) = Rel /\ PcOf(here) = Pc /\ here \in Relocs
    BY <2>2, <2>10 DEF HiValue
  <2>13. HighDone(here)'
    <3>1. here \in DOMAIN code' /\ code'[here].op = op /\ code'[here].imm = HighPart(HiValue(here, op))
      BY <2>11, <2>12
    <3>2. At(here).type = "got" => got'[At(here).sym].done BY <2>12
    <3>3. span = Space \/ ValidUtype(code'[here].imm) BY <2>1, <2>11
    <3> QED
      BY <2>9, <3>1, <3>2, <3>3 DEF HighDone, HiValue, Target, At, PcOf, ValidUtype, Signed, HighPart, Wrap
  <2>14. TableOK'
    <3>1. Relocs' = Relocs BY <2>5, InputKept
    <3>2. \A a \in DOMAIN hi : \E h \in Relocs : Tells(h, a, hi[a]) BY <2>7 DEF AllDone, TableOK, Tells
    <3>3. /\ DOMAIN hi' = DOMAIN hi \cup {Pc}
          /\ hi'[Pc] = [value |-> x, type |-> Rel.type]
          /\ \A a \in DOMAIN hi : a # Pc => hi'[a] = hi[a]
      BY <2>1 DEF RecordHi
    <3>4. \A a \in DOMAIN hi' : \E h \in Relocs : Tells(h, a, hi[a])'
      <4> TAKE a \in DOMAIN hi'
      <4>1. CASE a = Pc
        <5>1. Passed(here)' BY <2>5, <2>10, <2>12
        <5>2. hi'[a] = [value |-> HiValue(here, op), type |-> At(here).type] /\ code'[here].op = op
          BY <2>11, <2>12, <3>3, <4>1
        <5>3. IsHigh(here) /\ PcOf(here) = a BY <2>10, <2>12, <4>1
        <5>4. Tells(here, a, hi[a])'
          BY <2>9, <5>1, <5>2, <5>3 DEF Tells, IsHigh, At, PcOf, HiValue, Target, Wrap
        <5> QED BY <2>12, <5>4
      <4>2. CASE a # Pc
        <5>1. PICK h \in Relocs : Tells(h, a, hi[a]) BY <3>2, <3>3, <4>2
        <5>2. PICK e : e = hi[a] /\ e = hi'[a] BY <3>3, <4>2
        <5>3. Tells(h, a, e) BY <5>1, <5>2
        <5>4. Tells(h, a, e)' BY <1>1, <2>7, <2>8, <5>3, TellsStays DEF AllDone
        <5>5. Tells(h, a, hi[a])' BY <5>2, <5>4 DEF Tells
        <5> QED BY <5>5
      <4> QED BY <4>1, <4>2
    <3> QED BY <3>1, <3>4 DEF TableOK, Tells
  <2>15. At(here).type \notin {"lo", "set", "sub"} BY <2>10 DEF IsHigh
  <2>16. uleb = 0
    <3>1. ~(uleb # 0 /\ Rel.type \notin {"set", "sub"})
      BY <1>1, <2>7, UlebWaits DEF AllDone, Walking, Rel
    <3> QED BY <2>12, <2>15, <3>1
  <2>17. \A j \in Relocs : (Passed(j) \/ j = here) /\ At(j).type = "set" =>
           j = <<sec', uleb'>> \/ \E k \in Relocs : UlebOf(j, k)
    BY <2>1, <2>7, <2>9, <2>15 DEF AllDone, UlebDone
  <2> QED
    BY <1>1, <2>1, <2>5, <2>7, <2>8, <2>10, <2>12, <2>13, <2>14, <2>15, <2>16, <2>17, AdvanceDone
<1> QED BY <1>2, <1>3

LEMMA PcrelHiKeeps ==
  ASSUME RelocInv, PcrelHi
  PROVE  RelocInv'
<1>1. Walking /\ Rel.type = "hi" /\ UNCHANGED got BY DEF PcrelHi
<1>2. PICK absolute \in BOOLEAN : PerformHi(Target(Here), absolute)
  <2>1. At(Here) = Rel BY <1>1, HereFacts DEF RelocInv
  <2>2. Target(Here) = Wrap(value[Rel.sym] + Rel.add) BY <1>1, <2>1 DEF Target
  <2>3. PerformHi(Target(Here), ZeroPcrelHi(value[Rel.sym])) BY <2>2 DEF PcrelHi
  <2>4. CASE ZeroPcrelHi(value[Rel.sym])
    <3>1. PerformHi(Target(Here), TRUE) BY <2>3, <2>4 DEF PerformHi, RecordHi
    <3> QED BY <3>1
  <2>5. CASE ~ ZeroPcrelHi(value[Rel.sym])
    <3>1. PerformHi(Target(Here), FALSE) BY <2>3, <2>5 DEF PerformHi, RecordHi
    <3> QED BY <3>1
  <2> QED BY <2>4, <2>5
<1>3. GotOK' /\ \A s \in Symbols : got[s].done => got'[s].done
  <2>1. UNCHANGED input BY DEF PcrelHi, PerformHi, Fail, Advance, input
  <2>2. UNCHANGED value BY <2>1, InputKept
  <2> QED BY <1>1, <2>2 DEF RelocInv, GotOK
<1>4. IsHigh(Here) BY <1>1, HereFacts DEF RelocInv, IsHigh
<1> QED BY <1>1, <1>2, <1>3, <1>4, HighKeeps

\* The GOT entry is filled even when the relocation is then refused.
LEMMA GotHiKeeps ==
  ASSUME RelocInv, GotHi
  PROVE  RelocInv'
<1>1. Walking /\ Rel.type = "got" /\ got' = [got EXCEPT ![Rel.sym] = GotAfter(Rel.sym)] BY DEF GotHi
<1>2. InputOK /\ WalkOK /\ GotOK BY DEF RelocInv
<1>3. At(Here) = Rel /\ Rel \in Relocations BY <1>1, <1>2, HereFacts
<1>4. Rel.sym \in Symbols BY <1>3 DEF Relocations
<1>5. UNCHANGED value
  <2>1. UNCHANGED input BY DEF GotHi, PerformHi, Fail, Advance, input
  <2> QED BY <2>1, InputKept
<1>6. value \in [Symbols -> Addresses] BY <1>2 DEF InputOK
<1>7. got \in [Symbols -> [done : BOOLEAN, val : Addresses]] BY <1>2 DEF GotOK
<1>8. /\ GotAfter(Rel.sym) \in [done : BOOLEAN, val : Addresses]
      /\ GotAfter(Rel.sym).done /\ GotAfter(Rel.sym).val = value[Rel.sym]
  <2>1. CASE got[Rel.sym].done BY <1>2, <1>4, <1>7, <2>1 DEF GotAfter, GotOK
  <2>2. CASE ~ got[Rel.sym].done BY <1>4, <1>6, <2>2 DEF GotAfter
  <2> QED BY <2>1, <2>2
<1>9. GotOK'
  <2>1. got' \in [Symbols -> [done : BOOLEAN, val : Addresses]] BY <1>1, <1>4, <1>7, <1>8
  <2>2. \A s \in Symbols : got'[s].done => got'[s].val = value[s]
    BY <1>1, <1>2, <1>4, <1>7, <1>8 DEF GotOK
  <2> QED BY <1>5, <2>1, <2>2 DEF GotOK
<1>10. (\A s \in Symbols : got[s].done => got'[s].done) /\ got'[Rel.sym].done
  BY <1>1, <1>4, <1>7, <1>8
<1>11. CASE Fail BY <1>2, <1>9, <1>11, FailKeeps
<1>12. CASE ~ Fail
  <2>1. Target(Here) = GotAddr[Rel.sym] BY <1>1, <1>3 DEF Target
  <2>2. PerformHi(Target(Here), ZeroPcrelHi(GotAddr[Rel.sym])) BY <1>12, <2>1 DEF GotHi
  <2>3. PICK absolute \in BOOLEAN : PerformHi(Target(Here), absolute)
    <3>1. CASE ZeroPcrelHi(GotAddr[Rel.sym])
      <4>1. PerformHi(Target(Here), TRUE) BY <2>2, <3>1 DEF PerformHi, RecordHi
      <4> QED BY <4>1
    <3>2. CASE ~ ZeroPcrelHi(GotAddr[Rel.sym])
      <4>1. PerformHi(Target(Here), FALSE) BY <2>2, <3>2 DEF PerformHi, RecordHi
      <4> QED BY <4>1
    <3> QED BY <3>1, <3>2
  <2>4. IsHigh(Here) BY <1>1, <1>3 DEF IsHigh
  <2> QED BY <1>1, <1>9, <1>10, <2>3, <2>4, HighKeeps
<1> QED BY <1>11, <1>12

\* The actions that leave the GOT alone and do not fail.
LEMMA GotStays ==
  ASSUME GotOK, UNCHANGED <<input, got>>
  PROVE  GotOK' /\ \A s \in Symbols : got[s].done => got'[s].done
<1>1. UNCHANGED value BY InputKept
<1> QED BY <1>1 DEF GotOK

LEMMA PcrelLoKeeps ==
  ASSUME RelocInv, PcrelLo
  PROVE  RelocInv'
<1>1. Walking /\ Rel.type = "lo" /\ UNCHANGED got BY DEF PcrelLo
<1>2. InputOK /\ WalkOK /\ GotOK /\ (~ unresolved => AllDone) BY DEF RelocInv
<1>3. UNCHANGED input BY DEF PcrelLo, Fail, Advance, input
<1>4. GotOK' /\ \A s \in Symbols : got[s].done => got'[s].done BY <1>1, <1>2, <1>3, GotStays
<1>5. CASE Fail BY <1>2, <1>4, <1>5, FailKeeps
<1>6. CASE ~ Fail
  <2>1. lo' = <<at>> \o lo /\ Advance /\ UNCHANGED <<hi, uleb, code>> BY <1>6 DEF PcrelLo
  <2>2. uleb' \in Nat BY <1>2, <2>1 DEF WalkOK
  <2>3. /\ InputOK' /\ WalkOK' /\ Grown
        /\ \A k \in Relocs : Passed(k)' <=> Passed(k) \/ k = Here
        /\ \A k \in Relocs : Waits(k) => Waits(k)'
    BY <1>1, <1>2, <2>1, <2>2, AdvanceWalks
  <2>4. SUFFICES ASSUME ~ unresolved PROVE AllDone'
    BY <1>4, <2>1, <2>3 DEF Advance, RelocInv
  <2>5. AllDone BY <1>2, <2>4
  <2>6. Keeps BY <1>3, <1>4, <2>3 DEF Keeps
  <2>7. TableOK' BY <1>2, <2>1, <2>5, <2>6, TableStays DEF AllDone
  <2>8. PICK here : here = Here OBVIOUS
  <2>9. here \in Relocs /\ At(here) = Rel BY <1>1, <1>2, <2>8, HereFacts
  <2>10. Waits(here)'
    <3>1. lo \in Seq(Nat) /\ at \in Nat BY <1>2 DEF WalkOK
    <3>2. <<at>> \in Seq(Nat) /\ Len(<<at>>) = 1 /\ <<at>>[1] = at BY <3>1
    <3>3. Len(lo) \in Nat /\ Len(lo') = 1 + Len(lo) /\ lo'[1] = at BY <2>1, <3>1, <3>2
    <3>4. 1 \in 1 .. Len(lo') BY <3>3
    <3>5. sec' = sec BY <2>1 DEF Advance
    <3> QED BY <2>8, <3>3, <3>4, <3>5 DEF Waits, Here
  <2>11. uleb = 0 BY <1>1, <1>2, <2>5, UlebWaits DEF AllDone, Walking, Rel
  <2>12. At(here).type \notin {"hi", "got", "set", "sub"} /\ ~ IsHigh(here) BY <1>1, <2>9 DEF IsHigh
  <2>13. sec' = sec BY <2>1 DEF Advance
  <2>14. \A j \in Relocs : (Passed(j) \/ j = here) /\ At(j).type = "set" =>
           j = <<sec', uleb'>> \/ \E k \in Relocs : UlebOf(j, k)
    BY <2>1, <2>5, <2>12, <2>13 DEF AllDone, UlebDone
  <2> QED
    BY <1>2, <2>1, <2>3, <2>5, <2>6, <2>7, <2>8, <2>9, <2>10, <2>11, <2>12, <2>14, AdvanceDone
<1> QED BY <1>5, <1>6

LEMMA SetKeeps ==
  ASSUME RelocInv, SetUleb128
  PROVE  RelocInv'
<1>1. Walking /\ Rel.type = "set" /\ UNCHANGED got BY DEF SetUleb128
<1>2. InputOK /\ WalkOK /\ GotOK /\ (~ unresolved => AllDone) BY DEF RelocInv
<1>3. UNCHANGED input BY DEF SetUleb128, Fail, Advance, input
<1>4. GotOK' /\ \A s \in Symbols : got[s].done => got'[s].done BY <1>1, <1>2, <1>3, GotStays
<1>5. CASE Fail BY <1>2, <1>4, <1>5, FailKeeps
<1>6. CASE ~ Fail
  <2>1. uleb = 0 /\ uleb' = at /\ Advance /\ UNCHANGED <<hi, lo, code>> BY <1>6 DEF SetUleb128
  <2>2. uleb' \in Nat BY <1>2, <2>1 DEF WalkOK
  <2>3. /\ InputOK' /\ WalkOK' /\ Grown
        /\ \A k \in Relocs : Passed(k)' <=> Passed(k) \/ k = Here
        /\ \A k \in Relocs : Waits(k) => Waits(k)'
    BY <1>1, <1>2, <2>1, <2>2, AdvanceWalks
  <2>4. SUFFICES ASSUME ~ unresolved PROVE AllDone'
    BY <1>4, <2>1, <2>3 DEF Advance, RelocInv
  <2>5. AllDone BY <1>2, <2>4
  <2>6. Keeps BY <1>3, <1>4, <2>3 DEF Keeps
  <2>7. TableOK' BY <1>2, <2>1, <2>5, <2>6, TableStays DEF AllDone
  <2>8. PICK here : here = Here OBVIOUS
  <2>9. here \in Relocs /\ At(here) = Rel BY <1>1, <1>2, <2>8, HereFacts
  <2>10. At(here).type \notin {"hi", "got", "lo", "sub"} /\ ~ IsHigh(here) BY <1>1, <2>9 DEF IsHigh
  <2>11. (sec <= Len(prog) /\ at = uleb + 1 /\ prog[sec].relocs[uleb].type = "set")'
    <3>1. UNCHANGED <<prog, sec>> /\ at' = at + 1 BY <1>3, <2>1, InputKept DEF Advance
    <3> QED BY <1>1, <2>1, <3>1 DEF Walking, Rel
  <2>12. \A j \in Relocs : (Passed(j) \/ j = here) /\ At(j).type = "set" =>
           j = <<sec', uleb'>> \/ \E k \in Relocs : UlebOf(j, k)
    <3>1. sec' = sec BY <2>1 DEF Advance
    <3>2. here = <<sec', uleb'>> BY <2>1, <2>8, <3>1 DEF Here
    <3>3. \A j \in Relocs : j # <<sec, uleb>>
      <4> TAKE j \in Relocs
      <4>1. j[2] \in 1 .. Len(prog[j[1]].relocs) BY <1>2, RelocFacts
      <4> QED BY <2>1, <4>1
    <3> QED BY <2>5, <3>2, <3>3 DEF AllDone, UlebDone
  <2> QED
    BY <1>2, <2>3, <2>5, <2>6, <2>7, <2>8, <2>9, <2>10, <2>11, <2>12, AdvanceDone
<1> QED BY <1>5, <1>6

LEMMA SubKeeps ==
  ASSUME RelocInv, SubUleb128
  PROVE  RelocInv'
<1> DEFINE set == prog[sec].relocs[uleb]
           x == Wrap(value[set.sym] - value[Rel.sym] + set.add)
<1>1. Walking /\ Rel.type = "sub" /\ UNCHANGED got BY DEF SubUleb128
<1>2. InputOK /\ WalkOK /\ GotOK /\ (~ unresolved => AllDone) BY DEF RelocInv
<1>3. UNCHANGED input BY DEF SubUleb128, Fail, Advance, input
<1>4. GotOK' /\ \A s \in Symbols : got[s].done => got'[s].done BY <1>1, <1>2, <1>3, GotStays
<1>5. CASE Fail BY <1>2, <1>4, <1>5, FailKeeps
<1>6. CASE ~ Fail
  <2>1. /\ uleb # 0 /\ set.off = Rel.off /\ code' = Write(at, "uleb", x)
        /\ uleb' = 0 /\ Advance /\ UNCHANGED <<hi, lo>>
    BY <1>6 DEF SubUleb128
  <2>2. Writes BY <2>1 DEF Writes
  <2>3. /\ InputOK' /\ WalkOK' /\ Grown
        /\ \A k \in Relocs : Passed(k)' <=> Passed(k) \/ k = Here
        /\ \A k \in Relocs : Waits(k) => Waits(k)'
    BY <1>1, <1>2, <2>1, <2>2, AdvanceWalks
  <2>4. SUFFICES ASSUME ~ unresolved PROVE AllDone'
    BY <1>4, <2>1, <2>3 DEF Advance, RelocInv
  <2>5. AllDone BY <1>2, <2>4
  <2>6. Keeps BY <1>3, <1>4, <2>3 DEF Keeps
  <2>7. TableOK' BY <1>2, <2>1, <2>5, <2>6, TableStays DEF AllDone
  <2>8. PICK here : here = Here OBVIOUS
  <2>9. here \in Relocs /\ At(here) = Rel BY <1>1, <1>2, <2>8, HereFacts
  <2>10. At(here).type \notin {"hi", "got", "lo", "set"} /\ ~ IsHigh(here) BY <1>1, <2>9 DEF IsHigh
  <2>11. PICK j \in Relocs : j = <<sec, uleb>> /\ At(j) = set /\ UlebOf(j, here)
    <3>1. at = uleb + 1 /\ set.type = "set" BY <2>1, <2>5 DEF AllDone, UlebDone
    <3>2. sec \in 1 .. Len(prog) /\ at \in 1 .. Len(prog[sec].relocs) BY <1>1, <1>2, HereFacts
    <3>3. uleb \in 1 .. Len(prog[sec].relocs) BY <1>2, <2>1, <3>1, <3>2 DEF WalkOK
    <3>4. <<sec, uleb>> \in Relocs /\ At(<<sec, uleb>>) = set BY <3>2, <3>3, RelocAt
    <3>5. UlebOf(<<sec, uleb>>, here) BY <1>1, <2>1, <2>8, <2>9, <3>1, <3>4 DEF UlebOf, Here
    <3> QED BY <3>4, <3>5
  <2>12. SubDone(here)'
    <3>1. here \in DOMAIN code' /\ code'[here].imm = x BY <2>1, <2>8 DEF Write, Here
    <3>2. /\ value[At(j).sym] \in Int /\ value[At(here).sym] \in Int /\ At(j).add \in Int
      <4>1. At(j) \in Relocations /\ At(here) \in Relocations BY <1>2, <2>9, RelocFacts
      <4>2. value \in [Symbols -> Addresses] /\ Addresses \subseteq Int
        BY <1>2, WordsAssumption DEF InputOK, Addresses
      <4> QED BY <4>1, <4>2 DEF Relocations
    <3>3. x = Wrap(value[At(j).sym] + At(j).add - value[At(here).sym])
      <4>1. value[At(j).sym] - value[At(here).sym] + At(j).add
              = value[At(j).sym] + At(j).add - value[At(here).sym]
        BY <3>2
      <4> QED BY <2>9, <2>11, <4>1
    <3>4. UNCHANGED <<prog, value>> /\ Relocs' = Relocs /\ UlebOf(j, here)' BY <1>3, <2>11, InputKept
    <3>5. (code[here].imm = Wrap(value[At(j).sym] + At(j).add - value[At(here).sym]))'
      BY <3>1, <3>3, <3>4 DEF At, Wrap
    <3> QED BY <3>1, <3>4, <3>5 DEF SubDone
  <2>13. \A i \in Relocs : (Passed(i) \/ i = here) /\ At(i).type = "set" =>
           i = <<sec', uleb'>> \/ \E k \in Relocs : UlebOf(i, k)
    BY <2>5, <2>9, <2>10, <2>11 DEF AllDone, UlebDone
  <2> QED
    BY <1>2, <2>1, <2>3, <2>5, <2>6, <2>7, <2>8, <2>9, <2>10, <2>12, <2>13, AdvanceDone
<1> QED BY <1>5, <1>6

\* The value kept for a high part leads, from its pc or from zero, to the
\* address that the pair is to give.
LEMMA LeadsToWanted ==
  ASSUME InputOK, NEW h \in Relocs, NEW k \in Relocs, NEW op,
         At(h).type = "got" => At(k).add = 0
  PROVE  LET v == HiValue(h, op)
             base == IF op = "lui" THEN 0 ELSE PcOf(h)
         IN  /\ v \in Int /\ v = Wrap(v) /\ base \in Int /\ At(k).add \in Int
             /\ Wrap(base + v + At(k).add) = Wanted(h, k)
<1> DEFINE T == Target(h)
           a == At(k).add
           v == HiValue(h, op)
           base == IF op = "lui" THEN 0 ELSE PcOf(h)
<1>1. At(h) \in Relocations /\ At(k) \in Relocations BY RelocFacts
<1>2. Addresses \subseteq Int BY WordsAssumption DEF Addresses
<1>3. value[At(h).sym] \in Int /\ GotAddr[At(h).sym] \in Addresses /\ At(h).add \in Int /\ a \in Int
  BY <1>1, <1>2, WordsAssumption DEF InputOK, Relocations
<1>4. PcOf(h) \in Int
  <2>1. prog[h[1]].base \in Nat /\ At(h).off \in Nat BY <1>1, RelocFacts DEF Relocations
  <2>2. prog[h[1]].base + At(h).off \in Int BY <2>1
  <2> QED BY <1>2, <2>2, WrapFacts DEF PcOf
<1>5. T \in Addresses
  <2>1. value[At(h).sym] + At(h).add \in Int BY <1>3
  <2> QED BY <1>3, <2>1, WrapFacts DEF Target
<1>6. T \in Int /\ Wrap(T) = T BY <1>2, <1>5, WrapFacts
<1>7. Wrap(T + a) = Wanted(h, k)
  <2>1. CASE At(h).type = "got"
    <3>1. T = GotAddr[At(h).sym] /\ Wanted(h, k) = T /\ a = 0 BY <2>1 DEF Target, Wanted
    <3>2. T + a = T BY <1>6, <3>1
    <3> QED BY <1>6, <3>1, <3>2
  <2>2. CASE At(h).type # "got"
    <3> DEFINE y == value[At(h).sym] + At(h).add
    <3>1. y \in Int BY <1>3
    <3>2. T = Wrap(y) /\ Wanted(h, k) = Wrap(y + a) BY <2>2 DEF Target, Wanted
    <3>3. Wrap(Wrap(y) + a) = Wrap(y + a) BY <1>3, <3>1, WrapSum
    <3> QED BY <3>2, <3>3
  <2> QED BY <2>1, <2>2
<1> HIDE DEF T, a
<1>8. CASE op = "lui"
  <2>1. v = T /\ base = 0 BY <1>8 DEF HiValue, T
  <2>2. base + v + a = T + a BY <1>3, <1>6, <2>1
  <2> QED BY <1>3, <1>6, <1>7, <2>1, <2>2 DEF a
<1>9. CASE op # "lui"
  <2> DEFINE p == PcOf(h)
  <2>1. v = Wrap(T - p) /\ base = p BY <1>9 DEF HiValue, T
  <2>2. T - p \in Int /\ p \in Int BY <1>4, <1>6
  <2>3. v \in Int /\ v \in Addresses BY <1>2, <2>1, <2>2, WrapFacts
  <2>4. Wrap(v) = v BY <2>3, WrapFacts
  <2> HIDE DEF p, v, base
  <2>5. Wrap(Wrap(T - p) + (p + a)) = Wrap((T - p) + (p + a))
    <3>1. p + a \in Int BY <1>3, <2>2
    <3> QED BY <2>2, <3>1, WrapSum
  <2>6. base + v + a = v + (p + a) /\ (T - p) + (p + a) = T + a BY <1>3, <1>6, <2>1, <2>2, <2>3
  <2>7. Wrap(base + v + a) = Wanted(h, k) BY <1>7, <2>1, <2>5, <2>6
  <2> QED BY <1>3, <2>1, <2>2, <2>3, <2>4, <2>7 DEF a, v, base
<1> QED BY <1>8, <1>9

\* riscv_resolve_pcrel_lo_relocs writes a low part that completes a pair.
LEMMA LowWritten ==
  ASSUME InputOK, WalkOK, HighsDone, TableOK, ~ Dangerous, lo # << >>, sec <= Len(prog),
         NEW low, low = <<sec, lo[1]>>, low \in Relocs,
         UNCHANGED input, code' = Write(lo[1], "lo", LowImm(hi[LoAt].value + LoRel.add)),
         Grown, UNCHANGED <<sec, at>>
  PROVE  LowDone(low)'
<1>1. At(low) = LoRel BY DEF At, LoRel
<1>2. LoAt \in DOMAIN hi BY DEF Dangerous
<1>3. PICK h \in Relocs : Tells(h, LoAt, hi[LoAt]) BY <1>2 DEF TableOK, Tells
<1>4. HighDone(h) /\ h \in DOMAIN code /\ code'[h] = code[h]
  BY <1>3 DEF Tells, HighsDone, HighDone, Grown
<1> DEFINE op == code[h].op
           v == HiValue(h, op)
           base == IF op = "lui" THEN 0 ELSE PcOf(h)
<1>5. hi[LoAt].value = v /\ hi[LoAt].type = At(h).type BY <1>3 DEF Tells
<1>6. At(h).type = "got" => At(low).add = 0 BY <1>1, <1>5 DEF Dangerous
<1>7. /\ v \in Int /\ v = Wrap(v) /\ base \in Int /\ At(low).add \in Int
      /\ Wrap(base + v + At(low).add) = Wanted(h, low)
  <2>1. \A k \in Relocs : (At(h).type = "got" => At(k).add = 0) =>
            /\ v \in Int /\ v = Wrap(v) /\ base \in Int /\ At(k).add \in Int
            /\ Wrap(base + v + At(k).add) = Wanted(h, k)
    BY <1>3, LeadsToWanted
  <2> HIDE DEF v, base
  <2> QED BY <1>6, <2>1
<1>8. HighPart(v) = HighPart(Wrap(v + At(low).add)) BY <1>1, <1>5 DEF Dangerous
<1>9. code[h].imm = HighPart(v) /\ (span = Space \/ ValidUtype(HighPart(v))) BY <1>4 DEF HighDone
<1>10. Wrap(base + Signed(HighPart(v)) + LowImm(v + At(low).add)) = Wrap(base + v + At(low).add)
  <2>1. span \in 1 .. Space BY DEF InputOK
  <2> HIDE DEF v, base
  <2> QED BY <1>7, <1>8, <1>9, <2>1, PairExecuted
<1>11. low \in DOMAIN code' /\ code'[low].imm = LowImm(v + At(low).add)
  BY <1>1, <1>5 DEF Write
<1>12. UNCHANGED <<span, prog, value>> /\ Relocs' = Relocs BY InputKept
<1>13. Executed(h, low)' = Wanted(h, low)
  <2>1. Executed(h, low)' = Wrap(base + Signed(HighPart(v)) + LowImm(v + At(low).add))
    <3>1. code'[h].imm = HighPart(v) /\ code'[h].op = op BY <1>4, <1>9
    <3>2. PcOf(h)' = PcOf(h) BY InputKept
    <3>3. \A z : Signed(z)' = Signed(z) BY InputKept
    <3> HIDE DEF v
    <3> QED BY <1>11, <1>12, <3>1, <3>2 DEF Executed, Signed, Wrap
  <2> QED BY <1>7, <1>10, <2>1
<1>14. PairOf(h, low)'
  <2>1. IsHigh(h)' /\ Wanted(h, low)' = Wanted(h, low) BY <1>3, InputKept DEF Tells
  <2>2. PcOf(h) = AddressOf(At(low).label) BY <1>1, <1>3 DEF Tells, LoAt
  <2>3. (PcOf(h) = AddressOf(At(low).label))' BY <1>12, <2>2 DEF PcOf, AddressOf, At, Wrap
  <2> QED BY <1>13, <2>1, <2>3 DEF PairOf
<1>15. Passed(h)' BY <1>3 DEF Tells, Passed
<1> QED BY <1>11, <1>12, <1>14, <1>15 DEF LowDone

\* The list of low parts without its first, which is written.
LEMMA LowWalks ==
  ASSUME InputOK, WalkOK, sec <= Len(prog), lo # << >>, UNCHANGED <<input, sec, at, uleb, unresolved>>,
         lo' = Tail(lo), NEW imm, code' = Write(lo[1], "lo", imm), NEW low, low = <<sec, lo[1]>>
  PROVE  /\ InputOK' /\ WalkOK' /\ Grown /\ low \in Relocs /\ At(low).type = "lo"
         /\ \A k \in Relocs : Passed(k)' <=> Passed(k)
         /\ \A k \in Relocs : Waits(k) => Waits(k)' \/ k = low
<1>1. UNCHANGED <<span, prog, value>> /\ InputOK' BY InputKept
<1>2. lo \in Seq(Nat) /\ Len(lo) \in Nat /\ Len(lo) > 0 /\ 1 \in 1 .. Len(lo) BY DEF WalkOK
<1>3. /\ lo' \in Seq(Nat) /\ Len(lo') = Len(lo) - 1
      /\ \A n \in 1 .. Len(lo') : lo'[n] = lo[n + 1] /\ n + 1 \in 1 .. Len(lo)
  BY <1>2
<1>4. sec \in Nat \ {0} /\ at \in Nat \ {0} /\ sec \in 1 .. Len(prog)
  <2>1. Len(prog) \in Nat BY DEF InputOK
  <2> QED BY <2>1 DEF WalkOK
<1>5. /\ \A n \in 1 .. Len(lo) : lo[n] \in 1 .. at - 1 /\ prog[sec].relocs[lo[n]].type = "lo"
      /\ \A m, n \in 1 .. Len(lo) : lo[m] = lo[n] => m = n
  BY DEF WalkOK
<1>6. low \in Relocs /\ At(low).type = "lo"
  <2>1. lo[1] \in 1 .. at - 1 /\ prog[sec].relocs[lo[1]].type = "lo" BY <1>2, <1>5
  <2>2. at <= Len(prog[sec].relocs) + 1 /\ Len(prog[sec].relocs) \in Nat
    BY <1>4, SectionFacts DEF WalkOK
  <2>3. lo[1] \in 1 .. Len(prog[sec].relocs) BY <1>4, <2>1, <2>2
  <2> QED BY <1>4, <2>1, <2>3, RelocAt
<1>7. \A k : Passed(k)' <=> Passed(k) BY DEF Passed
<1>8. \A k \in Relocs : Waits(k) => Waits(k)' \/ k = low
  <2> SUFFICES ASSUME NEW k \in Relocs, Waits(k), k # low PROVE Waits(k)'
    OBVIOUS
  <2>1. PICK n \in 1 .. Len(lo) : lo[n] = k[2] /\ k[1] = sec BY DEF Waits
  <2>2. k = <<k[1], k[2]>> BY RelocFacts
  <2>3. n # 1 BY <2>1, <2>2
  <2>4. n - 1 \in 1 .. Len(lo') /\ (n - 1) + 1 = n BY <1>2, <1>3, <2>3
  <2>5. lo'[n - 1] = k[2] BY <1>3, <2>1, <2>4
  <2> QED BY <2>1, <2>4, <2>5 DEF Waits
<1>9. Waits(low) BY <1>2 DEF Waits
<1>10. \A k \in DOMAIN code : k # low BY <1>9 DEF WalkOK
<1>11. Grown /\ DOMAIN code' = DOMAIN code \cup {low} BY <1>10 DEF Grown, Write
<1>12. \A k \in DOMAIN code' : k \in Nat \X Nat /\ Passed(k)' /\ ~ Waits(k)'
  <2> TAKE k \in DOMAIN code'
  <2>1. CASE k \in DOMAIN code
    <3>1. k \in Nat \X Nat /\ Passed(k) /\ ~ Waits(k) BY <2>1 DEF WalkOK
    <3>2. ~ Waits(k)'
      <4>1. SUFFICES ASSUME Waits(k)' PROVE FALSE OBVIOUS
      <4>2. PICK n \in 1 .. Len(lo') : lo'[n] = k[2] /\ k[1] = sec BY <4>1 DEF Waits
      <4> QED BY <1>3, <3>1, <4>2 DEF Waits
    <3> QED BY <1>7, <3>1, <3>2
  <2>2. CASE k = low
    <3>1. lo[1] \in 1 .. at - 1 BY <1>2, <1>5
    <3>2. k \in Nat \X Nat /\ Passed(k) BY <1>4, <2>2, <3>1 DEF Passed
    <3>3. ~ Waits(k)'
      <4>1. SUFFICES ASSUME Waits(k)' PROVE FALSE OBVIOUS
      <4>2. PICK n \in 1 .. Len(lo') : lo'[n] = lo[1] BY <2>2, <4>1 DEF Waits
      <4>3. lo[n + 1] = lo[1] /\ n + 1 \in 1 .. Len(lo) BY <1>3, <4>2
      <4>4. n + 1 = 1 BY <1>2, <1>5, <4>3
      <4> QED BY <4>4
    <3> QED BY <1>7, <3>2, <3>3
  <2> QED BY <1>11, <2>1, <2>2
<1>13. \A n \in 1 .. Len(lo') : lo'[n] \in 1 .. at - 1 /\ prog[sec].relocs[lo'[n]].type = "lo"
  BY <1>3, <1>5
<1>14. \A m, n \in 1 .. Len(lo') : lo'[m] = lo'[n] => m = n
  <2> SUFFICES ASSUME NEW m \in 1 .. Len(lo'), NEW n \in 1 .. Len(lo'), lo'[m] = lo'[n] PROVE m = n
    OBVIOUS
  <2>1. lo[m + 1] = lo[n + 1] /\ m + 1 \in 1 .. Len(lo) /\ n + 1 \in 1 .. Len(lo) BY <1>3
  <2>2. m + 1 = n + 1 BY <1>5, <2>1
  <2> QED BY <2>2
<1>15. WalkOK'
  <2>1. /\ sec \in Nat \ {0} /\ at \in Nat \ {0} /\ uleb \in Nat /\ unresolved \in BOOLEAN
        /\ sec <= Len(prog) => at <= Len(prog[sec].relocs) + 1
    BY DEF WalkOK
  <2> QED BY <1>1, <1>3, <1>12, <1>13, <1>14, <2>1 DEF WalkOK
<1> QED BY <1>1, <1>6, <1>7, <1>8, <1>11, <1>15

LEMMA ResolveKeeps ==
  ASSUME RelocInv, ResolveLo
  PROVE  RelocInv'
<1>1. sec <= Len(prog) /\ at > Len(prog[sec].relocs) /\ UNCHANGED got BY DEF ResolveLo
<1>2. InputOK /\ WalkOK /\ GotOK /\ (~ unresolved => AllDone) BY DEF RelocInv
<1>3. UNCHANGED input BY DEF ResolveLo, Fail, input
<1>4. GotOK' /\ \A s \in Symbols : got[s].done => got'[s].done BY <1>1, <1>2, <1>3, GotStays
<1>5. Relocs' = Relocs /\ (\A k : At(k)' = At(k)) /\ (\A k : IsHigh(k)' <=> IsHigh(k))
      /\ \A j, k : UlebOf(j, k)' <=> UlebOf(j, k)
  BY <1>3, InputKept
<1>6. unresolved \in BOOLEAN /\ sec \in Nat \ {0} /\ at \in Nat \ {0} BY <1>2 DEF WalkOK
<1>7. sec \in 1 .. Len(prog) /\ Len(prog[sec].relocs) \in Nat
  <2>1. Len(prog) \in Nat BY <1>2 DEF InputOK
  <2>2. sec \in 1 .. Len(prog) BY <1>1, <1>6, <2>1
  <2> QED BY <1>2, <2>2, SectionFacts
<1>8. CASE lo = << >>
  <2>1. NextSection /\ UNCHANGED <<code, unresolved>> BY <1>8 DEF ResolveLo
  <2>2. InputOK' /\ WalkOK' BY <1>2, <1>3, <1>6, <2>1, SectionEnds
  <2>3. SUFFICES ASSUME ~ unresolved PROVE AllDone'
    BY <1>4, <2>1, <2>2 DEF RelocInv
  <2>4. AllDone BY <1>2, <2>3
  <2>5. \A k \in Relocs : Passed(k)' <=> Passed(k)
    <3> TAKE k \in Relocs
    <3>1. k[1] \in Nat /\ k[2] \in Nat /\ k[2] >= 1 /\ k[2] <= Len(prog[k[1]].relocs)
      <4>1. k[1] \in 1 .. Len(prog) /\ k[2] \in 1 .. Len(prog[k[1]].relocs) BY <1>2, RelocFacts
      <4>2. Len(prog[k[1]].relocs) \in Nat BY <1>2, <4>1, SectionFacts
      <4> QED BY <4>1, <4>2
    <3>2. sec' = sec + 1 /\ at' = 1 BY <2>1 DEF NextSection
    <3> QED BY <1>1, <1>6, <1>7, <3>1, <3>2 DEF Passed
  <2>6. Keeps BY <1>3, <1>4, <2>1, <2>5 DEF Keeps, Grown
  <2>7. ~ Waits(<<sec, at>>) /\ \A k \in Relocs : ~ Waits(k) BY <1>8 DEF Waits
  <2>8. uleb = 0
    <3>1. ~(at <= Len(prog[sec].relocs)) BY <1>1, <1>6, <1>7
    <3> QED BY <1>1, <1>2, <2>4, <3>1, UlebWaits DEF AllDone
  <2>9. HighsDone'
    <3>1. \A k \in Relocs : Passed(k) /\ IsHigh(k) => HighDone(k)'
      BY <1>2, <2>4, <2>6, HighStays DEF AllDone, HighsDone
    <3> QED BY <1>5, <2>5, <3>1 DEF HighsDone
  <2>10. TableOK' BY <2>1 DEF TableOK, NextSection, None
  <2>11. LowsDone'
    <3>1. \A k \in Relocs : Passed(k) /\ At(k).type = "lo" => LowDone(k)'
      BY <1>2, <2>4, <2>6, <2>7, LowStays DEF AllDone, LowsDone
    <3> QED BY <1>5, <2>5, <3>1 DEF LowsDone
  <2>12. UlebDone'
    <3>1. \A k \in Relocs : Passed(k) /\ At(k).type = "sub" => SubDone(k)'
      BY <2>4, <2>6, SubStays DEF AllDone, UlebDone
    <3>2. \A j \in Relocs : j # <<sec, uleb>>
      <4> TAKE j \in Relocs
      <4>1. j[2] \in 1 .. Len(prog[j[1]].relocs) BY <1>2, RelocFacts
      <4> QED BY <2>8, <4>1
    <3>3. \A j \in Relocs : Passed(j) /\ At(j).type = "set" => \E k \in Relocs : UlebOf(j, k)'
      BY <1>5, <2>4, <3>2 DEF AllDone, UlebDone
    <3>4. uleb' = 0 BY <2>1 DEF NextSection
    <3> QED BY <1>5, <2>5, <3>1, <3>3, <3>4 DEF UlebDone
  <2> QED BY <2>9, <2>10, <2>11, <2>12 DEF AllDone
<1>9. CASE Fail BY <1>2, <1>4, <1>9, FailKeeps
<1>10. CASE lo # << >> /\ ~ Fail
  <2>1. /\ ~ Dangerous /\ lo' = Tail(lo) /\ UNCHANGED <<sec, at, hi, uleb, unresolved>>
        /\ code' = Write(lo[1], "lo", LowImm(hi[LoAt].value + LoRel.add))
    BY <1>10 DEF ResolveLo
  <2>2. PICK low : low = <<sec, lo[1]>> OBVIOUS
  <2>3. /\ InputOK' /\ WalkOK' /\ Grown /\ low \in Relocs /\ At(low).type = "lo"
        /\ \A k \in Relocs : Passed(k)' <=> Passed(k)
        /\ \A k \in Relocs : Waits(k) => Waits(k)' \/ k = low
    <3>1. PICK imm : imm = LowImm(hi[LoAt].value + LoRel.add) OBVIOUS
    <3>2. code' = Write(lo[1], "lo", imm) BY <2>1, <3>1
    <3> QED BY <1>1, <1>2, <1>3, <1>10, <2>1, <2>2, <3>2, LowWalks
  <2>4. SUFFICES ASSUME ~ unresolved PROVE AllDone'
    BY <1>4, <2>1, <2>3 DEF RelocInv
  <2>5. AllDone BY <1>2, <2>4
  <2>6. Keeps BY <1>3, <1>4, <2>3 DEF Keeps
  <2>7. LowDone(low)' BY <1>1, <1>2, <1>3, <1>10, <2>1, <2>2, <2>3, <2>5, LowWritten DEF AllDone
  <2>8. HighsDone'
    <3>1. \A k \in Relocs : Passed(k) /\ IsHigh(k) => HighDone(k)'
      BY <1>2, <2>5, <2>6, HighStays DEF AllDone, HighsDone
    <3> QED BY <1>5, <2>3, <3>1 DEF HighsDone
  <2>9. TableOK' BY <1>2, <2>1, <2>5, <2>6, TableStays DEF AllDone
  <2>10. LowsDone'
    <3>1. \A k \in Relocs : LowDone(k) => LowDone(k)' BY <1>2, <2>5, <2>6, LowStays DEF AllDone
    <3>2. \A k \in Relocs : Passed(k) /\ At(k).type = "lo" => Waits(k)' \/ LowDone(k)'
      BY <2>3, <2>5, <2>7, <3>1 DEF AllDone, LowsDone
    <3> QED BY <1>5, <2>3, <3>2 DEF LowsDone
  <2>11. UlebDone'
    <3>1. \A k \in Relocs : Passed(k) /\ At(k).type = "sub" => SubDone(k)'
      BY <2>5, <2>6, SubStays DEF AllDone, UlebDone
    <3>2. UNCHANGED prog BY <1>3, InputKept
    <3>3. \A j \in Relocs : Passed(j) /\ At(j).type = "set" =>
            j = <<sec', uleb'>> \/ \E k \in Relocs : UlebOf(j, k)'
      BY <1>5, <2>1, <2>5 DEF AllDone, UlebDone
    <3>4. uleb' # 0 => sec' <= Len(prog') /\ at' = uleb' + 1 /\ prog'[sec'].relocs[uleb'].type = "set"
      BY <2>1, <2>5, <3>2 DEF AllDone, UlebDone
    <3> QED BY <1>5, <2>3, <3>1, <3>3, <3>4 DEF UlebDone
  <2> QED BY <2>8, <2>9, <2>10, <2>11 DEF AllDone
<1> QED BY <1>8, <1>9, <1>10

LEMMA NothingKeeps ==
  ASSUME RelocInv, UNCHANGED relocVars
  PROVE  RelocInv'
<1>1. /\ UNCHANGED <<input, got, code, hi, lo, sec, at, uleb, unresolved>>
      /\ UNCHANGED <<span, prog, value>>
  BY DEF relocVars, input
<1>2. InputOK' /\ GotOK' BY <1>1, InputKept, GotStays DEF RelocInv
<1>3. \A k : (Passed(k)' <=> Passed(k)) /\ (Waits(k)' <=> Waits(k)) BY <1>1 DEF Passed, Waits
<1>4. WalkOK' BY <1>1, <1>3 DEF RelocInv, WalkOK
<1>5. SUFFICES ASSUME ~ unresolved PROVE AllDone'
  BY <1>1, <1>2, <1>4 DEF RelocInv
<1>6. InputOK /\ AllDone BY <1>5 DEF RelocInv
<1>7. Keeps BY <1>1, <1>3 DEF Keeps, Grown
<1>8. /\ Relocs' = Relocs /\ (\A k : At(k)' = At(k)) /\ (\A k : IsHigh(k)' <=> IsHigh(k))
      /\ \A j, k : UlebOf(j, k)' <=> UlebOf(j, k)
  BY <1>1, InputKept
<1>9. HighsDone'
  <2>1. \A k \in Relocs : Passed(k) /\ IsHigh(k) => HighDone(k)'
    BY <1>6, <1>7, HighStays DEF AllDone, HighsDone
  <2> QED BY <1>3, <1>8, <2>1 DEF HighsDone
<1>10. TableOK' BY <1>1, <1>6, <1>7, TableStays DEF AllDone
<1>11. LowsDone'
  <2>1. \A k \in Relocs : LowDone(k) => LowDone(k)' BY <1>6, <1>7, LowStays DEF AllDone
  <2> QED BY <1>3, <1>6, <1>8, <2>1 DEF AllDone, LowsDone
<1>12. UlebDone'
  <2>1. \A k \in Relocs : Passed(k) /\ At(k).type = "sub" => SubDone(k)'
    BY <1>6, <1>7, SubStays DEF AllDone, UlebDone
  <2>2. \A j \in Relocs : Passed(j) /\ At(j).type = "set" =>
          j = <<sec', uleb'>> \/ \E k \in Relocs : UlebOf(j, k)'
    BY <1>1, <1>6, <1>8 DEF AllDone, UlebDone
  <2>3. uleb' # 0 => sec' <= Len(prog') /\ at' = uleb' + 1 /\ prog'[sec'].relocs[uleb'].type = "set"
    BY <1>1, <1>6 DEF AllDone, UlebDone
  <2> QED BY <1>3, <1>8, <2>1, <2>2, <2>3 DEF UlebDone
<1> QED BY <1>9, <1>10, <1>11, <1>12 DEF AllDone

LEMMA RelocInitInv == ASSUME RelocInit PROVE RelocInv
<1>1. PICK l \in Linkers : span = l.span /\ prog \in l.programs /\ value \in l.values BY DEF RelocInit
<1>2. InputOK
  <2>1. l.span \in 1 .. Space /\ l.values \subseteq [Symbols -> Addresses] BY LinkersAssumption
  <2>2. prog \in Seq([base : Nat, relocs : Seq(Relocations)]) /\ \A s \in 1 .. Len(prog) : NoLoneSet(prog[s].relocs)
    BY <1>1, LinkersAssumption
  <2> QED BY <1>1, <2>1, <2>2 DEF InputOK
<1>3. /\ sec = 1 /\ at = 1 /\ lo = << >> /\ uleb = 0 /\ unresolved = FALSE
      /\ DOMAIN hi = {} /\ DOMAIN code = {}
      /\ got = [s \in Symbols |-> [done |-> FALSE, val |-> 0]]
  BY DEF RelocInit, None
<1>4. WalkOK
  <2>1. sec <= Len(prog) => at <= Len(prog[sec].relocs) + 1
    <3>1. SUFFICES ASSUME sec <= Len(prog) PROVE Len(prog[sec].relocs) \in Nat BY <1>3
    <3>2. Len(prog) \in Nat BY <1>2 DEF InputOK
    <3>3. sec \in 1 .. Len(prog) BY <1>3, <3>1, <3>2
    <3> QED BY <1>2, <3>3, SectionFacts
  <2>2. lo \in Seq(Nat) /\ Len(lo) = 0 /\ 1 .. Len(lo) = {} BY <1>3
  <2>3. /\ \A n \in 1 .. Len(lo) : lo[n] \in 1 .. at - 1 /\ prog[sec].relocs[lo[n]].type = "lo"
        /\ \A m, n \in 1 .. Len(lo) : lo[m] = lo[n] => m = n
    BY <2>2
  <2>4. sec \in Nat \ {0} /\ at \in Nat \ {0} /\ uleb \in Nat BY <1>3
  <2>5. unresolved \in BOOLEAN BY DEF RelocInit
  <2>6. \A k \in DOMAIN code : k \in Nat \X Nat /\ Passed(k) /\ ~ Waits(k) BY <1>3
  <2> QED BY <2>1, <2>2, <2>3, <2>4, <2>5, <2>6 DEF WalkOK
<1>5. GotOK
  <2>1. 0 \in Addresses BY WordsAssumption DEF Addresses
  <2> QED BY <1>3, <2>1 DEF GotOK
<1>6. \A k \in Relocs : ~ Passed(k)
  <2> TAKE k \in Relocs
  <2>1. k[1] \in 1 .. Len(prog) /\ k[2] \in 1 .. Len(prog[k[1]].relocs) BY <1>2, RelocFacts
  <2> QED BY <1>3, <2>1 DEF Passed
<1>7. AllDone BY <1>3, <1>6 DEF AllDone, HighsDone, TableOK, LowsDone, UlebDone
<1> QED BY <1>2, <1>4, <1>5, <1>7 DEF RelocInv

LEMMA RelocNextInv == ASSUME RelocInv, [RelocNext]_relocVars PROVE RelocInv'
<1>1. CASE PcrelHi BY <1>1, PcrelHiKeeps
<1>2. CASE GotHi BY <1>2, GotHiKeeps
<1>3. CASE PcrelLo BY <1>3, PcrelLoKeeps
<1>4. CASE SetUleb128 BY <1>4, SetKeeps
<1>5. CASE SubUleb128 BY <1>5, SubKeeps
<1>6. CASE ResolveLo BY <1>6, ResolveKeeps
<1>7. CASE Stopped BY <1>7, NothingKeeps DEF Stopped
<1>8. CASE UNCHANGED relocVars BY <1>8, NothingKeeps
<1> QED BY <1>1, <1>2, <1>3, <1>4, <1>5, <1>6, <1>7, <1>8 DEF RelocNext

\* riscv_elf_relocate_section: as long as no error was reported, every
\* relocation behind the walk is applied or waits on the list of low parts,
\* and the table of high parts tells what was written for each.
THEOREM WalkIsRight == RelocSpec => []RelocInv
<1>1. RelocInit => RelocInv BY RelocInitInv
<1>2. RelocInv /\ [RelocNext]_relocVars => RelocInv' BY RelocNextInv
<1> QED BY <1>1, <1>2, PTL DEF RelocSpec

\* All is behind the walk of a program that links.
LEMMA LinkedFacts ==
  ASSUME RelocInv, Linked
  PROVE  AllDone /\ \A k \in Relocs : Passed(k) /\ ~ Waits(k) /\ k # <<sec, uleb>>
<1>1. InputOK /\ WalkOK /\ AllDone BY DEF RelocInv, Linked
<1>2. \A k \in Relocs : Passed(k) /\ ~ Waits(k) /\ k # <<sec, uleb>>
  <2> TAKE k \in Relocs
  <2>1. k[1] \in 1 .. Len(prog) BY <1>1, RelocFacts
  <2>2. Len(prog) \in Nat /\ sec \in Nat /\ sec > Len(prog) BY <1>1 DEF InputOK, WalkOK, Linked
  <2>3. k[1] < sec BY <2>1, <2>2
  <2>4. k[1] # sec BY <2>1, <2>2
  <2> QED BY <2>3, <2>4 DEF Passed, Waits
<1> QED BY <1>1, <1>2

\* riscv_resolve_pcrel_lo_relocs: the two instructions of every pair of a
\* program that links, executed, give the address asked for, in either linker,
\* for all addresses, addends and orders of the relocations.
THEOREM PairsGiveAddresses == RelocSpec => []PairGivesAddress
<1>1. RelocInv => PairGivesAddress
  <2> SUFFICES ASSUME RelocInv, Linked, NEW k \in Relocs, At(k).type = "lo"
               PROVE  \E h \in Relocs : PairOf(h, k)
    BY DEF PairGivesAddress
  <2>1. LowDone(k) BY LinkedFacts DEF AllDone, LowsDone
  <2> QED BY <2>1 DEF LowDone
<1> QED BY <1>1, WalkIsRight, PTL

\* A program that links has every relocation applied, every uleb128 with both
\* of its labels, and every GOT entry in use filled.
THEOREM NothingLeftOut == RelocSpec => []AllApplied
<1>1. RelocInv => AllApplied
  <2> SUFFICES ASSUME RelocInv PROVE AllApplied OBVIOUS
  <2>1. EachApplied
    <3> SUFFICES ASSUME Linked, NEW k \in Relocs, At(k).type # "set" PROVE k \in DOMAIN code
      BY DEF EachApplied
    <3>1. AllDone /\ Passed(k) /\ ~ Waits(k) BY LinkedFacts
    <3>2. At(k).type \in Types BY RelocFacts DEF RelocInv, Relocations
    <3>3. CASE IsHigh(k) BY <3>1, <3>3 DEF AllDone, HighsDone, HighDone
    <3>4. CASE At(k).type = "lo" BY <3>1, <3>4 DEF AllDone, LowsDone, LowDone
    <3>5. CASE At(k).type = "sub" BY <3>1, <3>5 DEF AllDone, UlebDone, SubDone
    <3> QED BY <3>2, <3>3, <3>4, <3>5 DEF Types, IsHigh
  <2>2. UlebPaired
    <3> SUFFICES ASSUME Linked PROVE
          /\ \A k \in Relocs : At(k).type = "sub" => SubDone(k)
          /\ \A j \in Relocs : At(j).type = "set" => \E k \in Relocs : UlebOf(j, k)
      BY DEF UlebPaired, SubDone
    <3> QED BY LinkedFacts DEF AllDone, UlebDone
  <2>3. GotFilled
    <3> SUFFICES ASSUME Linked, NEW k \in Relocs, At(k).type = "got"
                 PROVE  got[At(k).sym].val = value[At(k).sym]
      BY DEF GotFilled
    <3>1. HighDone(k) BY LinkedFacts DEF AllDone, HighsDone, IsHigh
    <3>2. At(k).sym \in Symbols BY RelocFacts DEF RelocInv, Relocations
    <3> QED BY <3>1, <3>2 DEF HighDone, RelocInv, GotOK
  <2> QED BY <2>1, <2>2, <2>3 DEF AllApplied
<1> QED BY <1>1, WalkIsRight, PTL
=============================================================================
