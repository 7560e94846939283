----------------------------- MODULE MCListing -----------------------------
(***************************************************************************)
(* Instances of Listing.  The files from elsewhere have two sections of a  *)
(* few bytes at equal or adjacent addresses: mapping symbols at offset 0   *)
(* and up to two more, labels at some offsets.                             *)
(***************************************************************************)
EXTENDS Listing, FiniteSetsExt

MCOrder == <<"rv32i", "rv32ic">>
Sizes == <<8, 4>>
Vmas == {<<0, 0>>, <<4, 12>>}
Cuts == <<{3, 4}, {2}>>

\* Mapping symbols m of section s: code begins and ends at even offsets, $x
\* stands behind one with an architecture.
WellMade(s, m) ==
    LET behind(o) == Min({y.off : y \in {z \in m : z.off > o}} \cup {Sizes[s]})
    IN /\ \A y \in m : y.name # "d" => y.off % 2 = 0 /\ behind(y.off) % 2 = 0
       /\ \A y \in m : y.name = "x" => \E z \in m : z.name \in Archs /\ z.off < y.off
       /\ behind(-1) % 2 = 0

MapLists(s) ==
    LET with(f, b) == {[off |-> 0, name |-> f]} \cup {[off |-> o, name |-> b[o]] : o \in DOMAIN b}
        all == {with(f, b) : f \in {"d"} \cup Archs,
                             b \in UNION {[c -> {"d", "x"} \cup Archs] : c \in SUBSET Cuts[s]}}
    IN {m \in all : WellMade(s, m)}

\* A label at offset o of a section with mapping symbols m: at the start of
\* an instruction, of a data region or of one of its words.
AtItem(m, o) ==
    LET below == {y \in m : y.off <= o}
    IN \A y \in below : (\A z \in below : z.off <= y.off) =>
          IF y.name = "d" THEN (o - y.off) % 4 = 0 ELSE o % 2 = 0

\* A label in code, or anywhere in data; one at every mapping symbol.
EveryRegion(m, c) ==
    /\ {y.off : y \in m} \subseteq c
    /\ \A o \in c : o % 2 = 0

Layouts(s, jumps, labels, Fit(_, _)) ==
    UNION {{[jumps |-> jumps, syms |-> m \cup {[off |-> o, name |-> l] : o \in c}] :
              c \in {d \in SUBSET labels : Fit(m, d)}, l \in {"f", "l"}} : m \in MapLists(s)}
AllAtItems(m, c) == \A o \in c : AtItem(m, o)
First == Layouts(1, FALSE, {0, 4}, AllAtItems) \cup Layouts(1, TRUE, {0, 2, 4}, EveryRegion)
Second == Layouts(2, FALSE, {2}, AllAtItems) \cup Layouts(2, TRUE, {0, 2}, EveryRegion)

Placed(s, v, m) == {[sec |-> s, val |-> v[s] + y.off, name |-> y.name] : y \in m}
MCObjects ==
    {[sizes |-> Sizes, vma |-> v, jumps |-> p[1].jumps,
      syms |-> Placed(1, v, p[1].syms) \cup Placed(2, v, p[2].syms)] :
        v \in Vmas, p \in {q \in First \X Second : q[1].jumps = q[2].jumps}}
============================================================================
