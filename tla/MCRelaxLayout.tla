--------------------------- MODULE MCRelaxLayout ---------------------------
(***************************************************************************)
(* Three input sections in two output sections.  Lengths are scaled down:  *)
(* JAL reaches 24 parcels, so that calls lie at, inside and beyond the     *)
(* edge of the range and an alignment of 8 parcels matters.                *)
(***************************************************************************)
EXTENDS RelaxLayout

MCOutSec   == <<1, 1, 2>>
MCSecAlign == <<2, 8, 4>>
MCOutAlign == <<8, 4>>
MCRvc      == <<TRUE, TRUE, FALSE>>
MCCalls    == {"c1", "c2", "c3", "c4"}
MCHis      == {"h1"}
MCPads     == {"p2"}
MCLabels   == {"l1", "l2"}
MCPadTo    == [p \in MCPads |-> 4]
MCSecOf    == [x \in MCCalls \cup MCHis \cup MCPads \cup MCLabels |->
                 CASE x \in {"h1", "l1", "c1"} -> 1
                   [] x \in {"c2", "c4", "p2", "l2"} -> 2
                   [] x = "c3" -> 3]
MCTarget   == [c \in MCCalls |-> IF c \in {"c1", "c4"} THEN "l2" ELSE "l1"]
MCRd       == [c \in MCCalls |-> CASE c = "c1" -> "x0" [] c = "c2" -> "ra" [] OTHER -> "other"]
MCStarts   == <<8, 6>>

\* The layout of the sections before any relaxation.
RECURSIVE EndOf(_, _)
EndOf(sz, s) == IF s = 0 THEN MCStarts[1] ELSE PlaceAt(s, EndOf(sz, s - 1)) + sz[s]

VmaOf(sz)  == [o \in {1, 2} |->
                 LET s == CHOOSE s \in 1 .. 3 : MCOutSec[s] = o /\ First(s)
                 IN OpenAt(s, EndOf(sz, s - 1))]
OoffOf(sz) == [s \in 1 .. 3 |-> PlaceAt(s, EndOf(sz, s - 1)) - VmaOf(sz)[MCOutSec[s]]]

\* g1..g4: code between the items; a2: addend of the alignment directive.
Object(g1, g2, g3, g4, a2) ==
    LET sz == <<2 + g1 + 4, 8 + g2 + a2 + g3, g4 + 4>>
    IN [off  |-> [x \in Points |->
                    CASE x = "h1" -> 0
                      [] x = "l1" -> 2
                      [] x = "c1" -> 2 + g1
                      [] x = "c2" -> 0
                      [] x = "c4" -> 4
                      [] x = "p2" -> 8 + g2
                      [] x = "l2" -> 8 + g2 + a2 + g3
                      [] x = "c3" -> g4],
        size |-> sz,
        pad  |-> [p \in Pads |-> a2],
        vma  |-> VmaOf(sz),
        ooff |-> OoffOf(sz)]

MCObjects == {Object(g1, g2, g3, g4, a2) :
                g1 \in {0, 1, 3}, g2 \in {0, 1, 3}, g3 \in {0, 2, 5, 7, 8, 9}, g4 \in {0, 2}, a2 \in {2, 3}}
=============================================================================
