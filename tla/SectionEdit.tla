---------------------------- MODULE SectionEdit ----------------------------
(***************************************************************************)
(* What shortening the instructions of a section promises, without a word  *)
(* on how bytes are moved.  A section is a run of bytes.  A reloc stands   *)
(* at a byte, a symbol stands for the bytes before it and the bytes it     *)
(* covers.  Relaxation gives bytes up, and bytes that were given up, or    *)
(* NOPs of an alignment directive, are cut out: nothing else disappears,   *)
(* no reloc changes the byte it stands at, and a symbol loses exactly the  *)
(* bytes that were cut.                                                    *)
(***************************************************************************)
EXTENDS Integers, FiniteSets

CONSTANTS
    NoByte,     \* what a reloc that is used up stands at
    Anchors,    \* the relocs
    Labels      \* the symbols

VARIABLES
    text,       \* text[k]: the byte at offset k; no byte occurs twice
    at,         \* at[r]: the byte reloc r applies to, or NoByte
    before,     \* before[l]: the bytes in front of symbol l
    span,       \* span[l]: the bytes symbol l covers
    slack,      \* bytes given up and not yet cut
    nops        \* NOPs of alignment directives

vars == <<text, at, before, span, slack, nops>>

Here == {text[k] : k \in DOMAIN text}

Init ==
    /\ DOMAIN text = 0 .. Cardinality(Here) - 1
    /\ NoByte \notin Here
    /\ DOMAIN at = Anchors /\ \A r \in Anchors : at[r] \in Here \cup {NoByte}
    /\ DOMAIN before = Labels /\ \A l \in Labels : before[l] \subseteq Here
    /\ DOMAIN span = Labels /\ \A l \in Labels : span[l] \subseteq Here \ before[l]
    /\ nops \subseteq Here
    /\ slack = {}

\* Relocs stay at their byte or are used up, and none stands at a byte of S.
StayOff(S) == \A r \in Anchors : at'[r] \in ({at[r]} \ S) \cup {NoByte}

\* Instructions become shorter and give up bytes that no live reloc needs.
Release ==
    /\ slack \subseteq slack'
    /\ slack' \subseteq Here
    /\ DOMAIN at' = Anchors
    /\ StayOff(slack')
    /\ UNCHANGED <<text, before, span, nops>>

\* The c bytes at offset a go, and everything behind them moves down.
Cut(a) ==
    LET c    == Cardinality(DOMAIN text) - Cardinality(DOMAIN text')
        gone == {text[k] : k \in a .. a + c - 1}
    IN /\ c > 0 /\ a + c - 1 \in DOMAIN text
       /\ gone \subseteq slack \cup nops
       /\ DOMAIN at' = Anchors
       /\ StayOff(gone)
       /\ text' = [k \in 0 .. Cardinality(DOMAIN text) - c - 1 |->
                     IF k < a THEN text[k] ELSE text[k + c]]
       /\ before' = [l \in Labels |-> before[l] \ gone]
       /\ span' = [l \in Labels |-> span[l] \ gone]
       /\ slack' = slack \ gone
       /\ nops' = nops \ gone

Next == Release \/ \E a \in DOMAIN text : Cut(a)

Spec == Init /\ [][Next]_vars
=============================================================================
