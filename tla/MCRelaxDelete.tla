--------------------------- MODULE MCRelaxDelete ---------------------------
(***************************************************************************)
(* One section: code, two address halves next to each other, a call        *)
(* assembled with norelax, an alignment directive, a call right behind it, *)
(* code, a call at the end.  Symbols begin and end at the boundaries be-   *)
(* tween them, and global ones stand twice in elf_sym_hashes.              *)
(***************************************************************************)
EXTENDS RelaxDelete

\* Lengths of the items, for gaps of g and h parcels and a pad of p.
Items(g, h, p) == <<g, 2, 2, 4, p, 4, h, 4>>
NItems == 8

Bounds(it) ==
    LET at[n \in 0 .. NItems] == IF n = 0 THEN 0 ELSE at[n - 1] + it[n]
    IN at

\* Symbols that cover one item, or all up to the end, or nothing.
MCLocals  == {<<"loc", b, b + 1>> : b \in 1 .. 7} \cup {<<"loc", b, 8>> : b \in {0, 2, 5}}
               \cup {<<"loc", 0, b>> : b \in {2, 4, 5}} \cup {<<"loc", 6, 6>>}
MCGlobals == {<<"glo", 2, 6>>, <<"ver", 3, 3>>, <<"glo", 8, 8>>}
MCHashes  == <<<<"glo", 2, 6>>, <<"ver", 3, 3>>, <<"glo", 8, 8>>, <<"ver", 3, 3>>>>
MCVersioned == {<<"ver", 3, 3>>}
MCHashLists == [w \in BOOLEAN |-> IF w THEN MCHashes \o <<<<"glo", 2, 6>>>> ELSE MCHashes]
MCNops == 100 .. 110

R(t, o, a) == [type |-> t, off |-> o, add |-> a]

Object(g, h, p) ==
    LET b == Bounds(Items(g, h, p))
    IN [contents |-> [k \in 0 .. b[NItems] - 1 |-> IF b[4] <= k /\ k < b[5] THEN 100 + k - b[4] ELSE k],
        relocs   |-> <<R("HI20", b[1], 0), R("RELAX", b[1], 0),
                       R("HI20", b[2], 0), R("RELAX", b[2], 0),
                       R("CALL", b[3], 0),
                       R("ALIGN", b[4], p),
                       R("CALL", b[5], 0), R("RELAX", b[5], 0),
                       R("CALL", b[7], 0), R("RELAX", b[7], 0)>>,
        sym      |-> [l \in Labels |-> [val |-> b[l[2]], size |-> b[l[3]] - b[l[2]]]]]

MCObjects == {Object(0, 2, 3), Object(1, 0, 2)}
=============================================================================
