---------------------------- MODULE MCRelaxHiLo ----------------------------
(* Four links of .text, .text2, .rodata, .got, .data, .sdata and .bss. *)
EXTENDS RelaxHiLo

SizesOf(T, T2, R0, D, S, B) ==
    {<<t, t2, r, 4, d, sd, b>> : t \in T, t2 \in T2, r \in R0, d \in D, sd \in S, b \in B}

O(o, v, n) == [sec |-> o, val |-> v, size |-> n, func |-> FALSE, tpoff |-> 0]
MCSymbols ==
    [ro    |-> O(3, 2, 2),  data  |-> O(5, 0, 3), sdata |-> O(6, 4, 2),
     bss   |-> O(7, 2, 4),  lab   |-> O(1, 0, 0), weak  |-> O(0, 0, 0),
     large |-> O(7, 0, 16), small |-> O(7, 0, 1),
     fun   |-> [O(6, 5, 0) EXCEPT !.func = TRUE],
     near  |-> [O(4, 0, 4) EXCEPT !.tpoff = 3],
     far   |-> [O(4, 0, 4) EXCEPT !.tpoff = 40]]

R(t, s, a, h) == [type |-> t, sym |-> s, add |-> a, hi |-> h]

\* Pairs on data, sdata, bss and rodata, in both orders.
Pairs ==
    [h1 |-> R("HI20", "data", 0, "h1"),  l1 |-> R("LO12", "data", 0, "h1"),
     m1 |-> R("LO12", "data", 2, "h1"),
     h2 |-> R("HI20", "ro", 0, "h2"),    l2 |-> R("LO12", "ro", 1, "h2"),
     p3 |-> R("PCHI", "bss", 0, "p3"),   q3 |-> R("PCLO", "lab", 0, "p3"),
     r3 |-> R("PCLO", "lab", 3, "p3"),
     p4 |-> R("PCHI", "sdata", 0, "p4"), q4 |-> R("PCLO", "lab", 0, "p4"),
     t5 |-> R("TPHI", "near", 0, "t5"),  u5 |-> R("TPADD", "near", 0, "t5"),
     v5 |-> R("TPLO", "near", 2, "t5"),
     t6 |-> R("TPHI", "far", 0, "t6"),   v6 |-> R("TPLO", "far", 0, "t6"),
     h7 |-> R("HI20", "weak", 0, "h7"),  l7 |-> R("LO12", "weak", 0, "h7"),
     p8 |-> R("PCHI", "large", 0, "p8"), q8 |-> R("PCLO", "lab", 0, "p8"),
     r8 |-> R("PCLO", "lab", 15, "p8"),
     h9 |-> R("HI20", "small", 0, "h9"), l9 |-> R("LO12", "small", 0, "h9"),
     f1 |-> R("HI20", "fun", 0, "f1"),   f2 |-> R("LO12", "fun", 0, "f1"),
     k1 |-> R("HI20", "data", 0, "k1"),  k2 |-> R("LO12", "data", 0, "k1")]

MCRelocs == DOMAIN Pairs
MCType   == [r \in MCRelocs |-> Pairs[r].type]
MCSym    == [r \in MCRelocs |-> Pairs[r].sym]
MCAddend == [r \in MCRelocs |-> Pairs[r].add]
MCHi     == [r \in MCRelocs |-> Pairs[r].hi]
MCPaired == [r \in MCRelocs |-> Pairs[r].hi # "k1"]

Bodies(text, text2) == <<text, text2, << >>, << >>, << >>, << >>, << >>>>

\* The default script's __global_pointer$, in two rounds of relaxation.
script ==
    [align |-> <<1, 1, 2, 1, 4, 4, 4>>, reach |-> 16, starts |-> <<8, 8>>,
     body  |-> Bodies(<<"h1", "h2", "l1", "l2", "p3", "m1", "q3", "r3">>,
                      <<"q4", "p4", "t5", "u5", "v5", "t6", "v6", "h7", "l7">>),
     sizes |-> SizesOf(24 .. 27, {28}, {4, 6, 9}, {3, 7}, {6, 10}, {6, 7, 15}),
     cut   |-> <<3, 1, 0, 0, 0, 0, 0>>, nops |-> <<1, 0, 0, 0, 0, 0, 0>>,
     fixedRd |-> {}, gpSec |-> 0, gpOff |-> 0, relro |-> FALSE]

\* An object defines __global_pointer$; a large object at the edge of its reach.
object ==
    [script EXCEPT
       !.align = <<1, 1, 1, 1, 4, 8, 2>>, !.reach = 32,
       !.body  = Bodies(<<"h1", "p8", "l1", "q8", "m1", "r8">>, <<"h7", "l7", "k1", "k2">>),
       !.sizes = SizesOf(24 .. 27, {24}, {4}, {10, 12, 18}, {14, 26}, {20}),
       !.gpSec = 6, !.gpOff = 8]

\* A section aligned to a page comes into reach while the code shrinks.
big ==
    [script EXCEPT
       !.align = <<1, 1, 1, 1, 1, 2, 32>>, !.starts = <<8>>,
       !.body  = Bodies(<<"t5", "u5", "v5", "f1", "f2">>, <<"h9", "l9">>),
       !.sizes = SizesOf({24}, {28}, 0 .. 31, {16}, {12}, {30}),
       !.cut   = <<0, 18, 0, 0, 0, 0, 0>>, !.gpSec = 6, !.gpOff = 2]

\* RELRO: two walks for each trip.
relro == [script EXCEPT !.fixedRd = {"h1"}, !.gpSec = 4, !.gpOff = 2, !.relro = TRUE]

MCLinks == [script |-> script, object |-> object, big |-> big, relro |-> relro]
MCCodeOrMerge == {1, 2}
=============================================================================
