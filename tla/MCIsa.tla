-------------------------------- MODULE MCIsa --------------------------------
(***************************************************************************)
(* What a file says it is made for, in small instances of GasOptions.      *)
(***************************************************************************)
EXTENDS GasOptions

-----------------------------------------------------------------------------
(* GasOptions: ISA strings with and without compressed instructions, an E  *)
(* base, strings gas refuses at their start and in their middle; edits     *)
(* that add, remove, imply and conflict.  The second instance has strings  *)
(* of the other width and ABIs of both.                                    *)
Abi(w, f) == [given |-> TRUE, xlen |-> w, float |-> f, rve |-> FALSE]
Isa(w, exts) == [xlen |-> w, exts |-> exts]
Plus(x) == [op |-> "+", ext |-> x]
Minus(x) == [op |-> "-", ext |-> x]

rv32ic == Isa(32, <<"i", "c">>)
rv32id == Isa(32, <<"i", "d">>)
rv32zca == Isa(32, <<"i", "ztso", "zca">>)
rv32e == Isa(32, <<"e">>)
rv64i == Isa(64, <<"i">>)
m2p0 == Isa(0, <<>>)
rv32bad == Isa(32, <<"i", "d", Unknown>>)

Marchs == {rv32ic, rv32zca}
Mabis == {NoAbi, Abi(32, "double")}
IsaArchs == {rv32id, m2p0, rv32bad}
IsaEdits == {<<Plus("d")>>, <<Minus("f")>>, <<Minus("f"), Minus("d")>>, <<Minus("zca")>>,
            <<Minus("c"), Plus("ztso")>>, <<Plus("zcf"), Plus("i")>>}

AbiMabi == {NoAbi, Abi(32, "single"),
            Abi(64, "soft")}
WidthArchs == {rv64i, rv32id, rv32e}
WidthEdits == {<<Plus("zcf")>>, <<Plus("zfinx")>>, <<Minus("c")>>}

MCJobs ==
  {[march |-> Marchs, mabi |-> Mabis, archs |-> IsaArchs, edits |-> IsaEdits, lines |-> 5],
   [march |-> Marchs, mabi |-> AbiMabi, archs |-> WidthArchs, edits |-> WidthEdits, lines |-> 4]}
=============================================================================
