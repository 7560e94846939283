---------------------------- MODULE MCGasFixups ----------------------------
(* Files of up to three instructions in two sections; stores of low parts   *)
(* may refer to local labels as well.                                       *)
EXTENDS GasFixups
============================================================================
