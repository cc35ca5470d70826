---------------------------- MODULE MCRecipients ----------------------------
(***************************************************************************)
(* An instance of Recipients for TLC: a P2WPKH address (dust 294 sat) and  *)
(* a P2WSH address (dust 330 sat); 300 sat is above one dust limit and not *)
(* the other.                                                              *)
(***************************************************************************)
EXTENDS Recipients

CONSTANTS wpkh, wsh

MCDust == [a \in Addresses |-> IF a = wpkh THEN 294 ELSE 330]

=============================================================================
