---------------------------- MODULE MCSpendDraft ----------------------------
(***************************************************************************)
(* An instance of SpendDraft for TLC: one coin that pays a recipient      *)
(* alone, a P2WPKH (22-byte script) and a P2WSH (34-byte script) address, *)
(* one fee rate besides the empty field, and one message in flight.       *)
(***************************************************************************)
EXTENDS SpendDraft

CONSTANTS c1, wpkh, wsh

MCCoinAmount == [c \in CoinIds |-> 1000]
MCScriptLen  == [a \in Addresses |-> IF a = wpkh THEN 22 ELSE 34]

=============================================================================
