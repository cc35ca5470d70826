----------------------------- MODULE MCCoinOrder -----------------------------
(***************************************************************************)
(* Instances of CoinOrder for TLC: four coins, a timelock of 2 blocks and  *)
(* a tip that moves from 3 to 6, so that coins become equally urgent by    *)
(* the clamp at 0 as well as by sharing a height.                          *)
(***************************************************************************)
EXTENDS CoinOrder

CONSTANTS c1, c2, c3, c4

\* All confirmed: c1 and c2 are alike but for the outpoint.
MCAmount    == [c \in CoinIds |-> CASE c = c1 -> 5 [] c = c2 -> 5 [] c = c3 -> 7 [] c = c4 -> 3]
MCConfirmed == [c \in CoinIds |-> CASE c = c1 -> 1 [] c = c2 -> 1 [] c = c3 -> 2 [] c = c4 -> 3]

\* c4 unconfirmed and smaller than c3, which is mined at the starting tip;
\* c1 and c2 become alike once both are past their timelock.
MCAmountU      == [c \in CoinIds |-> CASE c = c1 -> 7 [] c = c2 -> 7 [] c = c3 -> 6 [] c = c4 -> 3]
MCUnconfirmed  == [c \in CoinIds |-> CASE c = c1 -> 1 [] c = c2 -> 2 [] c = c3 -> 3 [] c = c4 -> None]

=============================================================================
