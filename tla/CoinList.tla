------------------------------ MODULE CoinList ------------------------------
(***************************************************************************)
(* What the spend panel's coin list promises (spec 4.5), with no sort      *)
(* algorithm and no daemon: when the panel is opened it shows every coin   *)
(* that is not spent, once, and no other; none comes after a coin with     *)
(* fewer blocks left before its recovery path opens, nor after one as      *)
(* urgent and larger, at the chain tip of the opening.  Between openings   *)
(* the tip moves and coins get spent.                                      *)
(***************************************************************************)
EXTENDS Naturals, Sequences, SequencesExt

CONSTANTS
  CoinIds,        \* the wallet's coins
  Amount,         \* [CoinIds -> Nat]
  BlocksLeft(_, _), \* BlocksLeft(c, tip): blocks before c's recovery path opens
  InitTip         \* the chain tip at the start

VARIABLES
  tip,            \* the chain tip
  spentCoins,     \* coins already spent
  shown           \* the coins the panel lists, in order

\* c may be listed before d when the panel is opened at tip h.
MayPrecede(c, d, h) ==
  \/ BlocksLeft(c, h) < BlocksLeft(d, h)
  \/ BlocksLeft(c, h) = BlocksLeft(d, h) /\ Amount[c] >= Amount[d]

\* The lists the panel may show at tip h with these coins spent.
Listings(h, sp) ==
  {s \in SetToSeqs(CoinIds \ sp) : IsSorted(s, LAMBDA c, d : MayPrecede(c, d, h))}

Init ==
  /\ tip = InitTip
  /\ spentCoins = {}
  /\ shown = <<>>

Tick ==
  /\ tip' = tip + 1
  /\ UNCHANGED <<spentCoins, shown>>

SpendCoin(c) ==
  /\ c \notin spentCoins
  /\ spentCoins' = spentCoins \cup {c}
  /\ UNCHANGED <<tip, shown>>

OpenPanel ==
  /\ shown' \in Listings(tip, spentCoins)
  /\ UNCHANGED <<tip, spentCoins>>

Next == Tick \/ (\E c \in CoinIds : SpendCoin(c)) \/ OpenPanel

Spec == Init /\ [][Next]_<<tip, spentCoins, shown>>

=============================================================================
