--------------------------- MODULE MCAmountDisplay ---------------------------
(***************************************************************************)
(* An instance of AmountDisplay for TLC: every amount below 1,200 sat, and *)
(* the amounts on both sides of every place where the rendering changes:   *)
(* the 1,000 and 1,000,000 sat thresholds, each power of ten up to a       *)
(* bitcoin, and the supply limit.                                          *)
(***************************************************************************)
EXTENDS AmountDisplay

Sat(n) == [btc |-> n \div 100000000, sat |-> n % 100000000]

MCAmounts ==
  {Sat(n) : n \in 0..1199}
  \cup {Sat(n) : n \in UNION {{10^k - 1, 10^k, 10^k + 1, 5 * 10^k} : k \in 3..8}}
  \cup {Sat(1234567), Sat(12345678), Sat(123456789),
       [btc |-> 10, sat |-> 0], [btc |-> 20999999, sat |-> 99999999],
       [btc |-> 21000000, sat |-> 0]}

=============================================================================
