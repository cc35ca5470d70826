------------------------------ MODULE CoinOrder ------------------------------
(***************************************************************************)
(* ChooseCoins::new (liana-gui app/state/spend/step.rs): the coin list the *)
(* spend panel shows.  The wallet's coins come back from the daemon in     *)
(* some order; coins with spend_info are dropped; the rest are sorted with *)
(* slice::sort_by and a comparator built on remaining_sequence (the blocks *)
(* left before a coin's recovery path opens).  The chain tip moves and     *)
(* coins get spent between two openings of the panel.                      *)
(***************************************************************************)
EXTENDS Integers, Sequences, FiniteSets, SequencesExt

CONSTANTS
  CoinIds,       \* the wallet's coins (outpoints)
  CoinAmount,    \* [CoinIds -> Nat]: coin.amount in satoshis
  CoinHeight,    \* [CoinIds -> Nat \cup {None}]: coin.block_height, None if unconfirmed
  Timelock,      \* the timelock of the main descriptor's recovery path
  InitHeight,    \* the chain tip when the model starts
  MaxHeight,     \* bound on the chain tip
  None

ASSUME CoinAmount \in [CoinIds -> Nat]
ASSUME \A c \in CoinIds : CoinHeight[c] = None \/ CoinHeight[c] \in 0..InitHeight
ASSUME Timelock \in Nat /\ InitHeight <= MaxHeight

VARIABLES
  blockheight, \* the chain tip (cache.blockheight)
  spent,       \* coins whose spend_info is set
  listed,      \* the order in which list_coins returns the coins
  coins,       \* ChooseCoins.coins, without the selection flags (all false)
  sortedAt     \* the blockheight argument of the last ChooseCoins::new

vars == <<blockheight, spent, listed, coins, sortedAt>>

\* Coin as the daemon returns it (daemon::model::Coin, the fields read here).
CoinOf(c) == [id |-> c, amount |-> CoinAmount[c], height |-> CoinHeight[c],
              spent |-> c \in spent]
Coin == [id : CoinIds, amount : Nat, height : Nat \cup {None}, spent : BOOLEAN]
\* A coin offered for selection: its spend_info is None.
Candidate == [id : CoinIds, amount : Nat, height : Nat \cup {None}, spent : {FALSE}]

(***************************************************************************)
(* remaining_sequence (daemon/model.rs, not under src/): the timelock for  *)
(* an unconfirmed coin, else the blocks left before height + timelock,     *)
(* 0 once the tip is past it.                                              *)
(***************************************************************************)
RemainingSequence(c, bh, tl) ==
  IF c.height = None THEN tl
  ELSE IF bh > c.height + tl THEN 0 ELSE c.height + tl - bh

\* Ord for Option<i32>: None before every Some.
HeightLess(x, y) == \/ x = None /\ y # None
                    \/ x # None /\ y # None /\ x < y

\* is_less(a, b) of the sort_by closure: compare(a, b) == Less.
CoinLess(a, b, bh, tl) ==
  IF RemainingSequence(a, bh, tl) = RemainingSequence(b, bh, tl)
  THEN b.amount < a.amount                 \* bigger amount first
  ELSE HeightLess(a.height, b.height)      \* smallest block height first

(***************************************************************************)
(* slice::sort_by on short slices (the std merge sort below its insertion  *)
(* threshold): for i from len-2 down to 0, insert_head(v[i..]) moves v[i]  *)
(* right past every element that is_less than it.                          *)
(***************************************************************************)
RECURSIVE InsertHead(_, _, _, _)
InsertHead(x, s, bh, tl) ==
  IF s # <<>> /\ CoinLess(Head(s), x, bh, tl)
  THEN <<Head(s)>> \o InsertHead(x, Tail(s), bh, tl)
  ELSE <<x>> \o s

RECURSIVE SortBy(_, _, _)
SortBy(s, bh, tl) ==
  IF s = <<>> THEN s ELSE InsertHead(Head(s), SortBy(Tail(s), bh, tl), bh, tl)

\* Seeded fault: the spend_info filter is left out.
ChooseCoinsNoFilter(list, tl, bh) == SortBy(list, bh, tl)

\* ChooseCoins::new(coins, timelock, blockheight).
ChooseCoinsNew(list, tl, bh) ==
  SortBy(SelectSeq(list, LAMBDA c : ~c.spent), bh, tl)

(***************************************************************************)
(* Environment and the one operation.                                      *)
(***************************************************************************)
NewBlock ==
  /\ blockheight < MaxHeight
  /\ blockheight' = blockheight + 1
  /\ UNCHANGED <<spent, listed, coins, sortedAt>>

\* A transaction spending c is seen: its spend_info is set.
Spend(c) ==
  /\ c \notin spent
  /\ spent' = spent \cup {c}
  /\ UNCHANGED <<blockheight, listed, coins, sortedAt>>

\* Seeded fault: the coins are sorted at the height of the previous opening.
OpenStaleHeight ==
  /\ coins' = ChooseCoinsNew([i \in DOMAIN listed |-> CoinOf(listed[i])],
                             Timelock, sortedAt)
  /\ sortedAt' = blockheight
  /\ UNCHANGED <<blockheight, spent, listed>>

\* The spend panel is opened: list_coins, then ChooseCoins::new.
Open ==
  /\ coins' = ChooseCoinsNew([i \in DOMAIN listed |-> CoinOf(listed[i])],
                             Timelock, blockheight)
  /\ sortedAt' = blockheight
  /\ UNCHANGED <<blockheight, spent, listed>>

Init ==
  /\ blockheight = InitHeight
  /\ spent = {}
  /\ listed \in SetToSeqs(CoinIds)
  /\ coins = <<>>
  /\ sortedAt = InitHeight

Next ==
  \/ NewBlock
  \/ \E c \in CoinIds : Spend(c)
  \/ Open

Spec == Init /\ [][Next]_vars

(***************************************************************************)
(* Properties.                                                             *)
(***************************************************************************)
TypeOK ==
  /\ blockheight \in InitHeight..MaxHeight
  /\ spent \subseteq CoinIds
  /\ listed \in SetToSeqs(CoinIds)
  /\ coins \in Seq(Candidate)
  /\ sortedAt \in InitHeight..MaxHeight

\* The order spec 4.5 asks for: a before b unless b has fewer blocks left
\* before its recovery path opens, or as few and a larger amount.
NotAfter(a, b, bh) ==
  LET ra == RemainingSequence(a, bh, Timelock)
      rb == RemainingSequence(b, bh, Timelock)
  IN  ra < rb \/ (ra = rb /\ a.amount >= b.amount)

\* Spec 4.5: whatever order list_coins returned, the list ChooseCoins::new
\* sorts never puts a coin after one with more blocks left, nor after a
\* smaller one that is as urgent.
OrderedBySpec == IsSorted(coins, LAMBDA a, b : NotAfter(a, b, sortedAt))

\* Blocks left before coin c's recovery path opens, at tip h.
BlocksLeft(c, h) == RemainingSequence([height |-> CoinHeight[c]], h, Timelock)

\* The panel's list as the coins' outpoints.
ShownIds == [i \in DOMAIN coins |-> coins[i].id]

CoinListSpec == INSTANCE CoinList
  WITH tip <- blockheight, spentCoins <- spent, shown <- ShownIds,
       Amount <- CoinAmount, InitTip <- InitHeight

\* Spec 4.5 as a whole: whatever order list_coins returned, every opening of
\* the panel (ChooseCoins::new after list_coins) lists exactly the unspent
\* coins, each once, ordered by the blocks left and then by amount at the
\* tip of that opening: the sort_by closure, the spend_info filter and the
\* insertion sort together implement CoinList.
CoinListRefined == CoinListSpec!Spec

=============================================================================
