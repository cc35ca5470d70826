---------------------------- MODULE AmountDisplay ----------------------------
(***************************************************************************)
(* The amount widgets of the UI library (ui/src/component/amount.rs):      *)
(* amount_with_size and unconfirmed_amount_with_size render a bitcoin      *)
(* amount as the text format!("{:.8}", a.to_btc()) cut in three groups    *)
(* (everything up to the second decimal, then two groups of three digits); *)
(* split_digits greys the zeros a group starts with, and the digits that   *)
(* follow are bold (plain for an unconfirmed amount).  A group above a     *)
(* threshold is rendered whole, without the greying.                       *)
(*                                                                         *)
(* The property is about the conversion, so the text is a sequence of      *)
(* characters here.  Sizes, spacing, colours other than grey and the       *)
(* "BTC" suffix are layout and are left out.                               *)
(***************************************************************************)
EXTENDS Integers, Sequences, SequencesExt

CONSTANTS
  Amounts   \* amounts a view may pass to the widget

\* An amount is its whole bitcoins and the satoshis beyond them (TLC's
\* integers do not reach 21e14 satoshis).  At most MAX_MONEY: below 2^53
\* satoshis the f64 of to_btc() is within half a satoshi of the amount,
\* and {:.8} prints its exact decimals.
ASSUME Amounts \subseteq [btc : 0..21000000, sat : 0..99999999]

\* a.to_sat() < n, for n at most one bitcoin.
SatBelow(a, n) == a.btc = 0 /\ a.sat < n

VARIABLE
  amount    \* the amount the widget is rendering

DigitChar == <<"0", "1", "2", "3", "4", "5", "6", "7", "8", "9">>
Char == {DigitChar[i] : i \in 1..10} \cup {"."}
Styles == {"grey", "bold", "plain"}
\* A Row's text widget: its text and how it is drawn.
Segment == [text : Seq(Char), style : Styles]

\* Decimal digits of n, without leading zeros.
RECURSIVE Digits(_)
Digits(n) == IF n < 10 THEN <<DigitChar[n + 1]>>
             ELSE Digits(n \div 10) \o <<DigitChar[(n % 10) + 1]>>

\* The w low decimal digits of n, zero-padded.
PadDigits(n, w) == [i \in 1..w |-> DigitChar[((n \div 10^(w - i)) % 10) + 1]]

\* format!("{:.8}", a.to_btc()).
FormatBtc(a) == Digits(a.btc) \o <<".">> \o PadDigits(a.sat, 8)

\* split_digits' prefixes, tried in this order.
SplitPrefixes == << <<"0", ".", "0", "0">>, <<"0", ".", "0">>, <<"0", ".">>,
                    <<"0", "0", "0">>, <<"0", "0">>, <<"0">> >>

Emphasis(bold) == IF bold THEN "bold" ELSE "plain"
Whole(s, bold) == <<[text |-> s, style |-> Emphasis(bold)]>>

\* Seeded fault: the rest is pushed even when it is empty (push for
\* push_maybe).
SplitDigitsPushEmpty(s, bold) ==
  LET hits == {i \in DOMAIN SplitPrefixes : IsPrefix(SplitPrefixes[i], s)}
  IN  IF hits = {} THEN Whole(s, bold)
      ELSE LET p == SplitPrefixes[Min(hits)]
           IN  <<[text |-> p, style |-> "grey"]>>
               \o Whole(SubSeq(s, Len(p) + 1, Len(s)), bold)

\* split_digits(s, size, bold): the first prefix s starts with is grey, the
\* rest (if any) emphasised; no prefix, the whole group emphasised.
SplitDigits(s, bold) ==
  LET hits == {i \in DOMAIN SplitPrefixes : IsPrefix(SplitPrefixes[i], s)}
      p    == SplitPrefixes[Min(hits)]
      rest == SubSeq(s, Len(p) + 1, Len(s))
  IN  IF hits = {} THEN Whole(s, bold)
      ELSE <<[text |-> p, style |-> "grey"]>>
           \o (IF rest = <<>> THEN <<>> ELSE Whole(rest, bold))

\* Seeded fault: the thousands group is greyed up to 1_000_000 inclusive.
AmountRowOffByOne(a, bold) ==
  LET sats == FormatBtc(a)
      n    == Len(sats)
  IN  SplitDigits(SubSeq(sats, 1, n - 6), bold)
      \o (IF a.btc = 0 /\ a.sat <= 1000000 THEN SplitDigits(SubSeq(sats, n - 5, n - 3), bold)
          ELSE Whole(SubSeq(sats, n - 5, n - 3), bold))
      \o (IF SatBelow(a, 1000) THEN SplitDigits(SubSeq(sats, n - 2, n), bold)
          ELSE Whole(SubSeq(sats, n - 2, n), bold))

\* amount_with_size (bold = TRUE) and unconfirmed_amount_with_size
\* (bold = FALSE): sats[0..len-6], sats[len-6..len-3], sats[len-3..].
AmountRow(a, bold) ==
  LET sats == FormatBtc(a)
      n    == Len(sats)
  IN  SplitDigits(SubSeq(sats, 1, n - 6), bold)
      \o (IF SatBelow(a, 1000000) THEN SplitDigits(SubSeq(sats, n - 5, n - 3), bold)
          ELSE Whole(SubSeq(sats, n - 5, n - 3), bold))
      \o (IF SatBelow(a, 1000) THEN SplitDigits(SubSeq(sats, n - 2, n), bold)
          ELSE Whole(SubSeq(sats, n - 2, n), bold))

\* unconfirmed_amount_with_size: the same cut, nothing bold.
UnconfirmedAmountRow(a) == AmountRow(a, FALSE)

Init == amount \in Amounts

\* A view re-renders with another amount (a balance or a coin changed).
Render(a) == amount' = a

Next == \E a \in Amounts : Render(a)

Spec == Init /\ [][Next]_amount

(***************************************************************************)
(* Properties.                                                             *)
(***************************************************************************)
\* Every text of the row is a non-empty run of digits and dots (push_maybe
\* keeps an empty rest out), and assert!(sats.len() >= 9) holds.
TypeOK ==
  /\ amount \in Amounts
  /\ Len(FormatBtc(amount)) >= 9
  /\ \A row \in {AmountRow(amount, TRUE), UnconfirmedAmountRow(amount)} :
       \A i \in DOMAIN row : row[i] \in Segment /\ row[i].text # <<>>

\* The row as one character per position, each with its style.
Styled(row) ==
  FlattenSeq([i \in DOMAIN row |->
                [j \in DOMAIN row[i].text |-> <<row[i].text[j], row[i].style>>]])

\* Reference: the formatted text, its leading zeros and dot grey and every
\* character from the first significant digit on emphasised.
Reference(a, bold) ==
  LET s == FormatBtc(a)
      lead == Max({k \in 0..Len(s) : \A j \in 1..k : s[j] \in {"0", "."}})
  IN  [j \in 1..Len(s) |-> <<s[j], IF j <= lead THEN "grey" ELSE Emphasis(bold)>>]

\* Across the 1_000 and 1_000_000 thresholds and the prefix list, the three
\* groups and split_digits together show the text of format!("{:.8}") in
\* order, greying exactly the insignificant leading zeros: the emphasised
\* digits read as the amount in satoshis.
DisplayMatchesReference ==
  /\ Styled(AmountRow(amount, TRUE)) = Reference(amount, TRUE)
  /\ Styled(UnconfirmedAmountRow(amount)) = Reference(amount, FALSE)

=============================================================================
