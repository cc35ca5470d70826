------------------------------ MODULE Recipients ------------------------------
(***************************************************************************)
(* ChooseRecipients and Recipient (liana-gui app/state/spend/step.rs): the *)
(* first step of the spend panel.  The user adds, deletes and edits        *)
(* recipients; each edit re-validates the fields; "Next" (offered by the   *)
(* view only when every recipient is valid) runs apply(), which writes     *)
(* draft.outputs, and moves the panel to the coin step, from which         *)
(* "Previous" comes back.                                                  *)
(*                                                                         *)
(* Field texts are abstracted to what parsing them gives: an address       *)
(* text is Empty, an address of the network, or a text that does not       *)
(* parse (BadText); an amount text is Empty, a number of satoshis (the     *)
(* parse of the BTC string by Amount::from_str_in), or BadText.            *)
(***************************************************************************)
EXTENDS Integers, Sequences, FiniteSets, SequencesExt

CONSTANTS
  Addresses,     \* addresses that parse for the network
  DustValue,     \* [Addresses -> Nat]: script_pubkey().dust_value()
  AmountInputs,  \* amounts in satoshis the user may type
  Empty,         \* model value: an empty text
  BadText,       \* model value: a text that does not parse
  MaxRecipients, \* bound on the number of recipients
  None

ASSUME DustValue \in [Addresses -> Nat] /\ AmountInputs \subseteq Nat

AddressTexts == Addresses \cup {Empty, BadText}
AmountTexts  == AmountInputs \cup {Empty, BadText}

\* form::Value<String>.
Field(texts) == [value : texts, valid : BOOLEAN]
Recipient    == [address : Field(AddressTexts), amount : Field(AmountTexts)]

VARIABLES
  recipients, \* ChooseRecipients.recipients
  outputs,    \* draft.outputs: a map from address to amount
  current     \* the panel's current step: "Recipients" or "Coins"

vars == <<recipients, outputs, current>>

(***************************************************************************)
(* Recipient::amount(): None stands for the Err results.                   *)
(***************************************************************************)
AmountOf(r) ==
  CASE r.amount.value \in {Empty, BadText}                   -> None
    [] r.amount.value = 0                                 -> None
    [] r.address.value \in Addresses
         /\ r.amount.value <= DustValue[r.address.value]   -> None
    [] OTHER                                              -> r.amount.value

\* Recipient::valid().
Valid(r) == /\ r.address.value # Empty /\ r.address.valid
            /\ r.amount.value # Empty  /\ r.amount.valid

NewRecipient == [address |-> [value |-> Empty, valid |-> TRUE],
                 amount  |-> [value |-> Empty, valid |-> TRUE]]

\* Seeded fault: a new address does not re-validate the amount.
EditAddressNoRecheck(r, a) ==
  [r EXCEPT !.address = [value |-> a, valid |-> a \in Addresses \cup {Empty}]]

\* Recipient::update(RecipientEdited(_, "address", a)).
EditAddress(r, a) ==
  LET r1 == [r EXCEPT !.address.value = a]
  IN  CASE a = Empty         -> [r1 EXCEPT !.address.valid = TRUE]
        [] a \in Addresses -> [r1 EXCEPT !.address.valid = TRUE,
                                         !.amount.valid = IF r1.amount.value # Empty
                                                          THEN AmountOf(r1) # None
                                                          ELSE @]
        [] OTHER          -> [r1 EXCEPT !.address.valid = FALSE]

\* Recipient::update(RecipientEdited(_, "amount", v)).
EditAmount(r, v) ==
  LET r1 == [r EXCEPT !.amount.value = v]
  IN  [r1 EXCEPT !.amount.valid = IF v # Empty THEN AmountOf(r1) # None ELSE TRUE]

\* HashMap::insert: a second recipient with one address replaces the first.
MapPut(m, k, v) == [x \in DOMAIN m \cup {k} |-> IF x = k THEN v ELSE m[x]]

RECURSIVE Outputs(_, _)
Outputs(rs, m) ==
  IF rs = <<>> THEN m
  ELSE Outputs(Tail(rs), MapPut(m, Head(rs).address.value, AmountOf(Head(rs))))

\* The total the view shows: the sum of amount().unwrap_or(0).
RECURSIVE ShownTotal(_)
ShownTotal(rs) ==
  IF rs = <<>> THEN 0
  ELSE (IF AmountOf(Head(rs)) = None THEN 0 ELSE AmountOf(Head(rs))) + ShownTotal(Tail(rs))

(***************************************************************************)
(* Actions: ChooseRecipients::update, apply and the panel's moves.         *)
(***************************************************************************)
AddRecipient ==
  /\ current = "Recipients" /\ Len(recipients) < MaxRecipients
  /\ recipients' = Append(recipients, NewRecipient)
  /\ UNCHANGED <<outputs, current>>

DeleteRecipient(i) ==
  /\ current = "Recipients" /\ i \in DOMAIN recipients
  /\ recipients' = RemoveAt(recipients, i)
  /\ UNCHANGED <<outputs, current>>

RecipientEditedAddress(i, a) ==
  /\ current = "Recipients" /\ i \in DOMAIN recipients
  /\ recipients' = [recipients EXCEPT ![i] = EditAddress(@, a)]
  /\ UNCHANGED <<outputs, current>>

RecipientEditedAmount(i, v) ==
  /\ current = "Recipients" /\ i \in DOMAIN recipients
  /\ recipients' = [recipients EXCEPT ![i] = EditAmount(@, v)]
  /\ UNCHANGED <<outputs, current>>

\* Seeded fault: "Next" offered whatever the recipients' validity.
ApplyUnguarded ==
  /\ current = "Recipients"
  /\ outputs' = Outputs(recipients, [a \in {} |-> 0])
  /\ current' = "Coins"
  /\ UNCHANGED recipients

\* "Next": enabled when no recipient is invalid; apply(), then the panel
\* moves on.
Apply ==
  /\ current = "Recipients"
  /\ \A i \in DOMAIN recipients : Valid(recipients[i])
  /\ outputs' = Outputs(recipients, [a \in {} |-> 0])
  /\ current' = "Coins"
  /\ UNCHANGED recipients

Previous ==
  /\ current = "Coins"
  /\ current' = "Recipients"
  /\ UNCHANGED <<recipients, outputs>>

Init ==
  /\ recipients = <<NewRecipient>>
  /\ outputs = [a \in {} |-> 0]
  /\ current = "Recipients"

Next ==
  \/ AddRecipient
  \/ \E i \in 1..MaxRecipients : DeleteRecipient(i)
  \/ \E i \in 1..MaxRecipients, a \in AddressTexts : RecipientEditedAddress(i, a)
  \/ \E i \in 1..MaxRecipients, v \in AmountTexts : RecipientEditedAmount(i, v)
  \/ Apply
  \/ Previous

Spec == Init /\ [][Next]_vars

(***************************************************************************)
(* Properties.                                                             *)
(***************************************************************************)
TypeOK ==
  /\ recipients \in Seq(Recipient) /\ Len(recipients) <= MaxRecipients
  /\ DOMAIN outputs \subseteq Addresses
  /\ \A a \in DOMAIN outputs : outputs[a] \in AmountInputs
  /\ current \in {"Recipients", "Coins"}

\* apply() unwraps Address::from_str and amount() with expect("Checked
\* before"): whatever sequence of edits led there, a recipient that
\* valid() accepts has an address that parses and an amount that amount()
\* accepts, so "Next" never panics.  The amount's flag is set against the
\* address of its time and is only re-validated by some edits.
ValidMeansApplicable ==
  \A i \in DOMAIN recipients :
    Valid(recipients[i]) =>
      recipients[i].address.value \in Addresses /\ AmountOf(recipients[i]) # None

\* The view shows the sum of the recipients' amounts as the amount sent;
\* once apply() has written draft.outputs (and until "Previous"), the
\* outputs carry that total.
OutputsCarryShownTotal ==
  current = "Coins" => SumFunction(outputs) = ShownTotal(recipients)

=============================================================================
