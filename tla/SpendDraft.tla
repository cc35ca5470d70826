------------------------------ MODULE SpendDraft ------------------------------
(***************************************************************************)
(* The spend panel of liana-gui (app/state/spend/step.rs): the steps       *)
(* ChooseRecipients, ChooseCoins and SaveSpend share a TransactionDraft;   *)
(* "Next" runs the current step's apply() on the draft, moves on and runs *)
(* the next step's load(); "Previous" moves back.  ChooseCoins keeps the   *)
(* fee-rate field and amount_left_to_select, and Generate asks the daemon  *)
(* for a PSBT (create_spend_tx) in a Command whose result, Message::Psbt,  *)
(* comes back later; an Ok result returns a Command that sends "Next".     *)
(* Every message goes to the step that is current when it is delivered.    *)
(*                                                                         *)
(* The panel itself (CreateSpendPanel::update in spend/mod.rs) is not      *)
(* under src/ and is modelled from the spec.  The recipients step is       *)
(* reduced to its result: each recipient is valid, as a pair of address    *)
(* and amount, or Invalid (Recipients checks how valid() is kept).         *)
(***************************************************************************)
EXTENDS Integers, FiniteSets, Sequences, Bags, FiniteSetsExt, BagsExt

CONSTANTS
  CoinIds,         \* the unspent coins ChooseCoins::new lists
  CoinAmount,      \* [CoinIds -> Nat]
  Addresses,       \* recipient addresses
  ScriptLen,       \* [Addresses -> Nat]: script_pubkey().len()
  RecipientAmounts,\* amounts in satoshis of valid recipients
  FeerateInputs,   \* fee rates (sat/vB) the user may type
  Empty, BadText,  \* model values: an empty text, a text that does not parse
  Invalid,         \* model value: a recipient valid() refuses
  MaxPending,      \* bound on the messages in flight
  None

ASSUME CoinAmount \in [CoinIds -> Nat] /\ ScriptLen \in [Addresses -> Nat]
ASSUME FeerateInputs \subseteq Nat /\ RecipientAmounts \subseteq Nat \ {0}

Steps == <<"Recipients", "Coins", "Save">>

\* A PSBT is abstracted to what create_spend_tx was asked for.
Psbt == [inputs : SUBSET CoinIds, outputs : UNION {[A -> RecipientAmounts] : A \in SUBSET Addresses},
         feerate : Nat]
\* The messages an iced Command may deliver later.
Msg  == [kind : {"Psbt"}, req : Psbt] \cup [kind : {"Next"}]

VARIABLES
  current,     \* CreateSpendPanel.current (an index into Steps)
  recipients,  \* ChooseRecipients.recipients: each a valid pair or Invalid
  outputs,     \* draft.outputs
  inputs,      \* draft.inputs (the coins' outpoints)
  draftPsbt,   \* draft.generated
  selected,    \* the coins whose flag in ChooseCoins.coins is set
  coinRecips,  \* ChooseCoins.recipients (from load)
  feerate,     \* ChooseCoins.feerate: [value, valid]
  leftToSelect,\* ChooseCoins.amount_left_to_select
  generated,   \* ChooseCoins.generated
  warning,     \* ChooseCoins.warning is set
  spend,       \* SaveSpend.spend: None or the SpendTx built by load()
  pending,     \* bag of messages in flight
  panicked     \* None, or the step whose expect()/unwrap() aborted the GUI

vars == <<current, recipients, outputs, inputs, draftPsbt, selected, coinRecips,
          feerate, leftToSelect, generated, warning, spend, pending, panicked>>

EmptyMap == [a \in {} |-> 0]

(***************************************************************************)
(* ChooseCoins::amount_left_to_select: the transaction size is 8 + script *)
(* length per recipient, 8 + 34 for the change output, 11 of overhead and *)
(* 50 per selected coin; None unless the fee-rate text parses as a u64.    *)
(***************************************************************************)
\* str::parse::<u64>(): Empty and BadText do not parse.
ParseU64(s) == IF s \in Nat THEN s ELSE None

Shortfall(rs, sel, fr) ==
  LET txSize   == MapThenSumSet(LAMBDA a : 8 + ScriptLen[a], DOMAIN rs) + 8 + 34 + 11
                  + 50 * Cardinality(sel)
      outgoing == MapThenSumSet(LAMBDA a : rs[a], DOMAIN rs)
      selAmt   == MapThenSumSet(LAMBDA c : CoinAmount[c], sel)
      required == txSize * ParseU64(fr) + outgoing
  IN  IF ParseU64(fr) = None THEN None
      ELSE IF selAmt > required THEN 0 ELSE required - selAmt

\* ChooseRecipients::apply: a map from address to amount (the expects hold
\* for valid recipients); the last recipient of an address wins.
RECURSIVE OutputsOf(_, _)
OutputsOf(rs, m) ==
  IF rs = <<>> THEN m
  ELSE OutputsOf(Tail(rs), [a \in DOMAIN m \cup {Head(rs).address} |->
                              IF a = Head(rs).address THEN Head(rs).amount ELSE m[a]])

AllValid(rs) == \A i \in DOMAIN rs : rs[i] # Invalid

(***************************************************************************)
(* "Next", pressed or delivered: the current step's apply() on the draft, *)
(* then, if there is a next step, current + 1 and its load(); the message *)
(* then goes to the new step's update(), where no step handles it.        *)
(***************************************************************************)
\* ChooseRecipients::apply, whose expects abort on an invalid recipient.
RecipientsApply ==
  \/ AllValid(recipients) /\ outputs' = OutputsOf(recipients, EmptyMap) /\ UNCHANGED panicked
  \/ ~AllValid(recipients) /\ panicked' = "Recipients" /\ UNCHANGED outputs

ChooseCoinsLoad  == coinRecips' = outputs'
ChooseCoinsApply == inputs' = selected /\ draftPsbt' = generated

\* SaveSpend::load: SpendTx::new(draft.generated.unwrap(), change index
\* against draft.outputs, draft.inputs).
SaveSpendLoad ==
  \/ /\ draftPsbt' # None
     /\ spend' = [psbt |-> draftPsbt', coins |-> inputs', outputs |-> outputs]
     /\ UNCHANGED panicked
  \/ draftPsbt' = None /\ panicked' = "Save" /\ UNCHANGED spend

\* CreateSpendPanel::update(Next); the aborted process does not move on.
PanelNext(pendingAfter) ==
  /\ pending' = pendingAfter
  /\ \/ /\ current = 1
        /\ RecipientsApply
        /\ current' = IF panicked' = None THEN 2 ELSE 1
        /\ ChooseCoinsLoad
        /\ UNCHANGED <<recipients, inputs, draftPsbt, selected, feerate, leftToSelect,
                       generated, warning, spend>>
     \/ /\ current = 2
        /\ ChooseCoinsApply
        /\ SaveSpendLoad
        /\ current' = IF panicked' = None THEN 3 ELSE 2
        /\ UNCHANGED <<recipients, outputs, selected, coinRecips, feerate,
                       leftToSelect, generated, warning>>
     \/ /\ current = 3
        /\ UNCHANGED <<recipients, inputs, draftPsbt, selected, feerate, leftToSelect,
                       generated, warning, current, outputs, coinRecips, spend, panicked>>

Alive == panicked = None

\* The view offers "Next" on the recipients step when no recipient is invalid.
UserNext == Alive /\ current = 1 /\ AllValid(recipients) /\ PanelNext(pending)

Previous ==
  /\ Alive /\ current > 1
  /\ current' = current - 1
  /\ UNCHANGED <<recipients, inputs, draftPsbt, selected, feerate, leftToSelect,
                 generated, warning, outputs, coinRecips, spend, pending, panicked>>

RecipientEdited(r) ==
  /\ Alive /\ current = 1
  /\ recipients' = <<r>>
  /\ UNCHANGED <<current, outputs, inputs, draftPsbt, selected, coinRecips, feerate,
                 leftToSelect, generated, warning, spend, pending, panicked>>

(***************************************************************************)
(* ChooseCoins::update.                                                    *)
(***************************************************************************)
\* Seeded fault: the typed text is stored before it is checked.
FeerateEditedStoresText(s) ==
  /\ Alive /\ current = 2
  /\ feerate' = [value |-> s, valid |-> ParseU64(s) # None \/ s = Empty]
  /\ leftToSelect' = Shortfall(coinRecips, selected, s)
  /\ warning' = FALSE
  /\ UNCHANGED <<current, recipients, outputs, inputs, draftPsbt, selected, coinRecips,
                 generated, spend, pending, panicked>>

FeerateEdited(s) ==
  /\ Alive /\ current = 2
  /\ \/ /\ ParseU64(s) # None
        /\ feerate' = [value |-> s, valid |-> TRUE]
        /\ leftToSelect' = Shortfall(coinRecips, selected, s)
     \/ /\ s = Empty
        /\ feerate' = [value |-> Empty, valid |-> TRUE]
        /\ leftToSelect' = None
     \/ /\ ParseU64(s) = None /\ s # Empty
        /\ feerate' = [feerate EXCEPT !.valid = FALSE]
        /\ leftToSelect' = None
  /\ warning' = FALSE
  /\ UNCHANGED <<current, recipients, outputs, inputs, draftPsbt, selected, coinRecips,
                 generated, spend, pending, panicked>>

\* create_spend_tx(selected outpoints, draft.outputs, feerate or 0), later.
Generate ==
  /\ Alive /\ current = 2 /\ BagCardinality(pending) < MaxPending
  /\ pending' = BagAdd(pending, [kind |-> "Psbt",
                                 req |-> [inputs |-> selected, outputs |-> outputs,
                                          feerate |-> IF ParseU64(feerate.value) = None
                                                      THEN 0 ELSE feerate.value]])
  /\ warning' = FALSE
  /\ UNCHANGED <<current, recipients, outputs, inputs, draftPsbt, selected, coinRecips,
                 feerate, leftToSelect, generated, spend, panicked>>

SelectCoin(c) ==
  /\ Alive /\ current = 2
  /\ selected' = IF c \in selected THEN selected \ {c} ELSE selected \cup {c}
  /\ leftToSelect' = Shortfall(coinRecips, selected', feerate.value)
  /\ UNCHANGED <<current, recipients, outputs, inputs, draftPsbt, coinRecips, feerate,
                 generated, warning, spend, pending, panicked>>

\* Seeded fault: "Next" is sent whatever the result.
DeliverPsbtNextOnError(m, ok) ==
  /\ Alive /\ m.kind = "Psbt" /\ BagIn(m, pending)
  /\ IF current = 2
     THEN /\ generated' = IF ok THEN m.req ELSE generated
          /\ pending' = BagAdd(BagRemove(pending, m), [kind |-> "Next"])
          /\ warning' = ~ok
     ELSE /\ pending' = BagRemove(pending, m)
          /\ UNCHANGED <<generated, warning>>
  /\ UNCHANGED <<current, recipients, outputs, inputs, draftPsbt, selected, coinRecips,
                 feerate, leftToSelect, spend, panicked>>

\* Seeded fault: a refused PSBT is not reported.
DeliverPsbtErrorSilent(m, ok) ==
  /\ Alive /\ m.kind = "Psbt" /\ BagIn(m, pending)
  /\ IF current = 2 /\ ok
     THEN /\ generated' = m.req
          /\ pending' = BagAdd(BagRemove(pending, m), [kind |-> "Next"])
     ELSE /\ pending' = BagRemove(pending, m)
          /\ UNCHANGED generated
  /\ UNCHANGED <<current, recipients, outputs, inputs, draftPsbt, selected, coinRecips,
                 feerate, leftToSelect, warning, spend, panicked>>

\* Message::Psbt(res) delivered: handled only if ChooseCoins is current.
DeliverPsbt(m, ok) ==
  /\ Alive /\ m.kind = "Psbt" /\ BagIn(m, pending)
  /\ IF current = 2 /\ ok
     THEN /\ generated' = m.req
          /\ pending' = BagAdd(BagRemove(pending, m), [kind |-> "Next"])
          /\ UNCHANGED warning
     ELSE /\ pending' = BagRemove(pending, m)
          /\ warning' = (current = 2 \/ warning)
          /\ UNCHANGED generated
  /\ UNCHANGED <<current, recipients, outputs, inputs, draftPsbt, selected, coinRecips,
                 feerate, leftToSelect, spend, panicked>>

DeliverNext(m) ==
  /\ Alive /\ m.kind = "Next" /\ BagIn(m, pending)
  /\ PanelNext(BagRemove(pending, m))

Init ==
  /\ current = 1
  /\ recipients = <<Invalid>>       \* one Recipient::default(): empty fields
  /\ outputs = EmptyMap /\ inputs = {} /\ draftPsbt = None
  /\ selected = {} /\ coinRecips = EmptyMap
  /\ feerate = [value |-> Empty, valid |-> TRUE]
  /\ leftToSelect = None /\ generated = None /\ warning = FALSE
  /\ spend = None
  /\ pending = EmptyBag
  /\ panicked = None

\* The GUI is started again after an abort: a new panel, and the Commands
\* of the old process are gone.
Restart ==
  /\ ~Alive
  /\ current' = 1 /\ recipients' = <<Invalid>>
  /\ outputs' = EmptyMap /\ inputs' = {} /\ draftPsbt' = None
  /\ selected' = {} /\ coinRecips' = EmptyMap
  /\ feerate' = [value |-> Empty, valid |-> TRUE]
  /\ leftToSelect' = None /\ generated' = None /\ warning' = FALSE
  /\ spend' = None /\ pending' = EmptyBag /\ panicked' = None

RecipientChoices == [address : Addresses, amount : RecipientAmounts] \cup {Invalid}

Next ==
  \/ \E r \in RecipientChoices : RecipientEdited(r)
  \/ UserNext
  \/ Previous
  \/ \E s \in FeerateInputs \cup {Empty, BadText} : FeerateEdited(s)
  \/ Generate
  \/ \E c \in CoinIds : SelectCoin(c)
  \/ \E m \in BagToSet(pending), ok \in BOOLEAN : DeliverPsbt(m, ok)
  \/ \E m \in BagToSet(pending) : DeliverNext(m)
  \/ Restart

\* iced's executor runs every Command's future to completion and hands its
\* message to CreateSpendPanel::update: a message in flight is eventually
\* delivered (create_spend_tx may answer Ok or Err).  The user's actions
\* and Restart are not fair.
Fairness ==
  /\ WF_vars(\E m \in BagToSet(pending), ok \in BOOLEAN : DeliverPsbt(m, ok))
  /\ WF_vars(\E m \in BagToSet(pending) : DeliverNext(m))

Spec == Init /\ [][Next]_vars /\ Fairness

(***************************************************************************)
(* Properties.                                                             *)
(***************************************************************************)
TypeOK ==
  /\ current \in DOMAIN Steps
  /\ recipients \in Seq(RecipientChoices)
  /\ \A m \in {outputs, coinRecips} :
       DOMAIN m \subseteq Addresses /\ \A a \in DOMAIN m : m[a] \in RecipientAmounts
  /\ inputs \subseteq CoinIds /\ selected \subseteq CoinIds
  /\ draftPsbt \in Psbt \cup {None} /\ generated \in Psbt \cup {None}
  /\ feerate \in [value : FeerateInputs \cup {Empty}, valid : BOOLEAN]
  /\ leftToSelect \in Nat \cup {None}
  /\ warning \in BOOLEAN
  /\ spend = None \/ spend.psbt \in Psbt
  /\ IsABag(pending) /\ BagToSet(pending) \subseteq Msg
  /\ panicked \in {None, "Recipients", "Save"}

\* SaveSpend::load unwraps draft.generated: however Psbt results, "Next"
\* messages and moves between steps interleave, the save step is never
\* entered without a PSBT.
SaveHasPsbt == panicked # "Save"

\* "Generate" is always answered: while the user stays on the coin step
\* with a create_spend_tx request in flight, the panel either reaches the
\* save step (Psbt(Ok) sends Next) or shows the error (Psbt(Err) sets
\* warning), unless the GUI aborted.
GenerateAnswered ==
  (Alive /\ current = 2 /\ \E m \in BagToSet(pending) : m.kind = "Psbt")
    ~> (current # 2 \/ warning \/ ~Alive)

\* Spec 5: a completion computed from a state that has since changed is
\* ignored.  The SpendTx SaveSpend::load builds pairs the PSBT with the
\* coins of draft.inputs and finds the change output against
\* draft.outputs; both must be what the PSBT was built from.
SpendMatchesPsbt ==
  spend # None => spend.psbt.inputs = spend.coins /\ spend.psbt.outputs = spend.outputs

=============================================================================
