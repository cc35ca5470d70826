# TLA+ models of the Liana GUI wallet wizard

This directory holds TLA+ specifications of the state machines in
`src/`: the installer steps that build a wallet descriptor and the spend
steps that draft a transaction. Every module is checked with TLC. The
modules are written from the Rust source. Where the behaviour lives in
code that is not under `src/`, it is written from `spec.md` and marked
`spec_modelled` in `PROJECT.json`.

## 1. The system

The program is an iced GUI, so all state changes happen on one thread.
A handler (`update(message)`) runs to completion for each message. Work
that takes time is returned as a `Task`/`Command`. Its result comes back
later as another message, interleaved with whatever the user does in
the meantime.

| Part | Source | State | Operations |
|---|---|---|---|
| Descriptor editor | `installer/step/descriptor/editor/mod.rs` `DefineDescriptor` | `keys` (registry: fingerprint to Key), `paths` (primary, recovery and safety-net paths; key slots, threshold, time-lock, warning), `use_taproot`, `descriptor_template`, `modal` | `update`: 26 messages. Sub-flows (`SelectKeySource`, `EditKeyAlias`, `EditSequenceModal`, `EditThresholdModal`) own the step while open. |
| Warning engine | same, `check_for_warning` | per-path warning | Recomputed by hand in the handlers that call it, and not by `AddRecoveryPath`, `AddSafetyNetPath` or `load_template`. |
| Policy builder | same, `apply` | the installer `Context`: `descriptor`, `keys`, `hw_is_used` | Derivation-index bookkeeping and a time-lock to key-set map, handed to the descriptor library, which may refuse it. |
| Descriptor import | `installer/step/descriptor/mod.rs` `ImportDescriptor` | imported text, validity | `update` (edit), `apply` into the Context |
| Device registration | same, `RegisterDescriptor` | `registered`, `hmacs`, `processing`, `done` | `Select(i)` starts an asynchronous registration. `WalletRegistered(res)` is its result. `load_context`, `skip` (no device key) and `apply` pushing `hmacs` onto `ctx.hws`. |
| Backup | same, `BackupDescriptor` | `done`, descriptor seen | `load_context` resets `done` when the descriptor changed |
| Recipients | `gui/src/app/state/spend/step.rs` `ChooseRecipients` | list of (address, amount) form values | add, delete and edit; `apply` into `draft.outputs` |
| Coin selector | same, `ChooseCoins::new` | ordered coin list | filter coins already spent, then `sort_by` a comparator |
| Transaction draft | same, `ChooseCoins`, `TransactionDraft`, `SaveSpend::load` | selection, fee-rate field, `amount_left_to_select`, `generated`; the draft | `FeerateEdited`, `SelectCoin`, `Generate` (asynchronous `create_spend_tx`), `Psbt(result)`, `load`/`apply` |
| Amount widgets | `gui/ui/src/component/amount.rs` | none: a pure rendering | `amount_with_size`, `unconfirmed_amount_with_size`: `{:.8}` text cut in three groups, `split_digits` greys the leading zeros |
| Cache, messages, event rows, theme, design-system example | `app/cache.rs`, `installer/message.rs`, `ui/...` | data only, or layout | not modelled |

How the parts interact:
- **Installer steps.** They share the `Context`: DefineDescriptor or
  ImportDescriptor writes the descriptor, the keys and `hw_is_used`.
  RegisterDescriptor and BackupDescriptor read them when the wizard
  enters them, and the user may go back and forth.
- **Spend steps.** They share the `TransactionDraft`. Each step's
  `apply` writes it on "Next", and the next step's `load` reads it.

The hard behaviours are these:
- **The editor.** Long sequences of edits, several actors on one
  state (the step and its modal), and copies of keys that can go stale.
- **The builder.** A partially failing `apply`, and a map insert that
  silently drops a path.
- **The spend step.** Asynchronous results (a PSBT, a device
  registration) that arrive after the state they were computed from has
  changed, and derived values (the shortfall) that are not recomputed
  on every change.

## 2. Modules

| Module | Models | Variables and actions |
|---|---|---|
| `Descriptor` | The shared data and pure operators of the editor: `Key`, `Path`, `CheckForWarning` (`check_for_warning`), `ValidPaths` (`valid`), `DeriveKeys`, `BuildRecovery` and `BuildPolicy` (the loops of `apply`). | none |
| `DescriptorEditor` | `DefineDescriptor::update` and the modals | Variables: `keys`, `paths`, `useTaproot`, `template`, `modal`, `tasks` (a bag of the `Path` messages of Confirm tasks in flight). One action per message, named after it. A modal's Confirm (`SequenceConfirm`, `ThresholdConfirm`) and the handling of the message its Task delivers (`SequenceEdited(m)`, `ThresholdEdited(m)`) are separate actions. The key-selection modal is reduced to the `KeysEdited` message it returns: an existing fingerprint, any new key, or none. The alias modal is reduced to `AliasEdited`, `DoReplace` and `EditKeyAliasClose`. The messages `update` forwards to an open key modal change only that modal's state, which lives in `key.rs`, not in the repository. |
| `PolicyBuilder` | `DefineDescriptor::apply` and the Context it writes | Variables: `keys`, `paths`, `useTaproot`, `ctxDescriptor`, `ctxKeys`, `ctxHwUsed`. `Apply` is the whole function. `ChangePath`, `AddPath`, `RemovePath` and `SetTaproot` stand for the editor; see below. |
| `CoinOrder` | `ChooseCoins::new`: the `spend_info` filter, the `sort_by` comparator (`CoinLess`), and Rust's `slice::sort_by` on short slices (`InsertHead`, `SortBy`, RECURSIVE) | Variables: `blockheight`, `spent`, `listed` (the order `list_coins` returns), `coins`, `sortedAt`. Actions: `NewBlock`, `Spend(c)`, `Open` (the panel opened). `BlocksLeft` and `ShownIds` map it to `CoinList`. |
| `CoinList` | The abstract coin list of spec 4.5 | Variables: `tip`, `spentCoins`, `shown`. Actions: `Tick`, `SpendCoin(c)`, `OpenPanel` (any listing of the unspent coins ordered by `MayPrecede`). |
| `AmountDisplay` | `amount.rs`: `FormatBtc` (`{:.8}` of `to_btc()`), `SplitDigits` (`split_digits`), `AmountRow`, `UnconfirmedAmountRow` | Variable: `amount`. Action: `Render(a)`. Text is a sequence of characters, because the property is about the conversion. |
| `Recipients` | `ChooseRecipients` and `Recipient`: `update`, `amount()`, `valid()`, `apply`, the total the view shows | Variables: `recipients` (form values with their `valid` flags), `outputs` (`draft.outputs`), `current`. Actions: `AddRecipient`, `DeleteRecipient`, `RecipientEditedAddress`, `RecipientEditedAmount`, `Apply` ("Next"), `Previous`. |
| `SpendDraft` | The spend panel: `ChooseCoins::update`, `amount_left_to_select`, the steps' `load`/`apply`, `SaveSpend::load`, and the Commands in flight | Variables: the draft (`outputs`, `inputs`, `draftPsbt`), the coin step (`selected`, `coinRecips`, `feerate`, `leftToSelect`, `generated`, `warning`), `spend`, `current`, `recipients`, `pending` (a bag of messages), `panicked`. Actions: `RecipientEdited`, `UserNext`, `Previous`, `FeerateEdited`, `Generate`, `SelectCoin`, `DeliverPsbt`, `DeliverNext`, `Restart`. |
| `DescriptorSteps` | The descriptor steps of the installer in both flows: `ImportDescriptor` or `DefineDescriptor`, then `RegisterDescriptor` (skipped in the creation flow without a device key), `BackupDescriptor`, and the Context they share | Variables: the Context (`ctxDescriptor`, `ctxHwIsUsed`, `ctxHws`, a sequence as the code's `Vec`), each step's fields (`hmacs` also a sequence), `first` (the flow's descriptor step), `connected` (the devices listed), `pending` (a bag of `WalletRegistered` completions), `bkDoneFor` (history). Actions: `ImportEdited`, `ImportNext`, `DefineNext(d, hw)`, `Select(i)`, `WalletRegisteredOk`, `WalletRegisteredErr`, `CompletionIgnored`, the two `UserActionDone`s, `RegisterNext`, `BackupNext`, `Previous`, `DeviceToggled`. No fairness is assumed (see Fairness). A descriptor is a model value with the network of its xpubs; a device token is the descriptor it was made for. |
| `MC...` | Instances for TLC: model values for keys, coins and addresses, and the constant functions (key provenances, coin amounts and heights, dust values, script lengths). | |

Indices are 1-based where the code's are 0-based. A key slot holds a Key
record, as in the code (`Option<Key>`), so stale copies are visible.

Texts are abstracted to what parsing them gives. An address text is
`Empty`, an address, or `BadText`. An amount text is `Empty`, a number
of satoshis, or `BadText`. A fee-rate text is `Empty`, a `u64`, or
`BadText`. A PSBT is the request it was built from (inputs, outputs,
fee rate).

### Assume-guarantee splits

Some parts are too large for TLC as one model, so they are checked apart.

**The editor and the builder.** Checked as one model, the editor's
reachable path lists multiplied by the descriptors a past `apply` may
have left in the Context are beyond TLC.
- `DescriptorEditor` checks that every sequence of messages keeps the
  path list well formed (`PathsWellFormed`) and every slot's key
  registered (`SlotKeysRegistered`).
- `PolicyBuilder` lets the paths move, one path at a time, through every
  list with those properties and with every slot filled. `valid()`
  requires the slots to be filled before "Next" is offered. The
  builder's safety thus rests on the editor's checked invariants.
- `apply` never reads a path's kind or its warning, and only compares
  time-locks with each other (the `BTreeMap` key). So a safety-net path
  is one more recovery path, and the builder's `RecoverySeqs` = {1, 2}
  give every case of equal and distinct time-locks. Registry entries for fingerprints
  in no slot are never read, and are left out.

**The recipients step and the spend panel.** `Recipients` checks that a
recipient `valid()` accepts is one `apply`'s `expect`s accept
(`ValidMeansApplicable`). `SpendDraft` then reduces a recipient to a
valid (address, amount) pair or `Invalid`. The coin order is
`CoinOrder`'s concern; `SpendDraft` only needs the selected set.

**The builder and the installer.** `DescriptorSteps` enters the
creation flow through `DefineNext(d, hw)`: the contract of
`DefineDescriptor::apply` (`ctx.descriptor` set to a descriptor of the
installer's network, `ctx.hw_is_used` to whether a device key is in it,
and `true`) that `PolicyBuilder` checks. Any descriptor and either flag
may come out, which covers the `builder_hw_flag` case where the flag is
set for a descriptor with no device key.

### The event loop

iced runs one `update` at a time. `Command::perform` runs a future and
sends its result as a message later. `SpendDraft` keeps these messages
in a bag (`pending`) and delivers them in any order, to whichever step
is current at delivery. This is how `CreateSpendPanel::update` routes
messages. That code is not under `src/`, so it is modelled from the
spec and marked `spec_modelled`.

`DescriptorSteps` treats the installer the same way: a
`WalletRegistered` completion is delivered to whichever step is current,
and only `RegisterDescriptor` acts on it. The installer's driver
(`installer/mod.rs`: `apply` on Next, then `load_context` of the next
step not skipped; Previous without either) is not in the repository, so
`BackupNext` and `Previous` are `spec_modelled`.

A failed `expect` or `unwrap` aborts the process (`panicked`).
`Restart` starts a fresh panel. Nothing of the panel is persisted, and
the old process's Commands are gone.

## 3. Runs

| Run | Expect | What it shows |
|---|---|---|
| `editor_safety` | pass | `TypeOK`, `PathsWellFormed`, `SlotKeysRegistered` over every message sequence within the bounds, with up to two modal Confirm tasks in flight. `WarningsSound`: every warning shown beside a path still applies to the paths as they now are. A warning may be missing, after `AddRecoveryPath`, but none is left over from a path list that no longer exists, such as a `DuplicateSequence` whose twin was deleted (852,544 states). |
| `builder_safety` | pass | `DistinctDerivations`: however keys are reused across paths, no two positions of the built descriptor share a fingerprint and a derivation index (68,342 states). |
| `builder_hw_flag` | violation | Two paths with one time-lock: the map insert drops one, but its device key has already set `ctx.hw_is_used`. Device registration is then asked for a descriptor with no device key. |
| `coin_order_confirmed` | pass | `CoinListRefined` with confirmed coins. `CoinOrder` implements the abstract `CoinList`: whatever order `list_coins` returns, as the tip moves past coins' time-locks, every opening lists exactly the unspent coins, each once, by ascending remaining blocks then descending amount at that opening's tip. (20,880 states). |
| `coin_order_unconfirmed` | violation | An unconfirmed coin (`block_height` None) is listed before coins with fewer blocks left. The comparator compares `Option` heights, and None sorts first. |
| `recipients_safety` | pass | `ValidMeansApplicable`: over every edit sequence, a recipient `valid()` accepts parses and clears the dust check of its current address, so `apply`'s `expect`s hold (3,055 states). |
| `recipients_duplicate_address` | violation | Two recipients to one address: the `HashMap` keeps one. The draft pays less than the total the view shows. |
| `spend_safety` | pass | `SaveHasPsbt`: however PSBT results, the Next they send, and the user's moves interleave, `SaveSpend::load` finds a PSBT. `GenerateAnswered` (liveness): while the user stays on the coin step with a request in flight, the panel reaches the save step or shows the error (286,275 states). |
| `spend_stale_psbt` | violation | A coin toggled while `create_spend_tx` is in flight: the late PSBT is saved with the new selection as its coins (spec 5). |
| `installer_safety` | pass | `BackupDoneIsCurrent`: through imports, re-imports, registrations racing with step changes, and backups, a backup "done" always concerns the current descriptor. `StepsHaveDescriptor`: in both flows, and across the skip of the registration step, the registration and backup steps are never current without the descriptor their views and `Select` unwrap. (178,602 states). |
| `amount_display` | pass | `DisplayMatchesReference`: for amounts around every power of ten up to `MAX_MONEY`, the three groups and `split_digits` show the `{:.8}` text in order, grey exactly its insignificant leading zeros, and emphasise the rest. `TypeOK` includes that no empty text is pushed (1,227 states). |
| `installer_stale_hmac` | violation | Register a device, go back, import another descriptor, Next: `load_context` clears `registered` but not `hmacs`, and `apply` writes the old descriptor's token to `ctx.hws` (spec 5). A late `WalletRegistered` for the old descriptor does the same. |

Each property of a passing run has a seeded fault in `PROJECT.json`
(`mutants`) that TLC catches. The faults:
- the primary path deleted like the others;
- Reset clearing the keys but not the paths;
- Delete without the `check_setup()` that refreshes warnings;
- the `usize` threshold lowered on every Delete (it underflows);
- an index not advanced;
- indices starting at 1;
- the `spend_info` filter dropped;
- the coins sorted at the tip of the previous opening;
- "Next" offered without validity;
- the amount not re-validated on an address change;
- the fee-rate text stored unchecked;
- "Next" sent on a failed PSBT;
- a user refusal shown as an error;
- `ImportDescriptor::apply` returning true without a descriptor;
- the backup's `done` kept across a descriptor change;
- a refused PSBT that sets no warning;
- `push` in place of `push_maybe` for an empty rest of digits;
- the 1,000,000-satoshi threshold taken inclusively.

Found while modelling, and recorded in `PROJECT.json` as hazards
without a run of their own:
- `AddRecoveryPath` does not recompute warnings. The warnings shown can
  miss a new duplicate time-lock; `WarningsSound` shows they are never
  wrong the other way.
- An emptied primary path is flagged as holding only cosigner keys.
- Derivation indices follow vector order rather than time-lock order.
- A delayed Next can abort the GUI on the recipients step. This is
  reachable in `spend_safety`, which restarts afterwards.
- A new key with a fingerprint already registered leaves older copies
  in other slots (the code logs it).
- An invalid fee rate keeps the old value, and a coin toggle shows a
  shortfall computed from it next to the field marked invalid.
- A rejected policy still replaces `ctx.keys` (spec 4.4 and 7). Every
  path forward runs `apply` again, so no later step sees it.
- `RegisterDescriptor::apply` pushes every token again on each Next, and
  a second `Select` during a registration pushes a second token for the
  device, so `ctx.hws` can hold duplicates. Who reads `ctx.hws` is not in
  the repository.
- The first of two registration answers in flight clears `processing`.
  After Next, the second answer lands on the backup step and is dropped,
  so the device holds a registration with no token in `ctx.hws`.
- An Ok answer from a device unplugged before delivery is dropped: the
  device is registered, and the step does not know it.
- `Select` is not refused while a registration is in flight. A result
  delivered while another step is current is dropped and leaves the step
  processing with nothing pending. No liveness is claimed: the device
  answers only when its user confirms, and the view (not in the
  repository) decides whether the user can leave while processing.

### Bounds

**Editor.** Two fingerprints: one a hardware-device key, one a
cosigner token. One alias, at most three paths and three slots in all.
The templates are SimpleInheritance and Custom. The typed sequences are
0, 2 and 65536: refused, accepted, and out of u16. At most two Confirm
tasks are in flight, enough for a double Confirm with the value edited
in between. These bounds reach:
- a key reused in two paths;
- a path emptied and pruned;
- both warnings, and a duplicate time-lock;
- the threshold clamp;
- every modal.

**Builder.** The same keys, three paths and three slots in all, and
time-locks 1 and 2. These reach:
- a key used three times;
- a duplicate time-lock;
- paths out of time-lock order.

**Coin order.** Four coins, every one of the 24 orders `list_coins` may
return, a time-lock of 2, and a tip moving from 3 to 6. The pass run has:
- two coins equal but for the outpoint (stability);
- coins of different heights made equally urgent by the clamp at 0;
- a coin mined at the start tip.

The violation run replaces the last coin with an unconfirmed one,
smaller than a coin mined at the tip. This is the case where the
comparator is not transitive.

**Recipients.** Two recipients, a P2WPKH address (dust 294 sat) and a
P2WSH address (dust 330 sat), and amounts 0, 300 and 500 sat. 300 sat
is dust for one address and not the other.

**Spend panel.**
- One coin, one recipient (P2WPKH or P2WSH, 500 sat), fee rate 1 besides
  the empty field, and one message in flight.
- With a second coin and fee rate 0 the pass run grows to 11 million
  states. The properties concern the order of deliveries and edits,
  which one coin and one message in flight already reach.

**Installer.** Testnet; two descriptors with test xpubs and one with
mainnet xpubs; one device; two completions in flight. Two descriptors
are enough to import one, go back and import the other; two
completions let a second request for the same device race the first.
With two devices the pass run grows to 14 million states without a new
kind of step. Both flows are enabled (`Flows`), and `hmacs` and
`ctx.hws` hold at most two tokens (`MaxHws`; `Select` is disabled past
it): enough for a duplicate token and for a stale one. The violation
run uses the import flow only, with `MaxHws` 3, so that a fresh token
can follow the stale one.

**Amounts.** An amount is whole bitcoins plus satoshis, because TLC's
integers are 32-bit. The instances are 0 to 1,199 sat, then 10^k-1,
10^k, 10^k+1 and 5*10^k sat for k from 3 to 8, three amounts with
every digit significant, 10 BTC, and `MAX_MONEY` and one satoshi
below it. These cover each of `split_digits`' six prefixes, both
thresholds on each side, and integer parts of one to eight digits.

### Modal tasks in flight

`EditSequenceModal` and `EditThresholdModal` answer Confirm with a
`Task` whose future is ready at once. `DescriptorEditor` keeps the
Confirm (`SequenceConfirm`, `ThresholdConfirm`) apart from the handling
of the `Path(i, ...)` message it yields (`SequenceEdited(m)`,
`ThresholdEdited(m)`). Between the two, only events already queued can
run. The modal covers the step, so those are the modal's own: edits,
Confirm again, and Close on blur. The step's widgets require no modal
and no task in flight (`NoModal`). Without that window, TLC finds
Confirm, Close, Delete, then a threshold of 1 written to a path with
no slots.

### Fairness

The only fairness assumed is on the delivery of Command results whose
future completes without a person. iced's executor runs every future it
is given to completion and hands its message to `update`. `SpendDraft`
has weak fairness on delivering a `Psbt` result (Ok or Err, as the
daemon's `create_spend_tx` decides) and the `Next` an Ok result sends.
`GenerateAnswered` is checked under this assumption; it does not hold
without it, since an unanswered Command would leave the step waiting.
Nothing the user does is assumed to happen.

`DescriptorSteps` assumes no fairness. `register_wallet` waits for the
user to confirm on the device, so its answer need never come, and a
liveness property there would rest on the user.

### Refinement

`CoinList` is the abstract coin list of spec 4.5, with no sort
algorithm: opening the panel shows some listing of the unspent coins
that respects urgency and then amount at the current tip. `CoinOrder`
instantiates it with `shown <- ShownIds` (the outpoints of `coins`),
`tip <- blockheight` and `spentCoins <- spent`, and `listed` and
`sortedAt` hidden. `CoinListRefined` (`CoinList!Spec` as a PROPERTY)
checks that the filter, the comparator and the insertion sort together
implement it.

## 4. Plan

1. **Descriptor editor, policy builder, coin order, recipients, spend
   panel.** Done.
2. **Installer flow.** Done for both paths (`DescriptorSteps`), with
   `ctx.hws` as a vector. Left: whether duplicate tokens in `ctx.hws`
   matter, which depends on the install step, not in the repository.
3. **Amount widgets, spend-panel liveness, coin-list refinement, modal
   tasks in flight.** Done. No installer liveness: registration waits
   on the device's user, so no fairness is justified there.

## 5. Not modelled

- **UI code.** The event rows (`ui/src/component/event.rs`), the
  scrollable theme, and the design-system example are layout. The
  example's only state change is `current = i` behind
  `sections.get(i).is_some()`, so a property of it would restate that
  guard.
- **Data and types.** `app/cache.rs` holds data only, and
  `installer/message.rs` holds types only.
- **Editor fields no property distinguishes.** `self.accounts` and
  `hws.aliases` are only read when signing or displaying, and
  `self.error` is display text.
- **The key modals' own state.** `SelectKeySource` and `EditKeyAlias`
  live in `editor/key.rs`, which is not in the repository. They appear
  only through the messages they send back.
- **The descriptor library.** `LianaPolicy::new` is outside the
  repository. Its accept or reject is a nondeterministic outcome.
- **The spend-detail state.** `SaveSpend::update` hands its messages to
  `detail::SpendTxState`, which is not under `src/`.
- **`u64` overflow of `amount_left_to_select`.** It needs values near
  2^64, beyond TLC's integers. It is listed as a hazard.
