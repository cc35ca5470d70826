---------------------------- MODULE DescriptorSteps ----------------------------
(***************************************************************************)
(* The installer's descriptor steps (liana-gui installer/step/descriptor/  *)
(* mod.rs): ImportDescriptor checks the pasted descriptor and writes it to *)
(* the Context, or, in the creation flow, DefineDescriptor::apply builds   *)
(* one (its contract as checked in PolicyBuilder); RegisterDescriptor asks connected signing devices to       *)
(* register it (an asynchronous register_wallet whose completion comes     *)
(* back as Message::WalletRegistered) and writes the returned tokens to    *)
(* ctx.hws; BackupDescriptor asks the user to confirm a backup.            *)
(*                                                                         *)
(* The installer's driver (installer/mod.rs, not in the repository) calls  *)
(* apply() on "Next" and, if it returns true, moves to the following step  *)
(* not skipped and calls its load_context(); "Previous" moves back without *)
(* calling anything; every message is handed to the current step's        *)
(* update().  The list of connected devices (hw.rs, not in the repository) *)
(* changes under the steps.                                                *)
(*                                                                         *)
(* A descriptor is a model value; what parsing it tells the step is the    *)
(* network of its xpubs.  A registration token (the device's HMAC) is      *)
(* abstracted to the descriptor it was made for.  hmacs and ctx.hws are    *)
(* vectors that only grow by push, as in the code.                         *)
(***************************************************************************)
EXTENDS Integers, Sequences, FiniteSets, Bags, BagsExt, SequencesExt

CONSTANTS
  Descriptors,  \* descriptor texts that LianaDescriptor::from_str accepts
  XpubNetwork,  \* [Descriptors -> {"Bitcoin", "Testnet"}]: all_xpubs_net_is
  Network,      \* the installer's network
  Devices,      \* fingerprints of the supported devices, in hws.list order
  Empty,        \* model value: the empty text
  BadText,      \* model value: a text that does not parse
  UserRefused,  \* model value: async_hwi::Error::UserRefused
  DeviceError,  \* model value: any other registration error
  MaxPending,   \* bound on the completions in flight
  Flows,        \* {"Import", "Define"}: the flows the installer may be built with
  MaxHws,       \* bound on Len(hmacs) and Len(ctx.hws): Select and
                \* RegisterNext are disabled past it
  None

ASSUME XpubNetwork \in [Descriptors -> {"Bitcoin", "Testnet"}]
ASSUME Network \in {"Bitcoin", "Testnet", "Signet", "Regtest"}

ASSUME Flows \subseteq {"Import", "Define"} /\ Flows # {}

Steps == {"Import", "Define", "Register", "Backup", "Final"}
Texts == Descriptors \cup {Empty, BadText}
Fingerprints == {Devices[i] : i \in DOMAIN Devices}
\* (fingerprint, token) as pushed to hmacs and ctx.hws.
Hmac == [fp : Fingerprints, token : Descriptors]
\* Message::WalletRegistered(res): res is the token, or an error.
Completion == [fp : Fingerprints, res : Descriptors \cup {UserRefused, DeviceError}]

VARIABLES
  current,       \* the installer's current step
  ctxDescriptor, \* ctx.descriptor
  ctxHwIsUsed,   \* ctx.hw_is_used
  ctxHws,        \* ctx.hws
  imported,      \* ImportDescriptor.imported_descriptor.value
  importedValid, \* ImportDescriptor.imported_descriptor.valid
  wrongNetwork,  \* ImportDescriptor.wrong_network
  regDescriptor, \* RegisterDescriptor.descriptor
  processing,    \* RegisterDescriptor.processing
  chosenHw,      \* RegisterDescriptor.chosen_hw
  hmacs,         \* RegisterDescriptor.hmacs
  registered,    \* RegisterDescriptor.registered
  regError,      \* RegisterDescriptor.error
  regDone,       \* RegisterDescriptor.done
  bkDescriptor,  \* BackupDescriptor.descriptor
  bkDone,        \* BackupDescriptor.done
  bkDoneFor,     \* history: the descriptor shown when done was last set
  connected,     \* fingerprints of the devices in hws.list
  pending,       \* bag of WalletRegistered completions in flight
  first          \* the flow's descriptor step: "Import" or "Define"

ctxVars  == <<ctxDescriptor, ctxHwIsUsed, ctxHws>>
impVars  == <<imported, importedValid, wrongNetwork>>
regVars  == <<regDescriptor, processing, chosenHw, hmacs, registered, regError, regDone>>
bkVars   == <<bkDescriptor, bkDone, bkDoneFor>>
vars     == <<current, ctxVars, impVars, regVars, bkVars, connected, pending, first>>

\* hws.list restricted to supported devices: the connected ones in order.
HwList == SelectSeq(Devices, LAMBDA f : f \in connected)

(***************************************************************************)
(* ImportDescriptor::check_descriptor: the new form flags and the          *)
(* descriptor it returns (None when it returns None).  On mainnet every    *)
(* xpub must be a mainnet one, elsewhere a test one.                       *)
(***************************************************************************)
\* The xpub network a descriptor must have: mainnet ones on Bitcoin, test
\* ones elsewhere.
ExpectedXpubNet == IF Network = "Bitcoin" THEN "Bitcoin" ELSE "Testnet"

CheckDescriptor(t) ==
  LET netOK == XpubNetwork[t] = ExpectedXpubNet
  IN  CASE t = Empty                 -> [valid |-> TRUE,  wrong |-> FALSE, desc |-> None]
        [] t \in Descriptors /\ netOK -> [valid |-> TRUE,  wrong |-> FALSE, desc |-> t]
        [] t \in Descriptors         -> [valid |-> FALSE, wrong |-> TRUE,  desc |-> None]
        [] OTHER                     -> [valid |-> FALSE, wrong |-> FALSE, desc |-> None]

\* RegisterDescriptor::load_context: a changed descriptor resets the
\* registered set and done (the key-name map it builds is never used).
RegisterLoadContext(d) ==
  /\ regDescriptor' = d
  /\ IF regDescriptor # d
     THEN registered' = {} /\ regDone' = FALSE
     ELSE UNCHANGED <<registered, regDone>>
  /\ UNCHANGED <<processing, chosenHw, hmacs, regError>>

\* Seeded fault: a changed descriptor does not clear done.
BackupLoadContextNoReset(d) ==
  /\ bkDescriptor' = d
  /\ UNCHANGED <<bkDone, bkDoneFor>>

\* BackupDescriptor::load_context (key_aliases only feed the view).
BackupLoadContext(d) ==
  /\ IF bkDescriptor # d
     THEN bkDescriptor' = d /\ bkDone' = FALSE
     ELSE UNCHANGED <<bkDescriptor, bkDone>>
  /\ UNCHANGED bkDoneFor

(***************************************************************************)
(* Actions.                                                                *)
(***************************************************************************)
\* ImportDescriptor::update(ImportDescriptor(t)).
ImportEdited(t) ==
  /\ current = "Import"
  /\ imported' = t
  /\ importedValid' = CheckDescriptor(t).valid
  /\ wrongNetwork' = CheckDescriptor(t).wrong
  /\ UNCHANGED <<current, ctxVars, regVars, bkVars, connected, pending, first>>

\* Seeded fault: apply() returns true whatever check_descriptor gave.
ImportNextAlwaysTrue ==
  LET chk == CheckDescriptor(imported) IN
  /\ current = "Import"
  /\ ctxHwIsUsed' = TRUE
  /\ importedValid' = chk.valid
  /\ wrongNetwork' = chk.wrong
  /\ ctxDescriptor' = IF chk.desc # None THEN chk.desc ELSE ctxDescriptor
  /\ current' = "Register"
  /\ RegisterLoadContext(ctxDescriptor')
  /\ UNCHANGED <<ctxHws, imported, bkVars, connected, pending, first>>

\* "Next" on ImportDescriptor: apply() sets hw_is_used, re-checks the text
\* and, if it gives a descriptor, writes it and returns true; the driver
\* then enters RegisterDescriptor (skipped when hw_is_used is false).
ImportNext ==
  LET chk == CheckDescriptor(imported) IN
  /\ current = "Import"
  /\ ctxHwIsUsed' = TRUE
  /\ importedValid' = chk.valid
  /\ wrongNetwork' = chk.wrong
  /\ IF chk.desc # None
     THEN /\ ctxDescriptor' = chk.desc
          /\ current' = "Register"
          /\ RegisterLoadContext(chk.desc)
     ELSE UNCHANGED <<ctxDescriptor, current, regVars>>
  /\ UNCHANGED <<ctxHws, imported, bkVars, connected, pending, first>>

(***************************************************************************)
(* "Next" on DefineDescriptor, as PolicyBuilder checks it: a successful    *)
(* apply() writes a descriptor built from keys of the installer's network  *)
(* and ctx.hw_is_used, which need not match the descriptor's keys (run     *)
(* builder_hw_flag).  The driver then enters RegisterDescriptor, or        *)
(* BackupDescriptor when RegisterDescriptor::skip (!ctx.hw_is_used) holds. *)
(* A refused apply() changes nothing modelled here.                        *)
(***************************************************************************)
DefineNext(d, hw) ==
  /\ current = "Define"
  /\ XpubNetwork[d] = ExpectedXpubNet
  /\ ctxDescriptor' = d
  /\ ctxHwIsUsed' = hw
  /\ IF hw
     THEN current' = "Register" /\ RegisterLoadContext(d) /\ UNCHANGED bkVars
     ELSE current' = "Backup" /\ BackupLoadContext(d) /\ UNCHANGED regVars
  /\ UNCHANGED <<ctxHws, impVars, connected, pending, first>>

\* RegisterDescriptor::update(Select(i)): a device not yet registered is
\* asked to register the step's descriptor; the device's answer (a token
\* for that descriptor, a refusal or an error) comes back later.
Select(i) ==
  /\ current = "Register"
  /\ i \in DOMAIN HwList
  /\ HwList[i] \notin registered
  /\ BagCardinality(pending) < MaxPending
  /\ Len(hmacs) + BagCardinality(pending) < MaxHws
  /\ chosenHw' = i
  /\ processing' = TRUE
  /\ regError' = None
  /\ \E res \in {regDescriptor, UserRefused, DeviceError} :
       pending' = BagAdd(pending, [fp |-> HwList[i], res |-> res])
  /\ UNCHANGED <<current, ctxVars, impVars, regDescriptor, hmacs, registered,
                 regDone, bkVars, connected, first>>

\* RegisterDescriptor::update(WalletRegistered(Ok((fp, hmac)))): recorded
\* if a device with that fingerprint is still listed.
WalletRegisteredOk(m) ==
  /\ current = "Register" /\ BagIn(m, pending) /\ m.res \in Descriptors
  /\ pending' = BagRemove(pending, m)
  /\ processing' = FALSE
  /\ chosenHw' = None
  /\ IF m.fp \in connected
     THEN /\ registered' = registered \cup {m.fp}
          /\ hmacs' = Append(hmacs, [fp |-> m.fp, token |-> m.res])
     ELSE UNCHANGED <<registered, hmacs>>
  /\ UNCHANGED <<current, ctxVars, impVars, regDescriptor, regError, regDone,
                 bkVars, connected, first>>

\* Seeded fault: a refusal is shown as an error.
WalletRegisteredErrShowsRefusal(m) ==
  /\ current = "Register" /\ BagIn(m, pending) /\ m.res \notin Descriptors
  /\ pending' = BagRemove(pending, m)
  /\ processing' = FALSE
  /\ chosenHw' = None
  /\ regError' = m.res
  /\ UNCHANGED <<current, ctxVars, impVars, regDescriptor, hmacs, registered,
                 regDone, bkVars, connected, first>>

\* RegisterDescriptor::update(WalletRegistered(Err(e))): a refusal is
\* silent, any other error is shown.
WalletRegisteredErr(m) ==
  /\ current = "Register" /\ BagIn(m, pending) /\ m.res \notin Descriptors
  /\ pending' = BagRemove(pending, m)
  /\ processing' = FALSE
  /\ chosenHw' = None
  /\ regError' = IF m.res = UserRefused THEN regError ELSE DeviceError
  /\ UNCHANGED <<current, ctxVars, impVars, regDescriptor, hmacs, registered,
                 regDone, bkVars, connected, first>>

\* A completion that arrives while another step is current: that step's
\* update() ignores it.
CompletionIgnored(m) ==
  /\ current # "Register" /\ BagIn(m, pending)
  /\ pending' = BagRemove(pending, m)
  /\ UNCHANGED <<current, ctxVars, impVars, regVars, bkVars, connected, first>>

\* RegisterDescriptor::update(UserActionDone(b)).
RegisterUserActionDone(b) ==
  /\ current = "Register"
  /\ regDone' = b
  /\ UNCHANGED <<current, ctxVars, impVars, regDescriptor, processing, chosenHw,
                 hmacs, registered, regError, bkVars, connected, pending, first>>

\* "Next" on RegisterDescriptor: apply() pushes every token to ctx.hws and
\* returns true; the driver enters BackupDescriptor.
RegisterNext ==
  /\ current = "Register"
  /\ Len(ctxHws) + Len(hmacs) <= MaxHws
  /\ ctxHws' = ctxHws \o hmacs
  /\ current' = "Backup"
  /\ BackupLoadContext(ctxDescriptor)
  /\ UNCHANGED <<ctxDescriptor, ctxHwIsUsed, impVars, regVars, connected, pending, first>>

\* BackupDescriptor::update(UserActionDone(b)).
BackupUserActionDone(b) ==
  /\ current = "Backup"
  /\ bkDone' = b
  /\ bkDoneFor' = IF b THEN bkDescriptor ELSE bkDoneFor
  /\ UNCHANGED <<current, ctxVars, impVars, regVars, bkDescriptor, connected, pending, first>>

\* "Next" on BackupDescriptor: the default apply() returns true.
BackupNext ==
  /\ current = "Backup"
  /\ current' = "Final"
  /\ UNCHANGED <<ctxVars, impVars, regVars, bkVars, connected, pending, first>>

\* "Previous": back to the step before, past a skipped one.
Previous ==
  /\ current # first
  /\ current' = CASE current = "Register" -> first
                  [] current = "Backup"   -> IF ctxHwIsUsed THEN "Register" ELSE first
                  [] current = "Final"    -> "Backup"
  /\ UNCHANGED <<ctxVars, impVars, regVars, bkVars, connected, pending, first>>

\* A device is plugged in or removed (the hws.list refresh).
DeviceToggled(f) ==
  /\ connected' = IF f \in connected THEN connected \ {f} ELSE connected \cup {f}
  /\ UNCHANGED <<current, ctxVars, impVars, regVars, bkVars, pending, first>>

Init ==
  /\ first \in Flows /\ current = first
  /\ ctxDescriptor = None /\ ctxHwIsUsed = FALSE /\ ctxHws = <<>>
  /\ imported = Empty /\ importedValid \in BOOLEAN /\ wrongNetwork = FALSE
  /\ regDescriptor = None /\ processing = FALSE /\ chosenHw = None
  /\ hmacs = <<>> /\ registered = {} /\ regError = None /\ regDone = FALSE
  /\ bkDescriptor = None /\ bkDone = FALSE /\ bkDoneFor = None
  /\ connected \in SUBSET Fingerprints
  /\ pending = EmptyBag

Next ==
  \/ \E t \in Texts : ImportEdited(t)
  \/ ImportNext
  \/ \E d \in Descriptors, hw \in BOOLEAN : DefineNext(d, hw)
  \/ \E i \in DOMAIN Devices : Select(i)
  \/ \E m \in BagToSet(pending) : WalletRegisteredOk(m)
  \/ \E m \in BagToSet(pending) : WalletRegisteredErr(m)
  \/ \E m \in BagToSet(pending) : CompletionIgnored(m)
  \/ \E b \in BOOLEAN : RegisterUserActionDone(b)
  \/ RegisterNext
  \/ \E b \in BOOLEAN : BackupUserActionDone(b)
  \/ BackupNext
  \/ Previous
  \/ \E f \in Fingerprints : DeviceToggled(f)

\* No fairness: register_wallet waits for the user to confirm on the
\* device, so a completion need never come, and the user need never act.
Spec == Init /\ [][Next]_vars

(***************************************************************************)
(* Properties.                                                             *)
(***************************************************************************)
TypeOK ==
  /\ current \in Steps /\ first \in Flows
  /\ ctxDescriptor \in Descriptors \cup {None} /\ ctxHwIsUsed \in BOOLEAN
  /\ ctxHws \in Seq(Hmac) /\ Len(ctxHws) <= MaxHws
  /\ imported \in Texts /\ importedValid \in BOOLEAN /\ wrongNetwork \in BOOLEAN
  /\ regDescriptor \in Descriptors \cup {None} /\ processing \in BOOLEAN
  /\ chosenHw \in DOMAIN Devices \cup {None}
  /\ hmacs \in Seq(Hmac) /\ registered \subseteq Fingerprints
  /\ regError \in {None, DeviceError} /\ regDone \in BOOLEAN
  /\ bkDescriptor \in Descriptors \cup {None} /\ bkDone \in BOOLEAN
  /\ bkDoneFor \in Descriptors \cup {None}
  /\ connected \subseteq Fingerprints
  /\ IsABag(pending) /\ BagToSet(pending) \subseteq Completion

\* The registration step's view and its Select handler unwrap
\* self.descriptor, and the backup step's view expects one: whatever the
\* user pasted, however often they went back, neither step is ever shown
\* without a descriptor (apply() only returns true with one, and each
\* step's load_context copies ctx.descriptor).
StepsHaveDescriptor ==
  /\ current = "Register" => regDescriptor # None
  /\ current \in {"Backup", "Final"} => bkDescriptor # None

\* On the backup step and after it, a "done" the user gave was given while
\* the Context's descriptor was shown: BackupDescriptor::load_context
\* clears done when the user went back and imported another descriptor.
BackupDoneIsCurrent ==
  current \in {"Backup", "Final"} /\ bkDone => bkDoneFor = ctxDescriptor

\* Spec 5: a registration completion is ignored once the descriptor it was
\* requested for has changed.  Past the registration step, every token
\* RegisterDescriptor::apply wrote to ctx.hws was made for the Context's
\* descriptor.
HwsTokensForDescriptor ==
  current \in {"Backup", "Final"} => \A i \in DOMAIN ctxHws : ctxHws[i].token = ctxDescriptor

=============================================================================
