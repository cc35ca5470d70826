---------------------------- MODULE PolicyBuilder ----------------------------
(***************************************************************************)
(* DefineDescriptor::apply (installer/step/descriptor/editor/mod.rs): the  *)
(* policy builder, which turns the editor's paths and key registry into a  *)
(* descriptor in the installer Context (ctx.descriptor, ctx.keys,          *)
(* ctx.hw_is_used).  The user may go back to the editor and press "Next"   *)
(* again any number of times, so the Context a later step reads is the     *)
(* result of a sequence of edits and applies.                              *)
(*                                                                         *)
(* The editor is the environment: its edits move the paths between the     *)
(* configurations DescriptorEditor keeps (its invariants PathsWellFormed   *)
(* and SlotKeysRegistered, checked there) with every slot filled, as       *)
(* valid() requires for "Next".  The descriptor library                    *)
(* (LianaPolicy::new / new_legacy, outside this repository) may accept or  *)
(* refuse the policy: both outcomes are possible.                          *)
(***************************************************************************)
EXTENDS Descriptor

CONSTANTS
  MaxPaths,     \* bound on Len(paths)
  MaxSlots,     \* bound on the key slots of all paths together
  RecoverySeqs  \* time-locks the user may give recovery paths

ASSUME MaxPaths >= 2 /\ MaxSlots >= 2
ASSUME RecoverySeqs \subseteq U16 \ {0}

VARIABLES
  keys,          \* self.keys: Fingerprints -> Key \cup {None}
  paths,         \* self.paths
  useTaproot,    \* self.use_taproot
  ctxDescriptor, \* ctx.descriptor: None or the built policy
  ctxKeys,       \* ctx.keys: Fingerprints -> alias \cup {None}
  ctxHwUsed      \* ctx.hw_is_used

vars == <<keys, paths, useTaproot, ctxDescriptor, ctxKeys, ctxHwUsed>>

(***************************************************************************)
(* The configurations the editor can hand to apply().  apply() never reads *)
(* a path's kind: a safety-net path is built as a recovery path of         *)
(* sequence DefaultSafetyNetSeq, so RecoverySeqs covers it.                *)
(***************************************************************************)
\* Paths with every slot filled; beside another path one holds at most
\* MaxSlots - 1 slots.
FilledPaths(kind, seqs) ==
  UNION {{[kind |-> kind, seq |-> s, keys |-> ks, threshold |-> t, warning |-> None] :
            s \in seqs, ks \in [1..n -> Key], t \in 1..n} : n \in 1..MaxSlots - 1}

TotalSlots(ps) ==
  LET RECURSIVE Sum(_)
      Sum(s) == IF s = <<>> THEN 0 ELSE Len(Head(s).keys) + Sum(Tail(s))
  IN  Sum(ps)

PrimaryChoices  == FilledPaths("Primary", {0})
RecoveryChoices == FilledPaths("Recovery", RecoverySeqs)

\* The registry holds a key for every fingerprint in a slot (the editor's
\* SlotKeysRegistered).  Keys registered but in no slot are never read by
\* apply() and are left out.
RegistryFor(ps) ==
  [f \in Fingerprints |-> IF f \in UsedFingerprints(ps)
                          THEN CHOOSE k \in Key : k.fg = f ELSE None]

\* The editor's messages change one path at a time; check_for_warning runs
\* after each structural edit.
Configure(ps) ==
  /\ TotalSlots(ps) <= MaxSlots
  /\ paths' = CheckForWarning(ps)
  /\ keys' = RegistryFor(ps)
  /\ UNCHANGED <<useTaproot, ctxDescriptor, ctxKeys, ctxHwUsed>>

\* Fill, re-key, re-threshold or re-time-lock path i.
ChangePath(i, p) ==
  /\ i \in DOMAIN paths
  /\ p \in IF i = 1 THEN PrimaryChoices ELSE RecoveryChoices
  /\ Configure([paths EXCEPT ![i] = p])

\* AddRecoveryPath / AddSafetyNetPath, followed by filling the new path.
AddPath(p) ==
  /\ Len(paths) < MaxPaths
  /\ Configure(Append(paths, p))

\* Deleting the last slot of a non-primary path drops the path.
RemovePath(i) ==
  /\ 1 < i /\ i <= Len(paths) /\ Len(paths) > 2
  /\ Configure(RemoveAt(paths, i))

\* CreateTaprootDescriptor(b).
SetTaproot(b) ==
  /\ useTaproot' = b
  /\ UNCHANGED <<keys, paths, ctxDescriptor, ctxKeys, ctxHwUsed>>

(***************************************************************************)
(* apply(), invoked by "Next", which the view offers only when valid()     *)
(* holds; every slot is then filled, so the "Must be present" expects do   *)
(* not fire and the primary path yields at least one key (the              *)
(* spending_keys.is_empty() return is not reachable).  ctx.keys is rebuilt *)
(* from the registry before the library is called; ctx.descriptor and      *)
(* ctx.hw_is_used are set only when the library accepts the policy.        *)
(***************************************************************************)
Apply ==
  /\ ValidPaths(paths, useTaproot)
  /\ ctxKeys' = [f \in Fingerprints |->
                   IF f \in UsedFingerprints(paths) THEN keys[f].name ELSE None]
  /\ \/ /\ ctxDescriptor' = BuildPolicy(paths, useTaproot)
        /\ ctxHwUsed' = \E f \in UsedFingerprints(paths) : keys[f].source = "Device"
     \/ UNCHANGED <<ctxDescriptor, ctxHwUsed>>   \* self.error = PolicyRejected
  /\ UNCHANGED <<keys, paths, useTaproot>>

Init ==
  /\ keys = [f \in Fingerprints |-> None]
  /\ paths = <<NewPrimaryPath(1, 1), NewRecoveryPath(1, 1)>>
  /\ useTaproot = FALSE
  /\ ctxDescriptor = None
  /\ ctxKeys = [f \in Fingerprints |-> None]
  /\ ctxHwUsed = FALSE

Next ==
  \/ \E i \in 1..MaxPaths, p \in PrimaryChoices \cup RecoveryChoices : ChangePath(i, p)
  \/ \E p \in RecoveryChoices : AddPath(p)
  \/ \E i \in 1..MaxPaths : RemovePath(i)
  \/ \E b \in BOOLEAN : SetTaproot(b)
  \/ Apply

Spec == Init /\ [][Next]_vars

(***************************************************************************)
(* Properties.                                                             *)
(***************************************************************************)
TypeOK ==
  /\ keys \in [Fingerprints -> Key \cup {None}]
  /\ paths \in Seq(Path)
  /\ useTaproot \in BOOLEAN
  /\ ctxKeys \in [Fingerprints -> Names \cup {None}]
  /\ ctxHwUsed \in BOOLEAN
  /\ ctxDescriptor = None
     \/ \A pos \in Positions(ctxDescriptor) :
          EntryAt(ctxDescriptor, pos) \in Fingerprints \X (0..MaxSlots - 1)

\* In a descriptor built by apply(), no two key positions share a
\* fingerprint and a derivation index, even when one key is used several
\* times in a path or across paths (key_derivation_index): otherwise two
\* spending paths would derive the same child keys.
DistinctDerivations ==
  ctxDescriptor # None =>
    \A p, q \in Positions(ctxDescriptor) :
      p # q => EntryAt(ctxDescriptor, p) # EntryAt(ctxDescriptor, q)

(***************************************************************************)
(* Properties the spec states of apply(), which the code does not keep.    *)
(***************************************************************************)

\* Spec 4.4: apply() records in ctx.hw_is_used whether a key of the
\* descriptor is held on a hardware device (RegisterDescriptor then asks the
\* device to register it), however many applies came before.  A
\* fingerprint has one provenance here (KeySources of one element).
HwUsedMatchesDescriptor ==
  ctxHwUsed <=> /\ ctxDescriptor # None
                /\ \E pos \in Positions(ctxDescriptor) :
                     "Device" \in KeySources[EntryAt(ctxDescriptor, pos)[1]]

=============================================================================
