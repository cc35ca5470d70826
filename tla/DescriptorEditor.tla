-------------------------- MODULE DescriptorEditor --------------------------
(***************************************************************************)
(* The DefineDescriptor installer step of liana-gui                        *)
(* (src/liana-gui/src/installer/step/descriptor/editor/mod.rs): the key    *)
(* registry (self.keys), the spending paths (self.paths) with their        *)
(* warnings, and the sub-flow (modal) that owns the step while it is       *)
(* open.  apply() is modelled in PolicyBuilder.                            *)
(*                                                                         *)
(* Every user or task message is one action: the handler of                *)
(* DefineDescriptor::update (or of a modal's update) in full.  Indices are *)
(* 1-based here where the code is 0-based.                                 *)
(***************************************************************************)
EXTENDS Descriptor, BagsExt

CONSTANTS
  TemplateChoices,     \* templates the user may pick on the template step
  SeqInputs,           \* numbers the user may type in the sequence modal
  MaxPaths,            \* bound on Len(paths): AddRecoveryPath is disabled above it
  MaxSlots,            \* bound on the key slots of all paths: AddKey, AddRecoveryPath
                       \* and AddSafetyNetPath are disabled when it is reached
  MaxTasks             \* bound on the modal Confirm tasks in flight

Templates == {"SimpleInheritance", "MultisigSecurity", "Custom"}

ASSUME TemplateChoices \subseteq Templates /\ TemplateChoices # {}
ASSUME MaxPaths >= 2 /\ MaxSlots >= 2

VARIABLES
  keys,          \* self.keys: Fingerprints -> Key \cup {None}
  paths,         \* self.paths: Seq of Path records
  useTaproot,    \* self.use_taproot
  template,      \* self.descriptor_template
  modal,         \* self.modal: None or the open sub-flow
  tasks          \* messages of Confirm tasks not yet delivered (a bag)

vars == <<keys, paths, useTaproot, template, modal, tasks>>

\* The paths load_template installs for a template.
TemplatePaths(t) ==
  IF t = "MultisigSecurity"
  THEN <<NewPrimaryPath(2, 2), NewRecoveryPath(3, 2)>>
  ELSE <<NewPrimaryPath(1, 1), NewRecoveryPath(1, 1)>>

\* load_template: reinstall the template's paths if it changed or none exist.
LoadTemplate(t) ==
  IF template # t \/ paths = <<>> THEN TemplatePaths(t) ELSE paths

(***************************************************************************)
(* Sequential loops of the handlers.                                       *)
(***************************************************************************)
\* KeysEdited: for each coordinate in order, put the key in the slot unless
\* the path already holds an equal key ("Key ... already in path").
RECURSIVE PlaceKey(_, _, _)
PlaceKey(ps, coords, k) ==
  IF coords = <<>> THEN ps
  ELSE LET c == Head(coords)
       IN  PlaceKey(IF Contains(ps[c[1]].keys, k) THEN ps
                    ELSE [ps EXCEPT ![c[1]].keys[c[2]] = k],
                    Tail(coords), k)

\* AliasEdited: rename every slot copy of the key with fingerprint fg.
RenameInPaths(ps, fg, alias) ==
  [i \in DOMAIN ps |->
     [ps[i] EXCEPT !.keys = [j \in DOMAIN ps[i].keys |->
        IF ps[i].keys[j] # None /\ ps[i].keys[j].fg = fg
        THEN [ps[i].keys[j] EXCEPT !.name = alias]
        ELSE ps[i].keys[j]]]]

\* Seeded fault: the primary path is dropped too when its last slot goes.
DeleteSlotAnyPath(ps, i, j) ==
  LET p   == ps[i]
      ks  == RemoveAt(p.keys, j)
      p2  == [p EXCEPT !.keys = ks,
                       !.threshold = IF @ > Len(ks) THEN @ - 1 ELSE @]
      ps2 == [ps EXCEPT ![i] = p2]
  IN  IF ks = <<>> THEN RemoveAt(ps2, i) ELSE ps2

\* Seeded fault: the usize threshold lowered on every Delete, not only
\* when it exceeds the slots left.
DeleteSlotAlwaysLower(ps, i, j) ==
  LET p   == ps[i]
      ks  == RemoveAt(p.keys, j)
      p2  == [p EXCEPT !.keys = ks, !.threshold = @ - 1]
      ps2 == [ps EXCEPT ![i] = p2]
  IN  IF i > 1 /\ ks = <<>> THEN RemoveAt(ps2, i) ELSE ps2

\* DefineKey::Delete: remove slot j, clamp the threshold down by one, and
\* drop a non-primary path left without slots.
DeleteSlot(ps, i, j) ==
  LET p   == ps[i]
      ks  == RemoveAt(p.keys, j)
      p2  == [p EXCEPT !.keys = ks,
                       !.threshold = IF @ > Len(ks) THEN @ - 1 ELSE @]
      ps2 == [ps EXCEPT ![i] = p2]
  IN  IF i > 1 /\ ks = <<>> THEN RemoveAt(ps2, i) ELSE ps2

(***************************************************************************)
(* The sub-flows.  A modal owns the step while it is open: messages of the *)
(* step's own widgets are only produced when no modal is shown.            *)
(***************************************************************************)
Coord   == {<<i, j>> : i \in 1..MaxPaths, j \in 1..MaxSlots}
Slots   == {c \in Coord : c[1] \in DOMAIN paths /\ c[2] \in DOMAIN paths[c[1]].keys}
\* The step's own widgets are behind an open modal: an event of theirs is
\* only produced with no modal shown, and so never queued ahead of the
\* message of a Confirm task (the task's future is ready at once).
NoModal == modal = None /\ tasks = EmptyBag
TotalSlots == LET RECURSIVE Sum(_)
                  Sum(ps) == IF ps = <<>> THEN 0 ELSE Len(Head(ps).keys) + Sum(Tail(ps))
              IN  Sum(paths)
ModalIs(kind) == modal # None /\ modal.kind = kind

\* edit_key_modal: the SelectKeySource sub-flow for some coordinates.
SelectKeyModal(coords) == [kind |-> "SelectKey", coords |-> coords]

\* u16::from_str on a typed number.
ParseU16(v) == IF v \in U16 THEN v ELSE None

Step(ps) == paths' = ps

(***************************************************************************)
(* DefineDescriptor::update: one action per message.  self.error, the      *)
(* message shown after a refused apply(), is display only and left out.    *)
(***************************************************************************)
Close ==
  /\ modal' = None
  /\ UNCHANGED <<keys, paths, useTaproot, template, tasks>>

CreateTaprootDescriptor(b) ==
  /\ NoModal
  /\ useTaproot' = b
  /\ Step(CheckForWarning(paths))
  /\ UNCHANGED <<keys, template, modal, tasks>>

ChangeTemplate(t) ==
  /\ NoModal
  /\ template' = t
  /\ UNCHANGED <<keys, paths, useTaproot, modal, tasks>>

AddRecoveryPath ==
  /\ NoModal
  /\ Len(paths) < MaxPaths /\ TotalSlots < MaxSlots
  /\ Step(Append(paths, NewRecoveryPath(1, 1)))
  /\ UNCHANGED <<keys, useTaproot, template, modal, tasks>>

AddSafetyNetPath ==
  /\ NoModal
  /\ Len(paths) < MaxPaths /\ TotalSlots < MaxSlots
  /\ Step(IF \E i \in DOMAIN paths : paths[i].kind = "SafetyNet"
          THEN paths ELSE Append(paths, NewSafetyNetPath))
  /\ UNCHANGED <<keys, useTaproot, template, modal, tasks>>

\* KeysEdited(coordinates, Existing(fg)) from the SelectKeySource modal.
KeysEditedExisting(fg) ==
  /\ ModalIs("SelectKey")
  /\ IF keys[fg] # None
     THEN Step(CheckForWarning(PlaceKey(paths, modal.coords, keys[fg])))
     ELSE Step(paths)
  /\ modal' = None
  /\ UNCHANGED <<keys, useTaproot, template, tasks>>

\* KeysEdited(coordinates, New(key)): the key is inserted (replacing any
\* key of that fingerprint) and placed at the coordinates.
KeysEditedNew(k) ==
  /\ ModalIs("SelectKey")
  /\ keys' = [keys EXCEPT ![k.fg] = k]
  /\ Step(CheckForWarning(PlaceKey(paths, modal.coords, k)))
  /\ modal' = None
  /\ UNCHANGED <<useTaproot, template, tasks>>

KeysEditedNone ==
  /\ ModalIs("SelectKey")
  /\ modal' = None
  /\ UNCHANGED <<keys, paths, useTaproot, template, tasks>>

\* KeysEdit(path_kind, coordinates) sent by a template view.
KeysEdit(coords) ==
  /\ NoModal
  /\ \A n \in DOMAIN coords : coords[n] \in Slots
  /\ modal' = SelectKeyModal(coords)
  /\ UNCHANGED <<keys, paths, useTaproot, template, tasks>>

\* AliasEdited(fg, alias), sent by the EditKeyAlias modal when it saves.
AliasEdited(alias) ==
  /\ ModalIs("EditAlias")
  /\ LET fg == modal.fg
     IN  /\ keys' = IF keys[fg] # None THEN [keys EXCEPT ![fg].name = alias] ELSE keys
         /\ Step(RenameInPaths(paths, fg, alias))
  /\ modal' = None
  /\ UNCHANGED <<useTaproot, template, tasks>>

\* EditKeyAliasMessage::Close: the alias modal is dismissed.
EditKeyAliasClose ==
  /\ ModalIs("EditAlias")
  /\ modal' = None
  /\ UNCHANGED <<keys, paths, useTaproot, template, tasks>>

\* EditKeyAliasMessage::DoReplace: the alias modal hands over to key selection.
DoReplace ==
  /\ ModalIs("EditAlias")
  /\ modal' = SelectKeyModal(modal.coords)
  /\ UNCHANGED <<keys, paths, useTaproot, template, tasks>>

\* Seeded fault: the registry is cleared but not the paths.
ResetKeepingPaths ==
  /\ NoModal
  /\ keys' = [f \in Fingerprints |-> None]
  /\ paths' = LoadTemplate(template)
  /\ modal' = None
  /\ UNCHANGED <<useTaproot, template, tasks>>

Reset ==
  /\ NoModal
  /\ keys' = [f \in Fingerprints |-> None]
  /\ paths' = TemplatePaths(template)   \* load_template after paths.clear()
  /\ modal' = None
  /\ UNCHANGED <<useTaproot, template, tasks>>

\* Path(i, EditSequence) / EditSequenceModal::new.
EditSequence(i) ==
  /\ NoModal
  /\ i \in DOMAIN paths
  /\ modal' = [kind |-> "EditSequence", i |-> i, value |-> paths[i].seq, valid |-> TRUE]
  /\ UNCHANGED <<keys, paths, useTaproot, template, tasks>>

\* ThresholdSequenceModal::SequenceEdited(seq) inside the sequence modal.
SequenceModalEdited(v) ==
  /\ ModalIs("EditSequence")
  /\ modal' = [modal EXCEPT !.value = v, !.valid = ParseU16(v) \notin {None, 0}]
  /\ UNCHANGED <<keys, paths, useTaproot, template, tasks>>

\* ThresholdSequenceModal::Confirm in the sequence modal: a valid u16 is
\* sent back as Path(path_index, SequenceEdited(seq)) by a Task; the modal
\* stays open until that message is handled.
SequenceConfirm ==
  /\ ModalIs("EditSequence")
  /\ modal.valid /\ ParseU16(modal.value) # None
  /\ BagCardinality(tasks) < MaxTasks
  /\ tasks' = BagAdd(tasks, [kind |-> "Seq", i |-> modal.i, v |-> ParseU16(modal.value)])
  /\ UNCHANGED <<keys, paths, useTaproot, template, modal>>

\* Path(i, SequenceEdited(seq)): whatever modal is open closes, and only a
\* Recovery path takes the new sequence.
SequenceEdited(m) ==
  /\ BagIn(m, tasks) /\ m.kind = "Seq"
  /\ tasks' = BagRemove(tasks, m)
  /\ LET ps == IF m.i \in DOMAIN paths /\ paths[m.i].kind = "Recovery"
               THEN [paths EXCEPT ![m.i].seq = m.v] ELSE paths
     IN  Step(CheckForWarning(ps))
  /\ modal' = None
  /\ UNCHANGED <<keys, useTaproot, template>>

\* Path(i, EditThreshold) / EditThresholdModal::new((threshold, keys.len())).
EditThreshold(i) ==
  /\ NoModal
  /\ i \in DOMAIN paths
  /\ modal' = [kind |-> "EditThreshold", i |-> i,
               t |-> paths[i].threshold, n |-> Len(paths[i].keys)]
  /\ UNCHANGED <<keys, paths, useTaproot, template, tasks>>

\* ThresholdSequenceModal::ThresholdEdited(t): kept only if t <= slot count.
ThresholdModalEdited(t) ==
  /\ ModalIs("EditThreshold")
  /\ modal' = IF t <= modal.n THEN [modal EXCEPT !.t = t] ELSE modal
  /\ UNCHANGED <<keys, paths, useTaproot, template, tasks>>

\* ThresholdSequenceModal::Confirm in the threshold modal: the threshold is
\* sent back as Path(path_index, ThresholdEdited(t)) by a Task.
ThresholdConfirm ==
  /\ ModalIs("EditThreshold")
  /\ BagCardinality(tasks) < MaxTasks
  /\ tasks' = BagAdd(tasks, [kind |-> "Thr", i |-> modal.i, v |-> modal.t])
  /\ UNCHANGED <<keys, paths, useTaproot, template, modal>>

\* Path(i, ThresholdEdited(t)): the modal closes; no warning refresh.
ThresholdEdited(m) ==
  /\ BagIn(m, tasks) /\ m.kind = "Thr"
  /\ tasks' = BagRemove(tasks, m)
  /\ Step(IF m.i \in DOMAIN paths
          THEN [paths EXCEPT ![m.i].threshold = m.v] ELSE paths)
  /\ modal' = None
  /\ UNCHANGED <<keys, useTaproot, template>>

AddKey(i) ==
  /\ NoModal
  /\ i \in DOMAIN paths
  /\ TotalSlots < MaxSlots
  /\ Step(CheckForWarning([paths EXCEPT ![i].keys = Append(@, None),
                                        ![i].threshold = @ + 1]))
  /\ UNCHANGED <<keys, useTaproot, template, modal, tasks>>

\* DefineKey::EditAlias: opens EditKeyAlias only on a filled slot.
EditAlias(c) ==
  /\ NoModal
  /\ c \in Slots
  /\ LET k == paths[c[1]].keys[c[2]]
     IN  modal' = IF k # None
                  THEN [kind |-> "EditAlias", fg |-> k.fg, coords |-> <<c>>]
                  ELSE modal
  /\ UNCHANGED <<keys, paths, useTaproot, template, tasks>>

\* DefineKey::Edit: key selection for one slot.
EditKey(c) ==
  /\ NoModal
  /\ c \in Slots
  /\ modal' = SelectKeyModal(<<c>>)
  /\ UNCHANGED <<keys, paths, useTaproot, template, tasks>>

\* Seeded fault: Delete without the check_setup() that follows it.
DeleteKeyUnchecked(c) ==
  /\ NoModal
  /\ c \in Slots
  /\ Step(DeleteSlot(paths, c[1], c[2]))
  /\ UNCHANGED <<keys, useTaproot, template, modal, tasks>>

DeleteKey(c) ==
  /\ NoModal
  /\ c \in Slots
  /\ Step(CheckForWarning(DeleteSlot(paths, c[1], c[2])))
  /\ UNCHANGED <<keys, useTaproot, template, modal, tasks>>

\* Step::load_context: the wizard re-enters the step with ctx's template.
LoadContext(t) ==
  /\ NoModal
  /\ paths' = LoadTemplate(t)
  /\ template' = t
  /\ UNCHANGED <<keys, useTaproot, modal, tasks>>

(***************************************************************************)
(* Specification.  The step is created by DefineDescriptor::new and then   *)
(* load_context installs the paths of the template chosen before.          *)
(***************************************************************************)
Init ==
  /\ keys = [f \in Fingerprints |-> None]
  /\ \E t \in TemplateChoices : template = t /\ paths = TemplatePaths(t)
  /\ useTaproot = FALSE
  /\ modal = None
  /\ tasks = EmptyBag

Next ==
  \/ Close
  \/ \E b \in BOOLEAN : CreateTaprootDescriptor(b)
  \/ \E t \in TemplateChoices : ChangeTemplate(t) \/ LoadContext(t)
  \/ AddRecoveryPath
  \/ AddSafetyNetPath
  \/ \E f \in Fingerprints : KeysEditedExisting(f)
  \/ \E k \in Key : KeysEditedNew(k)
  \/ KeysEditedNone
  \/ \E c \in Coord : KeysEdit(<<c>>)
  \/ \E n \in Names : AliasEdited(n)
  \/ DoReplace
  \/ EditKeyAliasClose
  \/ Reset
  \/ \E i \in 1..MaxPaths : EditSequence(i) \/ EditThreshold(i) \/ AddKey(i)
  \/ \E v \in SeqInputs : SequenceModalEdited(v)
  \/ SequenceConfirm
  \/ \E t \in 1..MaxSlots : ThresholdModalEdited(t)
  \/ ThresholdConfirm
  \/ \E m \in BagToSet(tasks) : SequenceEdited(m) \/ ThresholdEdited(m)
  \/ \E c \in Coord : EditAlias(c) \/ EditKey(c) \/ DeleteKey(c)

Spec == Init /\ [][Next]_vars

(***************************************************************************)
(* Properties.                                                             *)
(***************************************************************************)
ModalState ==
  {None}
  \cup [kind : {"SelectKey"}, coords : Seq(Coord)]
  \cup [kind : {"EditAlias"}, fg : Fingerprints, coords : Seq(Coord)]
  \cup [kind : {"EditSequence"}, i : 1..MaxPaths, value : SeqInputs \cup U16, valid : BOOLEAN]
  \cup [kind : {"EditThreshold"}, i : 1..MaxPaths, t : Nat, n : Nat]

TypeOK ==
  /\ keys \in [Fingerprints -> Key \cup {None}]
  /\ paths \in Seq(Path)
  /\ useTaproot \in BOOLEAN
  /\ template \in Templates
  /\ modal \in ModalState
  /\ BagToSet(tasks) \subseteq [kind : {"Seq", "Thr"}, i : 1..MaxPaths, v : U16]

\* The path list DefineDescriptor keeps through any sequence of edits: the
\* primary path first and only there, at most one safety-net path, no
\* non-primary path without slots (Delete prunes it) or with a zero
\* time-lock (the sequence modal refuses 0), and a threshold within
\* the slot count (AddKey raises it, Delete clamps it, the modal bounds it).
PathsWellFormed ==
  /\ paths # <<>>
  /\ paths[1].kind = "Primary"
  /\ \A i \in DOMAIN paths :
       /\ i > 1 => paths[i].kind # "Primary" /\ paths[i].keys # <<>> /\ paths[i].seq # 0
       /\ IF paths[i].keys = <<>> THEN paths[i].threshold = 0
          ELSE 1 <= paths[i].threshold /\ paths[i].threshold <= Len(paths[i].keys)
  /\ Cardinality({i \in DOMAIN paths : paths[i].kind = "SafetyNet"}) <= 1

\* Every filled slot names a fingerprint of the registry: apply() looks each
\* one up with expect("Must be present at this step").
SlotKeysRegistered ==
  \A i \in DOMAIN paths : \A k \in Filled(paths[i]) : keys[k.fg] # None

\* A warning shown beside a path still applies to the path list as it now
\* is: check_for_warning is called by hand in each handler that changes the
\* paths (Delete through check_setup, SequenceEdited, AddKey, KeysEdited,
\* CreateTaprootDescriptor), and one that forgot it would leave, say, a
\* DuplicateSequence whose twin path was deleted or re-timed.  (Warnings
\* may be missing: AddRecoveryPath and AddSafetyNetPath do not recompute.)
WarningHolds(w, p, dups) ==
  CASE w = "DuplicateSequence"       -> p.seq \in dups
    [] w = "OnlyCosignerKeys"        -> OnlyCosignerKeys(p)
    [] w = "KeySourceKindDisallowed" -> KeySourceKindDisallowed(p)
    [] w = None                      -> TRUE

WarningsSound ==
  \A i \in DOMAIN paths :
    WarningHolds(paths[i].warning, paths[i], DuplicateSequences(paths))

=============================================================================
