----------------------------- MODULE Descriptor -----------------------------
(***************************************************************************)
(* The data of the descriptor editor of liana-gui                          *)
(* (src/liana-gui/src/installer/step/descriptor/editor/mod.rs) shared by   *)
(* the editor (DescriptorEditor) and the policy builder (PolicyBuilder):   *)
(* keys, spending paths, check_for_warning, valid() and the derivation     *)
(* bookkeeping of apply().  No variables: every operator takes the paths   *)
(* it works on.  Indices are 1-based here where the code is 0-based.       *)
(***************************************************************************)
EXTENDS Integers, Sequences, FiniteSets, SequencesExt

CONSTANTS
  Fingerprints,        \* master fingerprints of the keys the user may enter
  Names,               \* key aliases the user may type
  Sources,             \* key provenances (KeySource kinds) that may occur
  KeySources,          \* [Fingerprints -> SUBSET Sources]: how each key may be entered
  AllowedSources,      \* [PathKinds -> SUBSET Sources]: can_choose_key_source_kind
  TaprootSources,      \* provenances for which is_compatible_taproot() holds
  DefaultRecoverySeq,  \* sequence of Path::new_recovery_path()
  DefaultSafetyNetSeq, \* sequence of Path::new_safety_net_path()
  None                 \* model value: empty slot, no modal, absent entry

PathKinds == {"Primary", "Recovery", "SafetyNet"}
Warnings  == {"DuplicateSequence", "OnlyCosignerKeys", "KeySourceKindDisallowed"}
U16       == 0..65535

ASSUME AllowedSources \in [PathKinds -> SUBSET Sources]
ASSUME TaprootSources \subseteq Sources
ASSUME KeySources \in [Fingerprints -> (SUBSET Sources) \ {{}}]
ASSUME {DefaultRecoverySeq, DefaultSafetyNetSeq} \subseteq U16 \ {0}

\* A Key of the registry: fingerprint, alias and provenance.
Key  == UNION {[fg : {f}, name : Names, source : KeySources[f]] : f \in Fingerprints}
Slot == Key \cup {None}

(***************************************************************************)
(* Path constructors of installer/descriptor (not under src/).  The        *)
(* primary path's sequence reads as 0 in as_u16().                         *)
(***************************************************************************)
NewPath(kind, seq, n, t) ==
  [kind |-> kind, seq |-> seq, keys |-> [j \in 1..n |-> None],
   threshold |-> t, warning |-> None]
NewPrimaryPath(n, t)  == NewPath("Primary", 0, n, t)
NewRecoveryPath(n, t) == NewPath("Recovery", DefaultRecoverySeq, n, t)
NewSafetyNetPath      == NewPath("SafetyNet", DefaultSafetyNetSeq, 1, 1)

Path == [kind : PathKinds, seq : U16, keys : Seq(Slot), threshold : Nat,
         warning : Warnings \cup {None}]

(***************************************************************************)
(* check_for_warning: sequences used by two paths are duplicates; then     *)
(* each path gets DuplicateSequence, OnlyCosignerKeys (every slot filled   *)
(* with a cosigner token), KeySourceKindDisallowed, or no warning.         *)
(***************************************************************************)
DuplicateSequences(ps) ==
  {ps[i].seq : i \in {i \in DOMAIN ps :
                        \E j \in DOMAIN ps : j # i /\ ps[j].seq = ps[i].seq}}

Filled(p) == {p.keys[j] : j \in {j \in DOMAIN p.keys : p.keys[j] # None}}

\* all() over the slots: every slot is filled with a cosigner token (true
\* of a path with no slots).
OnlyCosignerKeys(p) ==
  \A j \in DOMAIN p.keys : p.keys[j] # None /\ p.keys[j].source = "Cosigner"

\* Some filled slot holds a key the path's kind may not choose.
KeySourceKindDisallowed(p) ==
  \E k \in Filled(p) : k.source \notin AllowedSources[p.kind]

PathWarning(p, dups) ==
  CASE p.seq \in dups              -> "DuplicateSequence"
    [] OnlyCosignerKeys(p)         -> "OnlyCosignerKeys"
    [] KeySourceKindDisallowed(p)  -> "KeySourceKindDisallowed"
    [] OTHER                       -> None

CheckForWarning(ps) ==
  LET dups == DuplicateSequences(ps)
  IN  [i \in DOMAIN ps |-> [ps[i] EXCEPT !.warning = PathWarning(ps[i], dups)]]

(***************************************************************************)
(* valid(): at least two paths, every path valid (Path::valid: all slots   *)
(* filled, 1 <= threshold <= slots) and, for taproot, every slot holds a   *)
(* taproot-compatible key.  The view enables "Next" (apply) only then.     *)
(***************************************************************************)
PathValid(p) ==
  /\ \A j \in DOMAIN p.keys : p.keys[j] # None
  /\ 1 <= p.threshold /\ p.threshold <= Len(p.keys)

ValidPaths(ps, taproot) ==
  /\ \A i \in DOMAIN ps :
       /\ PathValid(ps[i])
       /\ taproot => \A j \in DOMAIN ps[i].keys :
                       ps[i].keys[j] # None /\ ps[i].keys[j].source \in TaprootSources
  /\ Len(ps) >= 2

(***************************************************************************)
(* apply()'s bookkeeping.  Each use of a fingerprint takes the next        *)
(* derivation index of that fingerprint (key_derivation_index), first over *)
(* the primary path and then over paths[1..] in vector order; a path is    *)
(* Single with one key and Multi(threshold, keys) otherwise; the recovery  *)
(* paths go into a map keyed by sequence (BTreeMap::insert).               *)
(***************************************************************************)
\* Seeded fault: the index of a fingerprint is not advanced after a use.
RECURSIVE DeriveKeysNoIncrement(_, _)
DeriveKeysNoIncrement(slots, idx) ==
  IF slots = <<>> THEN <<<<>>, idx>>
  ELSE LET fg   == Head(slots).fg
           rest == DeriveKeysNoIncrement(Tail(slots), idx)
       IN  << <<<<fg, idx[fg]>>>> \o rest[1], rest[2] >>

RECURSIVE DeriveKeys(_, _)
DeriveKeys(slots, idx) ==
  IF slots = <<>> THEN <<<<>>, idx>>
  ELSE LET fg   == Head(slots).fg
           rest == DeriveKeys(Tail(slots), [idx EXCEPT ![fg] = @ + 1])
       IN  << <<<<fg, idx[fg]>>>> \o rest[1], rest[2] >>

PathInfo(p, derived) ==
  IF Len(derived) = 1 THEN [thr |-> 1, keys |-> derived]
  ELSE [thr |-> p.threshold, keys |-> derived]

MapInsert(m, k, v) == [x \in DOMAIN m \cup {k} |-> IF x = k THEN v ELSE m[x]]

RECURSIVE BuildRecovery(_, _, _)
BuildRecovery(ps, idx, m) ==
  IF ps = <<>> THEN <<m, idx>>
  ELSE LET d == DeriveKeys(Head(ps).keys, idx)
       IN  BuildRecovery(Tail(ps), d[2], MapInsert(m, Head(ps).seq, PathInfo(Head(ps), d[1])))

\* Seeded fault: indices start at 1 (unwrap_or(&1)).
BuildPolicyFromOne(ps, taproot) ==
  LET prim == DeriveKeys(ps[1].keys, [f \in Fingerprints |-> 1])
      rec  == BuildRecovery(Tail(ps), prim[2], [s \in {} |-> None])
  IN  [primary |-> PathInfo(ps[1], prim[1]), recovery |-> rec[1], taproot |-> taproot]

\* The policy apply() hands to LianaPolicy::new / new_legacy.
BuildPolicy(ps, taproot) ==
  LET prim == DeriveKeys(ps[1].keys, [f \in Fingerprints |-> 0])
      rec  == BuildRecovery(Tail(ps), prim[2], [s \in {} |-> None])
  IN  [primary |-> PathInfo(ps[1], prim[1]), recovery |-> rec[1], taproot |-> taproot]

UsedFingerprints(ps) == {k.fg : k \in UNION {Filled(ps[i]) : i \in DOMAIN ps}}

\* Position of every derived key in a built policy: <<0, j>> in the primary
\* path, <<s, j>> in the recovery path of sequence s (never 0).
Positions(d) ==
  {<<0, j>> : j \in DOMAIN d.primary.keys}
  \cup UNION {{<<s, j>> : j \in DOMAIN d.recovery[s].keys} : s \in DOMAIN d.recovery}
EntryAt(d, pos) ==
  IF pos[1] = 0 THEN d.primary.keys[pos[2]] ELSE d.recovery[pos[1]].keys[pos[2]]

=============================================================================
