------------------------ MODULE MCDescriptorEditor ------------------------
(***************************************************************************)
(* Model-checking instance of DescriptorEditor: two keys, one held on a    *)
(* hardware device and one cosigner token; at most three paths with        *)
(* three key slots together.                                               *)
(***************************************************************************)
EXTENDS DescriptorEditor

CONSTANTS f1, f2

MCKeySources ==
  [f \in Fingerprints |-> CASE f = f1 -> {"Device"}
                            [] OTHER  -> {"Cosigner"}]

\* PathKind::can_choose_key_source_kind: a safety-net path takes only the
\* safety-net token, the other paths any key but that token.
MCAllowedSources ==
  [k \in PathKinds |-> IF k = "SafetyNet" THEN {"SafetyNetToken"}
                       ELSE Sources \ {"SafetyNetToken"}]

\* Hardware devices are the provenance that may lack taproot support.
MCTaprootSources == Sources \ {"Device"}
=============================================================================
