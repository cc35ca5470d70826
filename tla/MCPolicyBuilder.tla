--------------------------- MODULE MCPolicyBuilder ---------------------------
(***************************************************************************)
(* Model-checking instance of PolicyBuilder: a hardware-device key and a   *)
(* cosigner token, up to three paths holding three slots together, and two *)
(* recovery time-locks so that paths can share or differ in time-lock.     *)
(***************************************************************************)
EXTENDS PolicyBuilder

CONSTANTS f1, f2

MCKeySources ==
  [f \in Fingerprints |-> CASE f = f1 -> {"Device"}
                            [] OTHER  -> {"Cosigner"}]

\* PathKind::can_choose_key_source_kind: a safety-net path takes only the
\* safety-net token, the other paths any key but that token.
MCAllowedSources ==
  [k \in PathKinds |-> IF k = "SafetyNet" THEN {"SafetyNetToken"}
                       ELSE Sources \ {"SafetyNetToken"}]

\* Hardware devices are the provenance that may lack taproot support.
MCTaprootSources == Sources \ {"Device"}
=============================================================================
