CONSTANTS
  f1 = f1
  f2 = f2
  Fingerprints = {f1, f2}
  Names = {n1}
  Sources = {"Device", "Cosigner", "SafetyNetToken"}
  KeySources <- MCKeySources
  AllowedSources <- MCAllowedSources
  TaprootSources <- MCTaprootSources
  DefaultRecoverySeq = 1
  DefaultSafetyNetSeq = 3
  RecoverySeqs = {1, 2}
  MaxPaths = 3
  MaxSlots = 3
  None = None
SPECIFICATION Spec
INVARIANT HwUsedMatchesDescriptor
