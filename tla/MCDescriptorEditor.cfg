CONSTANTS
  f1 = f1
  f2 = f2

  Fingerprints = {f1, f2}
  Names = {n1}
  Sources = {"Device", "Cosigner", "SafetyNetToken"}
  KeySources <- MCKeySources
  AllowedSources <- MCAllowedSources
  TaprootSources <- MCTaprootSources
  SeqInputs = {0, 2, 65536}
  DefaultRecoverySeq = 1
  DefaultSafetyNetSeq = 2
  MaxPaths = 3
  MaxSlots = 3
  MaxTasks = 2
  TemplateChoices = {"SimpleInheritance", "Custom"}
  None = None
SPECIFICATION Spec
INVARIANTS
  TypeOK
  PathsWellFormed
  SlotKeysRegistered
  WarningsSound
