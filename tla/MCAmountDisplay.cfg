CONSTANTS
  Amounts <- MCAmounts
SPECIFICATION Spec
INVARIANTS
  TypeOK
  DisplayMatchesReference
