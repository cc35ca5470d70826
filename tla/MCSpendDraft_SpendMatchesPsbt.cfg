CONSTANTS
  c1 = c1
  wpkh = wpkh
  wsh = wsh
  Empty = Empty
  BadText = BadText
  Invalid = Invalid
  None = None
  CoinIds = {c1}
  CoinAmount <- MCCoinAmount
  Addresses = {wpkh, wsh}
  ScriptLen <- MCScriptLen
  RecipientAmounts = {500}
  FeerateInputs = {1}
  MaxPending = 1
SPECIFICATION Spec
INVARIANT
  SpendMatchesPsbt
