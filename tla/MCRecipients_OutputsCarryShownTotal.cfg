CONSTANTS
  wpkh = wpkh
  wsh = wsh
  BadText = BadText
  Empty = Empty
  None = None
  Addresses = {wpkh, wsh}
  DustValue <- MCDust
  AmountInputs = {0, 300, 500}
  MaxRecipients = 2
SPECIFICATION Spec
INVARIANT
  OutputsCarryShownTotal
