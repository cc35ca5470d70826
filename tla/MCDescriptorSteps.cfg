CONSTANTS
  d1 = d1
  d2 = d2
  dMain = dMain
  f1 = f1
  Empty = Empty
  BadText = BadText
  UserRefused = UserRefused
  DeviceError = DeviceError
  None = None
  Descriptors = {d1, d2, dMain}
  XpubNetwork <- MCXpubNetwork
  Network = "Testnet"
  Devices <- MCDevices
  MaxPending = 2
  MaxHws = 2
  Flows = {"Import", "Define"}
SPECIFICATION Spec
INVARIANTS
  TypeOK
  BackupDoneIsCurrent
  StepsHaveDescriptor
