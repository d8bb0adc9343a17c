SPECIFICATION Spec
CONSTANTS
  TxIds = {1, 2}
  NoTx = NoTx
  KMaxConfirmed = 2
  KMaxRejected = 2
  Networks = {mainnet, testnet}
  DefaultNetwork = mainnet
  NoBlockhash = NoBlockhash
  NoSignature = NoSignature
  Validity = 1
  CacheLife = 0
  MaxHeight = 2
  MaxNotices = 1
  MaxStatusRpc = 2
  Surroundings <- MCSurroundings
INVARIANTS
  TypeOK
  DroppedNeverExecutes
  ConfirmedIsFinal
  PaidAtMostOnce
  TrackerRuns
PROPERTY SettledStaysSettled
CHECK_DEADLOCK FALSE
