SPECIFICATION Spec
CONSTANTS
  TxIds = {1, 2, 3}
  NoTx = NoTx
  KMaxConfirmed = 1
  KMaxRejected = 1
  Networks = {mainnet, testnet}
  DefaultNetwork = mainnet
  NoNonce = NoNonce
  NoCid = NoCid
  MaxNonce = 3
  MaxNotices = 2
  Surroundings <- MCSurroundings
INVARIANTS
  TypeOK
  NoGapBelowNextNonce
  NextNonceNotConsumed
  FreshWhenListedInNonceOrder
  ConfirmedWasExecuted
  PaidAtMostOnce
PROPERTY RetiresOldestBeyondLimit
CHECK_DEADLOCK FALSE
