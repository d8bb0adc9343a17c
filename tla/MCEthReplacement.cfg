SPECIFICATION Spec
CONSTANTS
  TxIds = {1, 2, 3}
  PaymentIds = {2}
  NoTx = NoTx
  KMaxConfirmed = 1
  KMaxRejected = 1
  NoNonce = NoNonce
  Chains = {eth}
  DefaultChain = eth
  Accounts = {a1}
  HwAccounts = {}
  NoChain = NoChain
  NoSig = NoSig
  NoHash = NoHash
  MaxNonce = 1
  MaxVer = 2
  MaxNotices = 1
  Env = {"Speedup", "Retry", "RpcError", "Restart", "Lag"}
PROPERTIES
  ImplementsWallet
  DroppedOnlyWhenDecided
CHECK_DEADLOCK FALSE
