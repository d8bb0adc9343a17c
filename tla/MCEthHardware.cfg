SPECIFICATION Spec
CONSTANTS
  TxIds = {1, 2}
  PaymentIds = {1, 2}
  NoTx = NoTx
  KMaxConfirmed = 1
  KMaxRejected = 1
  NoNonce = NoNonce
  Chains = {eth}
  DefaultChain = eth
  Accounts = {a1}
  HwAccounts = {a1}
  NoChain = NoChain
  NoSig = NoSig
  NoHash = NoHash
  MaxNonce = 1
  MaxVer = 1
  MaxNotices = 1
  Env = {"Edit", "Foreign","Retry","RpcError","SignOnly","Lock"}
INVARIANTS
  PaidAtMostOnce
CHECK_DEADLOCK FALSE
