SPECIFICATION FairSpec
CONSTANTS
  TxIds = {1}
  PaymentIds = {1}
  NoTx = NoTx
  KMaxConfirmed = 1
  KMaxRejected = 1
  NoNonce = NoNonce
  Chains = {eth}
  DefaultChain = eth
  Accounts = {a1}
  HwAccounts = {}
  NoChain = NoChain
  NoSig = NoSig
  NoHash = NoHash
  MaxNonce = 1
  MaxVer = 0
  MaxNotices = 1
  Env = {"Reject", "LateReject", "Revert", "Lag", "SignOnly", "Lock"}
INVARIANTS
  ConfirmedSucceeded
PROPERTIES
  SubmittedIsResolved
CHECK_DEADLOCK FALSE
