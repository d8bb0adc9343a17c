SPECIFICATION Spec
CONSTANTS
  TxIds = {1}
  PaymentIds = {1}
  NoTx = NoTx
  KMaxConfirmed = 1
  KMaxRejected = 1
  NoNonce = NoNonce
  Chains = {eth, goerli}
  DefaultChain = eth
  Accounts = {a1}
  HwAccounts = {}
  NoChain = NoChain
  NoSig = NoSig
  NoHash = NoHash
  MaxNonce = 0
  MaxVer = 1
  MaxNotices = 1
  Env = {"SwitchChain", "Reset", "Reject", "LateReject", "Eip1559", "SetNonce"}
INVARIANTS
  SignaturesAuthorized
  ConfirmedWasMined
CHECK_DEADLOCK FALSE
