CONSTANTS
  v1 = v1
  c1 = c1
  v2 = v2
  Transactions = {v1}
  Conversions = {}
  MaxTokens = 2
  MinimumTokens = 1
  MaximumTokens = 2
  Surroundings <- MCWalletChange
  MaxRestarts = 0
SPECIFICATION Spec
CHECK_DEADLOCK FALSE
INVARIANTS
  RetryHasWork
