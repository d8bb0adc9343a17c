CONSTANTS
  v1 = v1
  c1 = c1
  v2 = v2
  Transactions = {v1, c1}
  Conversions = {c1}
  MaxTokens = 3
  MinimumTokens = 2
  MaximumTokens = 2
  Surroundings <- MCSurroundings
  MaxRestarts = 1
SPECIFICATION Spec
CHECK_DEADLOCK FALSE
INVARIANTS
  TypeOK
  OpenIsInOnePlace
  TokensAreSpentOnce
  QueueIsServed
  EarningsAreKept
  ReconciledWasCredited
  PayoutGoesOn
  RefillGoesOn
