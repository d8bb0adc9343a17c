SPECIFICATION Spec
CONSTANTS
  Tokens = {1, 2}
  NoOwner = NoOwner
  Items = {1, 2, 3}
  ItemType <- MCType
  ItemAmount <- MCAmount
  ItemPublishers <- MCPublishers
  Publishers = {1, 2}
  Contributions = {1, 2}
  NoContribution = NoContribution
  NoItem = NoItem
  Months <- MCMonths
  RetryLimit = 1
  MaxExternal = 2
INVARIANTS
  TypeOK
  OneContinuation
  QueueNeverWedged
  PaidWithRedeemedTokens
  TransferredOncePerStart
PROPERTY FinalStepIsFinal
CHECK_DEADLOCK FALSE
