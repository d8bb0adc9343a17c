SPECIFICATION FairSpec
CONSTANTS
  Tokens = {1, 2}
  NoOwner = NoOwner
  Items = {1, 2, 3}
  ItemType <- MCType
  ItemAmount <- MCAmount
  ItemPublishers <- MCPublishers
  Publishers = {1, 2}
  Contributions = {1, 2}
  NoContribution = NoContribution
  NoItem = NoItem
  Months <- MCReconcile
  RetryLimit = 1
  MaxExternal = 0
PROPERTY ReservedTokensAreUsed
CHECK_DEADLOCK FALSE
