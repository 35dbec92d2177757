SPECIFICATION FairSpec
CONSTANTS
  o1 = o1
  o2 = o2
  a1 = a1
  a2 = a2
  t1 = t1
  Orders = {o1, o2}
  Accounts = {a1, a2}
  Tokens = {t1}
  AccountOf <- TwoAccounts
  TokenOf <- SameToken
  Size <- Sizes
  BatchLimit = 1
  Broken = {a2}
  MaxFaults = 1
  MaxCancels = 2
  MaxLost = 1
CHECK_DEADLOCK FALSE
INVARIANTS
  TypeOK
  VerdictIsTrue
PROPERTIES
  OrdersSettle
