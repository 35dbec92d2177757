SPECIFICATION FairSpec
CONSTANTS
  Once = TRUE
  Rolling = FALSE
  MaxTriggers = 1
  MaxTotal = 1
  MaxDaily = 1
  Chains = {c1}
  Requests = {r1}
  MaxManual = 1
  MaxFaults = 2
INVARIANTS
  ExecutedIsCounted
  VerdictMatchesLedger
PROPERTIES
  ExecutingResolves
  RetryResolves
