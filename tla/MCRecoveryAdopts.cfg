SPECIFICATION Spec
CONSTANTS
  Once = TRUE
  Rolling = FALSE
  MaxTriggers = 1
  MaxTotal = 1
  MaxDaily = 1
  Chains = {c1}
  Requests = {}
  MaxManual = 0
  MaxFaults = 1
INVARIANTS
  CreatedFailsClosed
