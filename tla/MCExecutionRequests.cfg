SPECIFICATION Spec
CONSTANTS
  Once = TRUE
  Rolling = FALSE
  MaxTriggers = 1
  MaxTotal = 1
  MaxDaily = 1
  Chains = {c1}
  Requests = {r1, r2}
  MaxManual = 2
  MaxFaults = 0
SYMMETRY RequestSymmetry
INVARIANTS
  ManualOrderAtMostOnce
PROPERTIES
  FinalStatusIsFinal
  OnceOrdersUnderClaim
