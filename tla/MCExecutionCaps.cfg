SPECIFICATION Spec
CONSTANTS
  Once = FALSE
  Rolling = FALSE
  MaxTriggers = 3
  MaxTotal = 3
  MaxDaily = 1
  Chains = {c1, c2}
  Requests = {}
  MaxManual = 0
  MaxFaults = 1
SYMMETRY ChainSymmetry
VIEW Standing
INVARIANTS
  TypeOK
  AutoOrderAtMostOnce
  DailyOvershootBounded
