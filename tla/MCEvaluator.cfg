SPECIFICATION LiveSpec
CONSTANTS
  Hold = 0
  Grace = 1
  Cooldown = 1
  MaxRepeats = 2
  ExpiresAt = 99
  Orders = TRUE
  Trailing = FALSE
  Prices = {}
  Offset = 1
  MaxAge = 1
  Actions <- AutoOrRolling
  WindowLen = 3
  Views <- YesNo
  Kinds = {"reconnect"}
  Slots = 2
  MaxQueue = 2
  Horizon = 2
  Faults = 2
  Crashes = 1
  Stops = 1
INVARIANTS
  TypeOK
  RowCountsTriggers
  AttemptedOnce
  SeriesWindowOnce
PROPERTIES
  ArmedIsEvaluated
