SPECIFICATION FairSpec
CONSTANTS
  Events = {e1, e2}
  Channels = {telegram, discord}
  BatchSize = 1
  MaxAttempts = 2
  MaxRows = 2
  MaxFaults = 1
  MaxControls = 1
INVARIANTS
  TypeOK
  SentMeansTold
  ToldBounded
PROPERTIES
  SettledIsLeftAlone
  RowsSettle
CHECK_DEADLOCK FALSE
