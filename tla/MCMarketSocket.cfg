SPECIFICATION FairSpec
CONSTANTS
  Tokens = {t1, t2}
  MaxFaults = 2
  MaxControls = 3
INVARIANTS
  TypeOK
  ToldWhatIsWanted
  WatchdogArmed
PROPERTIES
  FeedRecovers
CHECK_DEADLOCK FALSE
