SPECIFICATION Spec
CONSTANTS
  Hold = 3
  Grace = 2
  Cooldown = 2
  MaxRepeats = 2
  ExpiresAt = 12
  Orders = TRUE
  Trailing = TRUE
  Prices = {1, 2, 3}
  Offset = 1
  Views <- StopViews
  Horizon = 12
INVARIANTS
  TypeOK
PROPERTIES
  HoldWindowSpec
  TriggersApart
  WatermarkRatchets
