SPECIFICATION Spec
CONSTANTS
  Yes = yes
  No = no
  l1 = l1
  Levels = {l1}
  Size = 1
  MaxCapital = 1
  MaxInventory = 1
  MaxOrders = 2
  MaxFaults = 0
  MaxControls = 0
PROPERTIES
  HaltStays
