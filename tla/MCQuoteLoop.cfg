SPECIFICATION Spec
CONSTANTS
  Yes = yes
  No = no
  l1 = l1
  Levels = {l1}
  Size = 2
  MaxCapital = 4
  MaxInventory = 2
  MaxOrders = 2
  MaxFaults = 1
  MaxControls = 1
INVARIANTS
  TypeOK
  FillsBookedOnce
  ApprovalIsCurrent
  ApprovalUsedOnce

SYMMETRY Alike
