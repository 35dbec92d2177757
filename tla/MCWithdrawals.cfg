SPECIFICATION FairSpec
CONSTANTS
  a1 = a1
  a2 = a2
  a3 = a3
  Keys = {k1}
  Requests = {r1, r2}
  Addresses = {a1, a2, a3}
  AddressOf <- OneAddress
  Pollers = {worker, api}
  Worker = worker
  Batch = 2
  MaxFaults = 2
INVARIANTS
  TypeOK
  SentOnce
  CompletedIsDelivered
  FailedIsRecoverable
PROPERTIES
  TransfersSettle
CHECK_DEADLOCK FALSE
