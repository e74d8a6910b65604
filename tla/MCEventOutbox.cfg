SPECIFICATION Spec
CONSTANTS
  Surfaces = {"w1", "w2"}
  Subs = {"a", "b", "c"}
  Owner <- MCOwner
  Events = {"e1", "e2", "end", "gone"}
  Hears <- MCHears
  End <- MCEnd
  Transactions <- MCTransactions
  MaxSubscriptions = 1
  FlushLimit = 3
  MaxRows = 8
  MaxCrashes = 1
CHECK_DEADLOCK FALSE
INVARIANTS
  TypeOK
  BusInSync
  HeardInOrder
  DeliveredToAll
PROPERTIES
  MarkedRunsNoMore
