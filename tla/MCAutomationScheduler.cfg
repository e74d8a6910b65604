SPECIFICATION Spec
CONSTANTS
  Automations = {"a", "b"}
  Triggers <- MCTriggers
  Skips = {"b"}
  Trigger <- MCTrigger
  Edited = {"a"}
  StaleAfter = 1
  MaxPerTick = 1
  MaxFailures = 1
  MaxTime = 2
  MaxCommands = 2
  MaxFaults = 2
CHECK_DEADLOCK FALSE
INVARIANTS
  TypeOK
  NoOverlap
  SlotOnce
  PauseHolds
  UserScheduleKept
PROPERTIES
  DueIsServed
