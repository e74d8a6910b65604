SPECIFICATION Spec
CONSTANTS
  Surfaces = {"s", "u"}
  Existing = {"s"}
  NoSurface = "none"
  Ops <- MCOps
  Kind <- MCKind
  Target <- MCTarget
  Base <- MCBase
  Deps <- MCDeps
  PolicyAsks = {"mk"}
  Batches <- MCBatches
  Members <- MCMembers
  Agent = {"A", "B"}
  MaxQueue = 4
  MaxDeferredRetries = 1
  Views = {"s"}
  MaxUndos = 1
  MaxCrashes = 1
CHECK_DEADLOCK FALSE
INVARIANTS
  TypeOK
  AppliedIsCommitted
  CommittedOnce
  ConsentBeforeCommit
  DependenciesFirst
  RowsTellTruth
  VersionsContiguous
PROPERTIES
  LedgerKept
