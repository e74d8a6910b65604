\* The journal on its own, every function callable at any time.
SPECIFICATION Spec
CONSTANTS
  t1 = t1
  t2 = t2
  a = a
  b = b
  NoTurn = NoTurn
  Turns <- MCTurns
  Ops <- MCOps
  MaxOps = 2
  MaxAttempts = 2
  MaxKeep = 1
SYMMETRY MCSymmetry
INVARIANTS
  TypeOK
  StagingOfCurrentAttempt
PROPERTIES
  UnsettledRowsKept
  RevisedOnlyByCompletion
  OutcomeStands
