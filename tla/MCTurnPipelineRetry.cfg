\* Concurrent retries of one message, across two crashes and a pause.
SPECIFICATION Spec
CONSTANTS
  s1 = s1
  s2 = s2
  s3 = s3
  r1 = r1
  r2 = r2
  op = op
  Conversation = Conversation
  Drain = Drain
  Nobody = Nobody
  NoTurn = NoTurn
  Sends <- OneSend
  Retries <- TwoRetries
  Ops <- MCOps
  MaxOps = 0
  Completions <- AnyFlag
  MaxQueuedTurns = 1
  MaxKeep = 1
  MaxCrashes = 2
  MaxPauses = 1
  Deletable = TRUE
SYMMETRY SymmetricRetries
INVARIANTS
  OneReplyPerTurn
PROPERTIES
  SettledTurnStays
CHECK_DEADLOCK FALSE
