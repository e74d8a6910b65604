\* Two messages and nothing that disturbs them.
SPECIFICATION FairSpec
CONSTANTS
  s1 = s1
  s2 = s2
  s3 = s3
  r1 = r1
  r2 = r2
  op = op
  Conversation = Conversation
  Drain = Drain
  Nobody = Nobody
  NoTurn = NoTurn
  Sends <- TwoSends
  Retries <- NoRetry
  Ops <- MCOps
  MaxOps = 0
  Completions <- Unstreamed
  MaxQueuedTurns = 1
  MaxKeep = 1
  MaxCrashes = 0
  MaxPauses = 0
  Deletable = FALSE
PROPERTY
  QueuedMessageRuns
CHECK_DEADLOCK FALSE
