\* Safety: two messages, one retry, one crash.
SPECIFICATION Spec
CONSTANTS
  s1 = s1
  s2 = s2
  s3 = s3
  r1 = r1
  r2 = r2
  op = op
  Conversation = Conversation
  Drain = Drain
  Nobody = Nobody
  NoTurn = NoTurn
  Sends <- TwoSends
  Retries <- OneRetry
  Ops <- MCOps
  MaxOps = 0
  Completions <- Whole
  MaxQueuedTurns = 1
  MaxKeep = 1
  MaxCrashes = 1
  MaxPauses = 0
  Deletable = TRUE
SYMMETRY SymmetricTwo
INVARIANTS
  TypeOK
  SlotNotLeaked
  ActiveItemOwned
  CompletedMeansReplied
  CommittedTurnHasReply
  PromptSentOnce
PROPERTIES
  HandedBackUnanswered
  DeletionFinal
CHECK_DEADLOCK FALSE
