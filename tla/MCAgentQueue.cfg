\* The queue table on its own: three items of one conversation, one of another.
SPECIFICATION Spec
CONSTANTS
  q1 = q1
  q2 = q2
  q3 = q3
  q4 = q4
  c1 = c1
  c2 = c2
  t1 = t1
  NoTurn = NoTurn
  Items <- MCItems
  Conversations <- MCConversations
  Turns <- MCTurns
  ConversationOf <- MCConversationOf
  PriorityOf <- MCPriorityOf
  MaxQueuedTurns = 2
INVARIANTS
  TypeOK
  AtMostOneActive
  QueueBounded
  FirstComeFirstServed
