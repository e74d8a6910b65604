----------------------------- MODULE AgentQueue -----------------------------
(***************************************************************************)
(* The durable queue of user turns that wait for a reply to finish: table  *)
(* agent_request_queue and the functions of runtime_v2/queue.rs over it.   *)
(* Each function is one SQLite statement or one transaction made under the *)
(* process-wide database mutex, so each is one action.  A call that the    *)
(* code refuses changes no row and is not a step.                          *)
(*                                                                         *)
(* A row's conversation and priority are written once, by its INSERT, so   *)
(* they are constants of the item.  created_at is the number of rows       *)
(* inserted so far: rfc3339 text at nanosecond resolution orders rows as   *)
(* they were inserted, as long as the wall clock is not set back.          *)
(***************************************************************************)
EXTENDS Integers, FiniteSets

CONSTANTS
  Items,            \* queue item ids (UUIDs: an id is inserted at most once)
  Conversations,
  Turns,            \* turn journal ids
  NoTurn,           \* SQL NULL in the turn_id column
  MaxQueuedTurns,   \* limits.rs MAX_QUEUED_TURNS
  ConversationOf,   \* ConversationOf[i]: conversation_id of item i
  PriorityOf        \* PriorityOf[i]: priority of item i, lower is served first

ASSUME QueueAssumption ==
  /\ IsFiniteSet(Items)
  /\ NoTurn \notin Turns
  /\ MaxQueuedTurns \in Nat
  /\ ConversationOf \in [Items -> Conversations]
  /\ PriorityOf \in [Items -> Int]

VARIABLES
  status,     \* status[i]: "unused" before the INSERT, "deleted" after the DELETE
  createdAt,  \* createdAt[i]: the stamp of the INSERT, 0 before it
  boundTurn,  \* boundTurn[i]: the turn_id column
  clock,      \* the stamp of the next INSERT
  existing    \* conversations with a row in the conversations table

queueVars == <<status, createdAt, boundTurn, clock, existing>>

\* The states a journal row can be found in; "absent" when there is no row.
JournalStates ==
  {"absent", "created", "claimed", "reserved", "provider_started", "streaming",
   "typed_terminal", "finalizing", "committed", "published", "failed",
   "interrupted_recoverable"}

Statuses ==
  {"unused", "queued", "active", "completed", "failed", "cancelled", "deleted"}

\* An item that was handed to a runner and is over.
Ran == {"completed", "failed"}
Settled == Ran \cup {"cancelled", "deleted"}

InConversation(c, ss) == {i \in Items : ConversationOf[i] = c /\ status[i] \in ss}

\* Mutant: the ORDER BY loses its second column.
AheadByPriorityOnly(i, j) == PriorityOf[i] < PriorityOf[j]

\* ORDER BY priority ASC, created_at ASC.
Ahead(i, j) ==
  \/ PriorityOf[i] < PriorityOf[j]
  \/ PriorityOf[i] = PriorityOf[j] /\ createdAt[i] < createdAt[j]

Init ==
  /\ status = [i \in Items |-> "unused"]
  /\ createdAt = [i \in Items |-> 0]
  /\ boundTurn = [i \in Items |-> NoTurn]
  /\ clock = 1
  /\ existing = Conversations

-----------------------------------------------------------------------------

\* Mutant: the running turn is not counted.
HasRoomCountingWaiting(c) ==
  Cardinality(InConversation(c, {"queued"})) < MaxQueuedTurns

\* Room for one more waiting or running turn in the conversation.
HasRoom(c) == Cardinality(InConversation(c, {"queued", "active"})) < MaxQueuedTurns

\* The foreign key refuses a row of a conversation that is gone.
Enqueue(i) ==
  /\ status[i] = "unused"
  /\ ConversationOf[i] \in existing
  /\ HasRoom(ConversationOf[i])
  /\ status' = [status EXCEPT ![i] = "queued"]
  /\ createdAt' = [createdAt EXCEPT ![i] = clock]
  /\ clock' = clock + 1
  /\ UNCHANGED <<boundTurn, existing>>

\* Mutant: the NOT EXISTS of the subquery is dropped.
NextUpBesideActive(c, i) ==
  /\ i \in InConversation(c, {"queued"})
  /\ \A j \in InConversation(c, {"queued"}) \ {i} : ~ Ahead(j, i)

\* The item the UPDATE of activate_next selects.
NextUp(c, i) ==
  /\ i \in InConversation(c, {"queued"})
  /\ InConversation(c, {"active"}) = {}
  /\ \A j \in InConversation(c, {"queued"}) \ {i} : ~ Ahead(j, i)

ActivateNext(c, i) ==
  /\ NextUp(c, i)
  /\ status' = [status EXCEPT ![i] = "active"]
  /\ UNCHANGED <<createdAt, boundTurn, clock, existing>>

BindTurn(i, t) ==
  /\ status[i] = "active"
  /\ boundTurn' = [boundTurn EXCEPT ![i] = t]
  /\ UNCHANGED <<status, createdAt, clock, existing>>

Requeue(i) ==
  /\ status[i] = "active"
  /\ status' = [status EXCEPT ![i] = "queued"]
  /\ boundTurn' = [boundTurn EXCEPT ![i] = NoTurn]
  /\ UNCHANGED <<createdAt, clock, existing>>

\* outcome: "failed" when the caller passes an error, else "completed".
Complete(i, outcome) ==
  /\ status[i] = "active"
  /\ status' = [status EXCEPT ![i] = outcome]
  /\ UNCHANGED <<createdAt, boundTurn, clock, existing>>

Cancel(i) ==
  /\ status[i] = "queued"
  /\ status' = [status EXCEPT ![i] = "cancelled"]
  /\ UNCHANGED <<createdAt, boundTurn, clock, existing>>

RemoveQueued(i) ==
  /\ status[i] = "queued"
  /\ status' = [status EXCEPT ![i] = "deleted"]
  /\ UNCHANGED <<createdAt, boundTurn, clock, existing>>

\* Mutant: recovery copies the journal's word into the status column.
RecoveredVerbatim(ts, t) ==
  IF t = NoTurn \/ ts[t] \in {"created", "claimed"} THEN "queued" ELSE ts[t]

\* What recovery makes of an active row whose bound turn is t, when turn
\* states are ts.
Recovered(ts, t) ==
  IF t = NoTurn \/ ts[t] \in {"created", "claimed"} THEN "queued"
  ELSE IF ts[t] \in {"committed", "published"} THEN "completed"
  ELSE "failed"

RecoverStaleActive(ts) ==
  LET after(i) == IF status[i] = "active" THEN Recovered(ts, boundTurn[i]) ELSE status[i]
      requeued(i) == status[i] = "active" /\ after(i) = "queued"
  IN  /\ status' = [i \in Items |-> after(i)]
      /\ boundTurn' = [i \in Items |-> IF requeued(i) THEN NoTurn ELSE boundTurn[i]]
      /\ UNCHANGED <<createdAt, clock, existing>>

\* DELETE FROM conversations: queue rows go with it (ON DELETE CASCADE).
DeleteConversation(c) ==
  /\ c \in existing
  /\ existing' = existing \ {c}
  /\ status' = [i \in Items |->
                  IF ConversationOf[i] = c /\ status[i] # "unused"
                  THEN "deleted" ELSE status[i]]
  /\ UNCHANGED <<createdAt, boundTurn, clock>>

\* Journal rows are deleted: turn_id ... ON DELETE SET NULL.
ForgetTurns(ts) ==
  /\ boundTurn' = [i \in Items |-> IF boundTurn[i] \in ts THEN NoTurn ELSE boundTurn[i]]
  /\ UNCHANGED <<status, createdAt, clock, existing>>

Next ==
  \/ \E i \in Items :
       \/ Enqueue(i)
       \/ Requeue(i)
       \/ Cancel(i)
       \/ RemoveQueued(i)
       \/ \E outcome \in Ran : Complete(i, outcome)
       \/ \E t \in Turns : BindTurn(i, t)
  \/ \E c \in Conversations :
       \/ \E i \in Items : ActivateNext(c, i)
       \/ DeleteConversation(c)
  \/ \E ts \in [Turns -> JournalStates] : RecoverStaleActive(ts)
  \/ \E ts \in SUBSET Turns : ForgetTurns(ts)

Spec == Init /\ [][Next]_queueVars

-----------------------------------------------------------------------------

\* Every row of the table is well formed, whatever sequence of calls wrote it.
TypeOK ==
  /\ status \in [Items -> Statuses]
  /\ createdAt \in [Items -> Nat]
  /\ boundTurn \in [Items -> Turns \cup {NoTurn}]
  /\ clock \in Nat \ {0}
  /\ existing \subseteq Conversations

\* activate_next, requeue and crash recovery between them never leave two
\* active turns in one conversation (queue.rs:132, "concurrent drainers cannot
\* activate two items").
AtMostOneActive ==
  \A c \in Conversations : \A i, j \in InConversation(c, {"active"}) : i = j

\* No sequence of enqueues, requeues and recoveries takes a conversation past
\* MAX_QUEUED_TURNS (queue.rs:33, the TOCTOU the BEGIN IMMEDIATE closes).
QueueBounded ==
  \A c \in Conversations :
    Cardinality(InConversation(c, {"queued", "active"})) <= MaxQueuedTurns

\* A turn is not started before one that was queued earlier and is at least
\* as urgent, even when that one was handed back by a lost race or a crash:
\* requeue keeps created_at, so it keeps its place (queue.rs:180-193, 131-162).
FirstComeFirstServed ==
  \A i, j \in Items :
    /\ ConversationOf[i] = ConversationOf[j]
    /\ PriorityOf[i] <= PriorityOf[j]
    /\ status[i] # "unused"
    /\ createdAt[i] < createdAt[j]
    /\ status[j] \in Ran \cup {"active"}
    => status[i] \in Settled
=============================================================================
