---------------------------- MODULE TurnPipeline ----------------------------
(***************************************************************************)
(* The life of a chat turn in one conversation: send_message, the drain of *)
(* the queue, the retry of an interrupted turn, stop, deletion,            *)
(* maintenance pauses and restarts (commands/message_cmds.rs, state.rs,    *)
(* conversation_cmds.rs, lib.rs), over the durable tables of AgentQueue    *)
(* and TurnJournal.                                                        *)
(*                                                                         *)
(* A runner is one call of send_message_inner: a send the user made, a     *)
(* retry the user made, or the drain task, which makes one such call after *)
(* another.  A step is a stretch of code between two points where other    *)
(* tasks can get in: one hold of the database mutex, or one operation on   *)
(* the active-request map.  A send's prompt has the name of the send, and  *)
(* so has the queue item the prompt becomes.                               *)
(***************************************************************************)
EXTENDS Integers, FiniteSets

CONSTANTS
  Conversation,
  Sends,           \* calls of send_message (schedule_drain = true)
  Retries,         \* calls of retry_recoverable_generation
  Drain,           \* the drain task
  Nobody, NoTurn,
  Ops, MaxOps,     \* progressive operations, bound on a checkpoint's length
  Completions,     \* bound: the values of a checkpoint's complete flag tried
  MaxQueuedTurns,  \* limits.rs
  MaxKeep,         \* recoverable turns kept per conversation
  MaxCrashes,      \* bound: process deaths
  MaxPauses,       \* bound: maintenance operations
  Deletable        \* bound: whether the user may delete the conversation

Runners == Sends \cup Retries \cup {Drain}

\* A turn is named by the user message it answers: the n-th one inserted for a
\* prompt.  Only a crash makes the code insert a second one.
Turns == Sends \X (1..(MaxCrashes + 1))

ASSUME PipelineAssumption ==
  /\ IsFiniteSet(Sends) /\ IsFiniteSet(Retries)
  /\ Sends \cap Retries = {}
  /\ Drain \notin Sends \cup Retries
  /\ Nobody \notin Runners
  /\ NoTurn \notin Turns
  /\ MaxCrashes \in Nat /\ MaxPauses \in Nat /\ MaxOps \in Nat
  /\ MaxQueuedTurns \in Nat /\ MaxKeep \in Nat \ {0}
  /\ Completions \subseteq BOOLEAN /\ Deletable \in BOOLEAN

VARIABLES
  \* agent_request_queue and the conversations table
  status, createdAt, boundTurn, clock, existing,
  \* turn_journal
  state, attempt, staged, finalized,
  \* the other durable effects of a turn
  inserted,    \* inserted[p]: user messages inserted so far for prompt p
  replies,     \* <<turn, attempt>> with a committed assistant message
  applied,     \* turns whose operations were applied
  \* AppState
  slot,        \* active_requests: who registered the conversation's entry
  cancelled,   \* runners whose token was cancelled and may still be read
  tombstone,   \* the conversation is in deleted_conversations
  paused,      \* quiescence is paused
  wakes,       \* drain tasks spawned and not yet started
  \* the runners
  pc, turn, att,
  item,        \* the queue item the drain task has activated
  succeeded,   \* the drain's current call returned Ok
  crashes, pauses

queueVars == <<status, createdAt, boundTurn, clock, existing>>
journalVars == <<state, attempt, staged, finalized>>
effectVars == <<inserted, replies, applied>>
memoryVars == <<slot, cancelled, tombstone, paused, wakes>>
runnerVars == <<turn, att, item, succeeded>>
boundVars == <<crashes, pauses>>
vars == <<queueVars, journalVars, effectVars, memoryVars, pc, runnerVars, boundVars>>

Q == INSTANCE AgentQueue WITH
       Items <- Sends, Conversations <- {Conversation},
       ConversationOf <- [i \in Sends |-> Conversation],
       PriorityOf <- [i \in Sends |-> 100]

J == INSTANCE TurnJournal WITH MaxAttempts <- Cardinality(Retries) + 1

Goto(r, label) == pc' = [pc EXCEPT ![r] = label]

Deleted == tombstone \/ Conversation \notin existing

\* The prompt a runner that is not a retry works on.
Prompt(r) == IF r = Drain THEN item ELSE r

\* schedule_queued_turn_drain, under the caller's schedule_drain flag.
ScheduleDrain(r) == wakes' = wakes + (IF r \in Sends THEN 1 ELSE 0)

Init ==
  /\ Q!Init /\ J!Init
  /\ inserted = [p \in Sends |-> 0]
  /\ replies = {} /\ applied = {}
  /\ slot = Nobody /\ cancelled = {} /\ tombstone = FALSE /\ paused = FALSE /\ wakes = 0
  /\ pc = [r \in Runners |-> "idle"]
  /\ turn = [r \in Runners |-> NoTurn]
  /\ att = [r \in Runners |-> 0]
  /\ item = Nobody /\ succeeded = FALSE
  /\ crashes = 0 /\ pauses = 0

-----------------------------------------------------------------------------
(* Arrival: the tombstone and maintenance checks, then the slot. *)

SendArrives(s) ==
  /\ pc[s] = "idle"
  /\ ~ tombstone /\ ~ paused
  /\ Goto(s, "register")
  /\ UNCHANGED <<queueVars, journalVars, effectVars, memoryVars, runnerVars, boundVars>>

\* retry_recoverable_generation reads the turn and the attempt the user saw.
RetryArrives(r) ==
  /\ pc[r] = "idle"
  /\ ~ Deleted /\ ~ paused
  /\ \E t \in J!Recoverable :
       /\ turn' = [turn EXCEPT ![r] = t]
       /\ att' = [att EXCEPT ![r] = attempt[t]]
  /\ Goto(r, "register")
  /\ UNCHANGED <<queueVars, journalVars, effectVars, memoryVars, item, succeeded, boundVars>>

\* try_register_request with a fresh cancellation token.
Register(r) ==
  /\ pc[r] = "register"
  /\ slot = Nobody
  /\ slot' = r
  /\ Goto(r, "admit")
  /\ UNCHANGED <<queueVars, journalVars, effectVars, cancelled, tombstone, paused, wakes, runnerVars,
                 boundVars>>

\* A reply is in progress: a send goes on to enqueue its message, the drain is
\* told "busy", a retry returns that error to the user.
FindsBusy(r) ==
  /\ pc[r] = "register"
  /\ slot # Nobody
  /\ Goto(r, IF r \in Sends THEN "enqueue" ELSE IF r = Drain THEN "busy" ELSE "returned")
  /\ UNCHANGED <<queueVars, journalVars, effectVars, memoryVars, runnerVars, boundVars>>

\* The message joins the queue, or the send is refused: the conversation is
\* deleted or its queue is full.  No drain is scheduled.
EnqueueMessage(s) ==
  /\ pc[s] = "enqueue"
  /\ \/ ~ Deleted /\ Q!Enqueue(s)
     \/ (Deleted \/ ~ Q!HasRoom(Conversation)) /\ UNCHANGED queueVars
  /\ Goto(s, "returned")
  /\ UNCHANGED <<journalVars, effectVars, memoryVars, runnerVars, boundVars>>

-----------------------------------------------------------------------------
(* Admission: the user message, the turn row and its attempt. *)

\* Mutant: an early return before the guard exists.
AdmissionFailsUnguarded(r) ==
  /\ pc[r] = "admit"
  /\ Goto(r, IF r = Drain THEN "settle" ELSE "returned")
  /\ UNCHANGED <<queueVars, journalVars, effectVars, memoryVars, runnerVars, boundVars>>

\* No usable provider, unreadable attachments, or the conversation is deleted:
\* the active-request guard frees the slot, nothing schedules a drain.
AdmissionFails(r) ==
  /\ pc[r] = "admit"
  /\ Goto(r, "exit")
  /\ UNCHANGED <<queueVars, journalVars, effectVars, memoryVars, runnerVars, boundVars>>

\* The user message is inserted; a retry reuses the one its turn was made for.
Admit(r) ==
  /\ pc[r] = "admit"
  /\ ~ Deleted
  /\ IF r \in Retries
     THEN UNCHANGED <<inserted, turn>>
     ELSE LET p == Prompt(r)
          IN  /\ inserted' = [inserted EXCEPT ![p] = @ + 1]
              /\ turn' = [turn EXCEPT ![r] = <<p, inserted[p] + 1>>]
  /\ Goto(r, "turn")
  /\ UNCHANGED <<queueVars, journalVars, replies, applied, memoryVars, att, item, succeeded,
                 boundVars>>

\* validate_provider_send or create_turn refuses: the message is deleted again,
\* unless it is a retry's.
AdmissionUndone(r) ==
  /\ pc[r] = "turn"
  /\ Goto(r, "exit")
  /\ UNCHANGED <<queueVars, journalVars, effectVars, memoryVars, runnerVars, boundVars>>

\* create_turn and the transition to claimed, under one hold of the lock.  The
\* key is that of a message just inserted, so it has no row yet; a form's own
\* key may have one (not modelled).  The conversation is not looked at again.
CreateTurn(r) ==
  LET t == turn[r]
  IN  /\ pc[r] = "turn"
      /\ r \notin Retries
      /\ state[t] = "absent"
      /\ state' = [state EXCEPT ![t] = "claimed"]
      /\ attempt' = [attempt EXCEPT ![t] = @ + 1]
      /\ att' = [att EXCEPT ![r] = attempt[t] + 1]
      /\ Goto(r, IF r = Drain THEN "bind" ELSE "start")
      /\ UNCHANGED <<queueVars, staged, finalized, effectVars, memoryVars, turn, item,
                     succeeded, boundVars>>

\* Mutant: the retry takes the turn over in whatever state it finds it, under
\* the attempt id it finds.
ReclaimUnconditionally(r) ==
  LET t == turn[r]
  IN  /\ pc[r] = "turn"
      /\ r \in Retries
      /\ attempt[t] <= Cardinality(Retries)
      /\ attempt' = [attempt EXCEPT ![t] = @ + 1]
      /\ state' = [state EXCEPT ![t] = "claimed"]
      /\ staged' = [staged EXCEPT ![t] = J!NoCheckpoint]
      /\ finalized' = [finalized EXCEPT ![t] = FALSE]
      /\ att' = [att EXCEPT ![r] = attempt[t] + 1]
      /\ Goto(r, "start")
      /\ UNCHANGED <<queueVars, effectVars, memoryVars, turn, item, succeeded, boundVars>>

\* Mutant: the state check is left to begin_retry_attempt, which takes failed
\* turns too.
ReclaimFailedToo(r) ==
  LET t == turn[r]
  IN  /\ pc[r] = "turn"
      /\ r \in Retries
      /\ IF state[t] \in {"failed", "interrupted_recoverable"} /\ attempt[t] = att[r]
         THEN /\ J!BeginRetry(t, att[r])
              /\ att' = [att EXCEPT ![r] = @ + 1]
              /\ Goto(r, "start")
         ELSE /\ Goto(r, "exit")
              /\ UNCHANGED <<journalVars, att>>
      /\ UNCHANGED <<queueVars, effectVars, memoryVars, turn, item, succeeded, boundVars>>

\* reclaim_recoverable_turn_for_retry: only the attempt the user saw, and only
\* while it still awaits recovery.
Reclaim(r) ==
  /\ pc[r] = "turn"
  /\ r \in Retries
  /\ IF turn[r] \in J!Recoverable /\ attempt[turn[r]] = att[r]
     THEN /\ J!BeginRetry(turn[r], att[r])
          /\ att' = [att EXCEPT ![r] = @ + 1]
          /\ Goto(r, "start")
     ELSE /\ Goto(r, "exit")
          /\ UNCHANGED <<journalVars, att>>
  /\ UNCHANGED <<queueVars, effectVars, memoryVars, turn, item, succeeded, boundVars>>

\* Mutant: the binding is left out, as for an interactive send.
BindNothing ==
  /\ pc[Drain] = "bind"
  /\ Goto(Drain, "start")
  /\ UNCHANGED <<queueVars, journalVars, effectVars, memoryVars, runnerVars, boundVars>>

\* A failure to bind is logged and ignored.
Bind ==
  /\ pc[Drain] = "bind"
  /\ IF status[item] = "active" THEN Q!BindTurn(item, turn[Drain]) ELSE UNCHANGED queueVars
  /\ Goto(Drain, "start")
  /\ UNCHANGED <<journalVars, effectVars, memoryVars, runnerVars, boundVars>>

-----------------------------------------------------------------------------
(* The provider call and what follows it. *)

\* `let _ = transition_turn(..)`: the caller goes on when it is refused.
After(from, next) == IF J!CanTransition(from, next) THEN next ELSE from

\* Two transitions tried in one hold of the lock by the holder of attempt
\* att[r] (J!Transition twice).
TryTransitions(r, first, second) ==
  LET t == turn[r]
      to == IF attempt[t] = att[r] THEN After(After(state[t], first), second) ELSE state[t]
  IN  /\ state' = [state EXCEPT ![t] = to]
      /\ finalized' = [finalized EXCEPT ![t] = @ \/ to \in J!Terminal]
      /\ UNCHANGED <<attempt, staged>>

TryTransition(r, next) == TryTransitions(r, next, next)

\* One hold of the lock: retention over the conversation's interrupted turns
\* (J!Prune), then the turn's own transition.
StartProvider(r) ==
  LET t == turn[r]
  IN  /\ pc[r] = "start"
      /\ \E keep \in J!Kept(t) :
           LET gone == J!Recoverable \ keep
               to(u) == IF u \in gone THEN "failed"
                        ELSE IF u = t /\ attempt[t] = att[r] THEN After(state[t], "provider_started")
                        ELSE state[u]
           IN  /\ state' = [u \in Turns |-> to(u)]
               /\ staged' = [u \in Turns |-> IF u \in gone THEN J!NoCheckpoint ELSE staged[u]]
               /\ finalized' = [u \in Turns |-> finalized[u] \/ u \in gone]
      /\ Goto(r, "provider")
      /\ UNCHANGED <<queueVars, attempt, effectVars, memoryVars, runnerVars, boundVars>>

\* Streamed operations are staged; a refused checkpoint is only logged.
Stream(r) ==
  /\ pc[r] = "provider"
  /\ \E n \in 0..MaxOps, complete \in Completions :
       \E ops \in [1..n -> Ops] : J!Checkpoint(turn[r], att[r], ops, complete)
  /\ UNCHANGED <<queueVars, effectVars, memoryVars, pc, runnerVars, boundVars>>

\* The provider, a follow-up call of the tool loop or the interactive repair
\* fails.  A cancelled call is recoverable, any other has failed.
ProviderFails(r) ==
  /\ pc[r] = "provider"
  /\ \/ TryTransition(r, "failed")
     \/ r \in cancelled /\ TryTransition(r, "interrupted_recoverable")
  /\ cancelled' = cancelled \ {r}
  /\ Goto(r, "release")
  /\ UNCHANGED <<queueVars, effectVars, slot, tombstone, paused, wakes, runnerVars, boundVars>>

\* take_request and schedule_queued_turn_drain after a settled failure.
Release(r) ==
  /\ pc[r] = "release"
  /\ slot' = Nobody
  /\ ScheduleDrain(r)
  /\ Goto(r, "exit")
  /\ UNCHANGED <<queueVars, journalVars, effectVars, cancelled, tombstone, paused, runnerVars,
                 boundVars>>

\* The provider has answered in a conversation deleted meanwhile.
AbandonDeleted(r) ==
  /\ pc[r] = "provider"
  /\ tombstone
  /\ slot' = Nobody
  /\ cancelled' = cancelled \ {r}
  /\ Goto(r, "exit")
  /\ UNCHANGED <<queueVars, journalVars, effectVars, tombstone, paused, wakes,
                 runnerVars, boundVars>>

\* An answer cannot be parsed, or the tool loop cannot start: the turn row is
\* left as it is.
ParseFails(r) ==
  /\ pc[r] = "provider"
  /\ slot' = Nobody
  /\ ScheduleDrain(r)
  /\ cancelled' = cancelled \ {r}
  /\ Goto(r, "exit")
  /\ UNCHANGED <<queueVars, journalVars, effectVars, tombstone, paused, runnerVars,
                 boundVars>>

\* The typed answer is recorded, then take_request frees the slot while the
\* call goes on.
Finalize(r) ==
  /\ pc[r] = "provider"
  /\ TryTransitions(r, "typed_terminal", "finalizing")
  /\ slot' = Nobody
  /\ cancelled' = cancelled \ {r}
  /\ Goto(r, "apply")
  /\ UNCHANGED <<queueVars, effectVars, tombstone, paused, wakes, runnerVars,
                 boundVars>>

\* schedule_and_apply under the database lock, unless there is nothing to apply
\* or the conversation is deleted.
Apply(r) ==
  /\ pc[r] = "apply"
  /\ \/ ~ Deleted /\ applied' = applied \cup {turn[r]}
     \/ UNCHANGED applied
  /\ Goto(r, "commit")
  /\ UNCHANGED <<queueVars, journalVars, inserted, replies, memoryVars, runnerVars, boundVars>>

\* The application plan does not compile: take_request and a wake-up once more.
CompileFails(r) ==
  /\ pc[r] = "apply"
  /\ slot' = Nobody
  /\ ScheduleDrain(r)
  /\ Goto(r, "wake")
  /\ UNCHANGED <<queueVars, journalVars, effectVars, cancelled, tombstone, paused, runnerVars,
                 boundVars>>

\* Mutant: the deletion checks around the assistant message are dropped.
CommitReplyUnchecked(r) ==
  /\ pc[r] = "commit"
  /\ replies' = replies \cup {<<turn[r], att[r]>>}
  /\ succeeded' = (succeeded \/ r = Drain)
  /\ Goto(r, "publish")
  /\ UNCHANGED <<queueVars, journalVars, inserted, applied, memoryVars, turn, att, item,
                 boundVars>>

\* The assistant message is committed, after a last look for a deletion.
CommitReply(r) ==
  /\ pc[r] = "commit"
  /\ ~ Deleted
  /\ replies' = replies \cup {<<turn[r], att[r]>>}
  /\ succeeded' = (succeeded \/ r = Drain)
  /\ Goto(r, "publish")
  /\ UNCHANGED <<queueVars, journalVars, inserted, applied, memoryVars, turn, att, item,
                 boundVars>>

\* Mutant: the storage error is logged and the turn row published all the same.
CommitFailsAndPublishes(r) ==
  /\ pc[r] = "commit"
  /\ Goto(r, "publish")
  /\ UNCHANGED <<queueVars, journalVars, effectVars, memoryVars, runnerVars, boundVars>>

\* A deletion, a storage error or an earlier error return: no reply, and the
\* turn row is left as it is.
CommitFails(r) ==
  /\ pc[r] = "commit"
  /\ Goto(r, "wake")
  /\ UNCHANGED <<queueVars, journalVars, effectVars, memoryVars, runnerVars, boundVars>>

\* The turn row follows the reply in a lock hold of its own.
Publish(r) ==
  /\ pc[r] = "publish"
  /\ TryTransitions(r, "committed", "published")
  /\ Goto(r, "wake")
  /\ UNCHANGED <<queueVars, effectVars, memoryVars, runnerVars, boundVars>>

\* QueueDrainGuard is declared last, so it is dropped first.
WakeOnDrop(r) ==
  /\ pc[r] = "wake"
  /\ ScheduleDrain(r)
  /\ Goto(r, "exit")
  /\ UNCHANGED <<queueVars, journalVars, effectVars, slot, cancelled, tombstone, paused,
                 runnerVars, boundVars>>

\* Mutant: the guard is disarmed.
ExitKeepingSlot(r) ==
  /\ pc[r] = "exit"
  /\ turn' = [turn EXCEPT ![r] = NoTurn]
  /\ att' = [att EXCEPT ![r] = 0]
  /\ Goto(r, IF r = Drain THEN "settle" ELSE "returned")
  /\ UNCHANGED <<queueVars, journalVars, effectVars, memoryVars, item, succeeded, boundVars>>

\* ActiveRequestGuard is dropped: it removes the conversation's entry, whoever
\* registered it.
Exit(r) ==
  /\ pc[r] = "exit"
  /\ slot' = Nobody
  /\ cancelled' = cancelled \ {r}
  /\ turn' = [turn EXCEPT ![r] = NoTurn]
  /\ att' = [att EXCEPT ![r] = 0]
  /\ Goto(r, IF r = Drain THEN "settle" ELSE "returned")
  /\ UNCHANGED <<queueVars, journalVars, effectVars, tombstone, paused, wakes, item,
                 succeeded, boundVars>>

-----------------------------------------------------------------------------
(* drain_queued_turns.  pc[Drain] # "idle" is queue_drain_inflight. *)

\* A spawned drain task starts; it ends at once when another one is inflight or
\* drains are paused.
StartDrain ==
  /\ wakes > 0
  /\ wakes' = wakes - 1
  /\ IF pc[Drain] = "idle" /\ ~ paused THEN Goto(Drain, "loop") ELSE UNCHANGED pc
  /\ UNCHANGED <<queueVars, journalVars, effectVars, slot, cancelled, tombstone, paused,
                 runnerVars, boundVars>>

\* The checks at the top of the loop.
DrainLooks ==
  /\ pc[Drain] = "loop"
  /\ Goto(Drain, IF paused \/ slot # Nobody \/ tombstone THEN "leaving" ELSE "pick")
  /\ UNCHANGED <<queueVars, journalVars, effectVars, memoryVars, runnerVars, boundVars>>

DrainPicks ==
  /\ pc[Drain] = "pick"
  /\ ~ Deleted
  /\ \E i \in Sends : Q!ActivateNext(Conversation, i) /\ item' = i
  /\ Goto(Drain, "claimed")
  /\ UNCHANGED <<journalVars, effectVars, memoryVars, turn, att, succeeded, boundVars>>

DrainFindsNothing ==
  /\ pc[Drain] = "pick"
  /\ Deleted \/ \A i \in Sends : ~ Q!NextUp(Conversation, i)
  /\ Goto(Drain, "leaving")
  /\ UNCHANGED <<queueVars, journalVars, effectVars, memoryVars, runnerVars, boundVars>>

\* queue::complete on the drain's item; an item that is gone is only logged.
CompleteItem(outcome) ==
  IF status[item] = "active" THEN Q!Complete(item, outcome) ELSE UNCHANGED queueVars

DrainGivesUp ==
  /\ pc[Drain] = "claimed"
  /\ Deleted
  /\ CompleteItem("failed")
  /\ item' = Nobody
  /\ Goto(Drain, "leaving")
  /\ UNCHANGED <<journalVars, effectVars, memoryVars, turn, att, succeeded, boundVars>>

\* Mutant: the item that lost the race is forgotten.
DrainDropsItem ==
  /\ pc[Drain] = "busy" \/ (pc[Drain] = "claimed" /\ ~ Deleted /\ slot # Nobody)
  /\ item' = Nobody
  /\ Goto(Drain, "leaving")
  /\ UNCHANGED <<queueVars, journalVars, effectVars, memoryVars, turn, att, succeeded,
                 boundVars>>

\* A live turn holds the slot, seen before the call or by it.
DrainHandsBack ==
  /\ pc[Drain] = "busy" \/ (pc[Drain] = "claimed" /\ ~ Deleted /\ slot # Nobody)
  /\ IF status[item] = "active" THEN Q!Requeue(item) ELSE UNCHANGED queueVars
  /\ item' = Nobody
  /\ Goto(Drain, "leaving")
  /\ UNCHANGED <<journalVars, effectVars, memoryVars, turn, att, succeeded, boundVars>>

\* The call of send_message_inner, unless the prompt cannot be read back,
\* maintenance has begun or the conversation has just been deleted.
DrainSends ==
  /\ pc[Drain] = "claimed"
  /\ ~ Deleted /\ slot = Nobody
  /\ \/ ~ paused /\ Goto(Drain, "register")
     \/ Goto(Drain, "settle")
  /\ UNCHANGED <<queueVars, journalVars, effectVars, memoryVars, runnerVars, boundVars>>

\* Mutant: a failed prompt goes back in line.
DrainSettlesByRequeue ==
  /\ pc[Drain] = "settle"
  /\ IF succeeded \/ status[item] # "active" THEN CompleteItem("completed") ELSE Q!Requeue(item)
  /\ item' = Nobody
  /\ succeeded' = FALSE
  /\ Goto(Drain, "loop")
  /\ UNCHANGED <<journalVars, effectVars, memoryVars, turn, att, boundVars>>

\* Mutant: a failed call completes the item all the same.
DrainSettlesBlindly ==
  /\ pc[Drain] = "settle"
  /\ CompleteItem("completed")
  /\ item' = Nobody
  /\ succeeded' = FALSE
  /\ Goto(Drain, "loop")
  /\ UNCHANGED <<journalVars, effectVars, memoryVars, turn, att, boundVars>>

DrainSettles ==
  /\ pc[Drain] = "settle"
  /\ CompleteItem(IF succeeded THEN "completed" ELSE "failed")
  /\ item' = Nobody
  /\ succeeded' = FALSE
  /\ Goto(Drain, "loop")
  /\ UNCHANGED <<journalVars, effectVars, memoryVars, turn, att, boundVars>>

\* QueueDrainInflightGuard.
DrainEnds ==
  /\ pc[Drain] = "leaving"
  /\ Goto(Drain, "idle")
  /\ UNCHANGED <<queueVars, journalVars, effectVars, memoryVars, runnerVars, boundVars>>

-----------------------------------------------------------------------------
(* The user, maintenance, and the end of the process. *)

Stop ==
  /\ slot # Nobody
  /\ cancelled' = cancelled \cup {slot}
  /\ UNCHANGED <<queueVars, journalVars, effectVars, slot, tombstone, paused, wakes, pc,
                 runnerVars, boundVars>>

EditQueue(i) ==
  /\ ~ paused
  /\ Q!Cancel(i) \/ Q!RemoveQueued(i)
  /\ UNCHANGED <<journalVars, effectVars, memoryVars, pc, runnerVars, boundVars>>

DiscardInterrupted(t) ==
  /\ ~ paused
  /\ Conversation \in existing
  /\ J!Discard(t, attempt[t])
  /\ UNCHANGED <<queueVars, effectVars, memoryVars, pc, runnerVars, boundVars>>

\* delete_conversation: first the tombstone, the cancellation and the slot ...
Tombstone ==
  /\ Deletable
  /\ ~ tombstone /\ ~ paused
  /\ Conversation \in existing
  /\ tombstone' = TRUE
  /\ cancelled' = cancelled \cup ({slot} \ {Nobody})
  /\ slot' = Nobody
  /\ UNCHANGED <<queueVars, journalVars, effectVars, paused, wakes, pc, runnerVars, boundVars>>

\* ... then the rows, in one transaction.
DeleteRows ==
  /\ tombstone
  /\ Q!DeleteConversation(Conversation)
  /\ J!DeleteConversation
  /\ UNCHANGED <<effectVars, memoryVars, pc, runnerVars, boundVars>>

\* begin_maintenance and clear_maintenance.
Pause ==
  /\ ~ paused /\ pauses < MaxPauses
  /\ paused' = TRUE
  /\ pauses' = pauses + 1
  /\ UNCHANGED <<queueVars, journalVars, effectVars, slot, cancelled, tombstone, wakes, pc,
                 runnerVars, crashes>>

Resume ==
  /\ paused
  /\ paused' = FALSE
  /\ UNCHANGED <<queueVars, journalVars, effectVars, slot, cancelled, tombstone, wakes, pc,
                 runnerVars, boundVars>>

\* Mutant: startup leaves the queue alone.
RecoverJournalOnly == J!MarkInterruptedInFlight /\ UNCHANGED queueVars

\* Startup: the journal first (lib.rs:64), then the queue over the result.
Recover ==
  /\ J!MarkInterruptedInFlight
  /\ Q!RecoverStaleActive(state')

\* The process dies; memory is lost; the next start recovers the tables before
\* any command runs.
Restart ==
  /\ crashes < MaxCrashes
  /\ crashes' = crashes + 1
  /\ Recover
  /\ slot' = Nobody /\ cancelled' = {} /\ tombstone' = FALSE /\ paused' = FALSE /\ wakes' = 0
  /\ pc' = [r \in Runners |-> IF r = Drain \/ pc[r] = "idle" THEN "idle" ELSE "returned"]
  /\ turn' = [r \in Runners |-> NoTurn]
  /\ att' = [r \in Runners |-> 0]
  /\ item' = Nobody /\ succeeded' = FALSE
  /\ UNCHANGED <<effectVars, pauses>>

-----------------------------------------------------------------------------

\* What a runner does by itself, sooner or later; the provider answers or times
\* out (ai: REQUEST_TIMEOUT).
Proceed(r) ==
  \/ Register(r) \/ FindsBusy(r) \/ EnqueueMessage(r)
  \/ AdmissionFails(r) \/ Admit(r) \/ AdmissionUndone(r) \/ CreateTurn(r) \/ Reclaim(r)
  \/ StartProvider(r)
  \/ ProviderFails(r) \/ Release(r) \/ AbandonDeleted(r) \/ ParseFails(r) \/ Finalize(r)
  \/ Apply(r) \/ CompileFails(r) \/ CommitReply(r) \/ CommitFails(r) \/ Publish(r)
  \/ WakeOnDrop(r) \/ Exit(r)

DrainStep ==
  \/ Bind
  \/ DrainLooks \/ DrainPicks \/ DrainFindsNothing \/ DrainGivesUp \/ DrainHandsBack
  \/ DrainSends \/ DrainSettles \/ DrainEnds

Environment ==
  \/ \E s \in Sends : SendArrives(s) \/ EditQueue(s)
  \/ \E r \in Retries : RetryArrives(r)
  \/ \E r \in Runners : Stream(r)
  \/ \E t \in Turns : DiscardInterrupted(t)
  \/ Stop \/ Tombstone \/ DeleteRows \/ Pause \/ Resume \/ Restart

\* One step of the task that runner r is.
TaskStep(r) ==
  /\ pc[r] \notin {"idle", "returned"}
  /\ Proceed(r) \/ (r = Drain /\ DrainStep)

Next ==
  \/ \E r \in Runners : TaskStep(r)
  \/ StartDrain
  \/ Environment

Spec == Init /\ [][Next]_vars

\* The runtime polls every task that can go on (tokio) and every provider call
\* ends, and delete_conversation goes on to delete; the user, maintenance and
\* crashes owe nothing.
FairSpec ==
  /\ Spec
  /\ \A r \in Runners : WF_vars(TaskStep(r))
  /\ WF_vars(StartDrain)
  /\ WF_vars(DeleteRows)

-----------------------------------------------------------------------------

Labels ==
  {"idle", "register", "enqueue", "admit", "turn", "bind", "start", "provider",
   "release", "apply", "commit", "publish", "wake", "exit", "returned",
   "loop", "pick", "claimed", "busy", "settle", "leaving"}

\* Between try_register_request and the drop of the guard.
Guarded ==
  {"admit", "turn", "bind", "start", "provider", "release",
   "apply", "commit", "publish", "wake", "exit"}

\* Every variable keeps its type, those of the two tables included.
TypeOK ==
  /\ Q!TypeOK /\ J!TypeOK
  /\ inserted \in [Sends -> 0..(MaxCrashes + 1)]
  /\ replies \subseteq Turns \X Nat /\ applied \subseteq Turns
  /\ slot \in Runners \cup {Nobody} /\ cancelled \subseteq Runners
  /\ tombstone \in BOOLEAN /\ paused \in BOOLEAN /\ wakes \in Nat
  /\ pc \in [Runners -> Labels]
  /\ turn \in [Runners -> Turns \cup {NoTurn}]
  /\ att \in [Runners -> Nat]
  /\ item \in Sends \cup {Nobody} /\ succeeded \in BOOLEAN
  /\ crashes \in 0..MaxCrashes /\ pauses \in 0..MaxPauses

\* No path out of a turn leaves the conversation's slot taken: whoever holds it
\* still has its guard to drop.  A leaked slot would answer "busy" until the
\* application is restarted.
SlotNotLeaked == slot # Nobody => pc[slot] \in Guarded

\* An active row always has the drain task at work on it: no lost race, failed
\* call, deletion or restart leaves a row active that nobody will settle, which
\* would block the conversation's queue for good.
ActiveItemOwned ==
  \A i \in Sends : status[i] = "active" =>
    item = i /\ pc[Drain] \notin {"idle", "loop", "pick", "leaving"}

\* "Completed" is only said of a prompt whose reply is in the conversation.
CompletedMeansReplied ==
  \A i \in Sends : status[i] = "completed" => \E x \in replies : x[1][1] = i

\* A turn row only says committed when the attempt that owns it has its reply in
\* the conversation.
CommittedTurnHasReply ==
  \A t \in Turns : state[t] \in {"committed", "published"} => <<t, attempt[t]>> \in replies

\* A prompt enters the conversation once per life of the process: the drain fails
\* an item whose call failed instead of queueing it again, and a message that
\* was enqueued is not sent by its caller too.
PromptSentOnce == \A p \in Sends : inserted[p] <= 1 + crashes

\* One message is answered once: a turn gets a second reply only when the
\* process died between its reply and its row's commit, and is then retried.
OneReplyPerTurn ==
  \A t \in Turns : Cardinality({x \in replies : x[1] = t}) <= 1 + crashes

\* A settled turn never runs again: a retry that the user started before the
\* turn was discarded, pruned or answered comes too late.
SettledTurnStays ==
  [][\A t \in Turns : state[t] \in J!Terminal =>
       state'[t] \in J!Terminal \cup {"absent"}]_vars

\* A prompt goes back in line only while the turn it was running has not
\* replied, whether it lost a race or the process died.
HandedBackUnanswered ==
  [][\A i \in Sends : status[i] = "active" /\ status'[i] = "queued" =>
       ~ \E x \in replies : x[1] = turn[Drain]]_vars

\* No reply, no applied operation and no new user message appears once the
\* conversation's rows are gone.
DeletionFinal ==
  [][Conversation \notin existing => UNCHANGED <<replies, applied, inserted>>]_vars

\* Every activated item is settled or handed back.
ActiveItemSettles ==
  \A i \in Sends : status[i] = "active" ~> status[i] # "active"

\* Every call that takes the slot frees it.
SlotReleased == slot # Nobody ~> slot = Nobody
-----------------------------------------------------------------------------
(* What comments and documents of the code claim and the code does not keep. *)

\* "If a turn is already active for this chat, enqueue instead of overlapping"
\* (message_cmds.rs:2287): no two calls have an exchange with the provider open.
NoOverlap ==
  \A r1, r2 \in Runners : pc[r1] = "provider" /\ pc[r2] = "provider" => r1 = r2

\* "It will run when the current reply finishes" (message_cmds.rs:2344): without
\* crashes and maintenance a queued message does not wait for ever.
QueuedMessageRuns ==
  \A i \in Sends : status[i] = "queued" ~> status[i] # "queued"

\* "if turn was only created/claimed: requeue" (queue.rs:260): the restart does
\* not fail a prompt the provider never saw.
ClaimedIsRequeued ==
  [][\A i \in Sends :
       /\ crashes' # crashes
       /\ status[i] = "active"
       /\ boundTurn[i] \in {t \in Turns : state[t] \in {"created", "claimed"}}
       => status'[i] = "queued"]_vars

\* "prevent late-arriving provider turns from resurrecting rows"
\* (conversation_cmds.rs:42): a deleted conversation has no turn row.
NoRowResurrected ==
  Conversation \notin existing => \A t \in Turns : state[t] = "absent"
=============================================================================
