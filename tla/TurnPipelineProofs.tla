------------------------- MODULE TurnPipelineProofs -------------------------
(***************************************************************************)
(* For any number of messages, retries, crashes and pauses: no path        *)
(* through send_message_inner leaks the conversation's slot, and no path   *)
(* through the drain loses the queue item it activated.  A prompt has one  *)
(* inserter at a time, and a turn row one owner, which finds it in the     *)
(* state it left it in: TurnPipelineReplyProofs builds on that invariant.  *)
(***************************************************************************)
EXTENDS TurnPipeline, Sequences, TLAPS

\* What the argument needs of the types: pc is defined for every runner and the
\* slot is nobody's or a runner's.
SlotTypeOK ==
  /\ pc \in [Runners -> Labels]
  /\ slot \in Runners \cup {Nobody}

SlotInv == SlotTypeOK /\ SlotNotLeaked

\* How a step may move runner r and the slot: it takes the slot only on its way
\* into the guarded region, and leaves that region only by freeing it.
SlotStep(r) ==
  /\ \E label \in Labels : pc' = [pc EXCEPT ![r] = label]
  /\ \/ slot' = Nobody
     \/ slot' = r /\ pc'[r] \in Guarded
     \/ slot' = slot /\ (pc[r] \in Guarded => pc'[r] \in Guarded)

\* What every step of the pipeline does to the two variables.
LEMMA StepShape ==
  ASSUME SlotInv, [Next]_vars
  PROVE  \/ \E r \in Runners : SlotStep(r)
         \/ UNCHANGED <<pc, slot>>
         \/ pc' = pc /\ slot' = Nobody
         \/ slot' = Nobody /\ pc' \in [Runners -> Labels]
<1> USE DEF SlotInv, SlotTypeOK, Guarded, Labels, Goto, SlotStep
<1> DEFINE Shape == \/ \E r \in Runners : SlotStep(r)
                    \/ UNCHANGED <<pc, slot>>
                    \/ pc' = pc /\ slot' = Nobody
                    \/ slot' = Nobody /\ pc' \in [Runners -> Labels]
<1>1. ASSUME NEW r \in Runners, Proceed(r) PROVE SlotStep(r)
  <2> USE <1>1 DEF memoryVars
  <2>1. CASE Register(r) \/ FindsBusy(r) \/ EnqueueMessage(r)
    BY <2>1 DEF Register, FindsBusy, EnqueueMessage
  <2>2. CASE AdmissionFails(r) \/ Admit(r) \/ AdmissionUndone(r)
    BY <2>2 DEF AdmissionFails, Admit, AdmissionUndone
  <2>3. CASE CreateTurn(r)
    BY <2>3 DEF CreateTurn
  <2>4. CASE Reclaim(r)
    BY <2>4 DEF Reclaim
  <2>5. CASE StartProvider(r)
    BY <2>5 DEF StartProvider
  <2>6. CASE ProviderFails(r) \/ Release(r) \/ AbandonDeleted(r) \/ ParseFails(r) \/ Finalize(r)
    BY <2>6 DEF ProviderFails, Release, AbandonDeleted, ParseFails, Finalize
  <2>7. CASE Apply(r) \/ CompileFails(r) \/ CommitReply(r) \/ CommitFails(r) \/ Publish(r)
    BY <2>7 DEF Apply, CompileFails, CommitReply, CommitFails, Publish
  <2>8. CASE WakeOnDrop(r) \/ Exit(r)
    BY <2>8 DEF WakeOnDrop, Exit
  <2> QED BY <2>1, <2>2, <2>3, <2>4, <2>5, <2>6, <2>7, <2>8 DEF Proceed
<1>2. ASSUME DrainStep PROVE SlotStep(Drain)
  <2> USE <1>2 DEF memoryVars, Runners
  <2>1. CASE Bind
    BY <2>1 DEF Bind
  <2>2. CASE DrainLooks \/ DrainPicks \/ DrainFindsNothing \/ DrainGivesUp
    BY <2>2 DEF DrainLooks, DrainPicks, DrainFindsNothing, DrainGivesUp
  <2>3. CASE DrainHandsBack \/ DrainSends \/ DrainSettles \/ DrainEnds
    BY <2>3 DEF DrainHandsBack, DrainSends, DrainSettles, DrainEnds
  <2> QED BY <2>1, <2>2, <2>3 DEF DrainStep
<1>3. ASSUME StartDrain PROVE Shape
  BY <1>3 DEF StartDrain, Runners
<1>4. ASSUME Environment PROVE Shape
  <2> USE DEF memoryVars
  <2>1. ASSUME NEW s \in Sends, SendArrives(s) PROVE SlotStep(s)
    BY <2>1 DEF SendArrives, Runners
  <2>2. ASSUME NEW r \in Retries, RetryArrives(r) PROVE SlotStep(r)
    BY <2>2 DEF RetryArrives, Runners
  <2>3. ASSUME NEW s \in Sends, EditQueue(s) PROVE Shape
    BY <2>3 DEF EditQueue
  <2>4. ASSUME NEW r \in Runners, Stream(r) PROVE Shape
    BY <2>4 DEF Stream
  <2>5. ASSUME NEW t \in Turns, DiscardInterrupted(t) PROVE Shape
    BY <2>5 DEF DiscardInterrupted
  <2>6. ASSUME Stop \/ Tombstone \/ DeleteRows \/ Pause \/ Resume PROVE Shape
    BY <2>6 DEF Stop, Tombstone, DeleteRows, Pause, Resume
  <2>7. ASSUME Restart PROVE Shape
    BY <2>7 DEF Restart
  <2> QED
    <3>1. Sends \subseteq Runners /\ Retries \subseteq Runners
      BY DEF Runners
    <3> QED BY <1>4, <2>1, <2>2, <2>3, <2>4, <2>5, <2>6, <2>7, <3>1 DEF Environment
<1>5. CASE UNCHANGED vars
  BY <1>5 DEF vars, memoryVars
<1> QED
  <2>1. Drain \in Runners
    BY DEF Runners
  <2> QED BY <1>1, <1>2, <1>3, <1>4, <1>5, <2>1 DEF Next, TaskStep

\* The slot invariant is inductive.
LEMMA SlotInvStep == SlotInv /\ [Next]_vars => SlotInv'
<1> SUFFICES ASSUME SlotInv, [Next]_vars PROVE SlotInv'
  OBVIOUS
<1> USE PipelineAssumption DEF SlotInv, SlotTypeOK, SlotNotLeaked
<1>1. ASSUME NEW r \in Runners, SlotStep(r) PROVE SlotInv'
  <2>1. PICK label \in Labels : pc' = [pc EXCEPT ![r] = label]
    BY <1>1 DEF SlotStep
  <2>2. pc' \in [Runners -> Labels] /\ pc'[r] = label
    BY <2>1
  <2>3. CASE slot' = Nobody
    BY <2>2, <2>3
  <2>4. CASE slot' = r /\ pc'[r] \in Guarded
    BY <2>2, <2>4
  <2>5. CASE slot' = slot /\ (pc[r] \in Guarded => pc'[r] \in Guarded)
    <3>1. ASSUME slot # Nobody PROVE pc'[slot] \in Guarded
      BY <3>1, <2>1, <2>2, <2>5
    <3> QED BY <2>2, <2>5, <3>1
  <2> QED BY <1>1, <2>3, <2>4, <2>5 DEF SlotStep
<1> QED BY <1>1, StepShape

\* For every number of messages, retries, crashes and pauses, whoever holds the
\* conversation's slot still has the guard that frees it: every error return,
\* deletion and restart gives the slot back.
THEOREM SlotNeverLeaked == Spec => []SlotNotLeaked
<1>1. Init => SlotInv
  BY PipelineAssumption DEF Init, SlotInv, SlotTypeOK, SlotNotLeaked, Labels
<1>2. SlotInv => SlotNotLeaked
  BY DEF SlotInv
<1> QED BY <1>1, <1>2, SlotInvStep, PTL DEF Spec

-----------------------------------------------------------------------------

\* Where the drain task is when it has no item.
Unburdened == {"idle", "loop", "pick", "leaving"}

\* The inductive invariant behind ActiveItemOwned.  The drain never enqueues:
\* finding the slot taken, it is told "busy".
ItemInv ==
  /\ status \in [Sends -> Q!Statuses]
  /\ pc \in [Runners -> Labels]
  /\ pc[Drain] # "enqueue"
  /\ ActiveItemOwned

\* A step that activates nothing and leaves the drain's burden with it.
Harmless ==
  /\ status' \in [Sends -> Q!Statuses]
  /\ pc' \in [Runners -> Labels]
  /\ pc'[Drain] # "enqueue"
  /\ item' = item
  /\ \A i \in Sends : status'[i] = "active" => status[i] = "active"
  /\ pc'[Drain] \in Unburdened => pc[Drain] \in Unburdened

LEMMA HarmlessKeeps ==
  ASSUME ItemInv, Harmless
  PROVE  ItemInv'
BY DEF ItemInv, Harmless, ActiveItemOwned, Unburdened

\* What the drain's item becomes when the call on it is over: no row stays
\* active behind it.
LEMMA NothingLeftActive ==
  ASSUME ItemInv,
         \/ \E outcome \in {"completed", "failed"} : CompleteItem(outcome)
         \/ IF status[item] = "active" THEN Q!Requeue(item) ELSE UNCHANGED queueVars
  PROVE  /\ status' \in [Sends -> Q!Statuses]
         /\ \A i \in Sends : status'[i] # "active"
<1> USE DEF ItemInv, ActiveItemOwned, queueVars, Q!Statuses
<1>1. CASE status[item] = "active"
  BY <1>1 DEF CompleteItem, Q!Complete, Q!Requeue
<1>2. CASE status[item] # "active"
  BY <1>2 DEF CompleteItem
<1> QED BY <1>1, <1>2

\* A step of a runner's call moves no item except into the queue.
LEMMA CallIsHarmless ==
  ASSUME ItemInv, NEW r \in Runners, Proceed(r), pc[r] \notin Unburdened
  PROVE  Harmless
<1> USE PipelineAssumption
    DEF ItemInv, Harmless, Unburdened, Labels, Goto, queueVars, runnerVars, Runners
<1>1. CASE EnqueueMessage(r)
  <2>1. r # Drain
    BY <1>1 DEF EnqueueMessage
  <2>2. CASE Q!Enqueue(r)
    BY <1>1, <2>1, <2>2 DEF EnqueueMessage, Q!Enqueue, Q!Statuses
  <2>3. CASE UNCHANGED queueVars
    BY <1>1, <2>1, <2>3 DEF EnqueueMessage
  <2> QED BY <1>1, <2>2, <2>3 DEF EnqueueMessage
<1>2. CASE Register(r) \/ FindsBusy(r)
  BY <1>2 DEF Register, FindsBusy
<1>3. CASE AdmissionFails(r) \/ Admit(r) \/ AdmissionUndone(r)
  BY <1>3 DEF AdmissionFails, Admit, AdmissionUndone
<1>4. CASE CreateTurn(r)
  BY <1>4 DEF CreateTurn
<1>5. CASE Reclaim(r)
  BY <1>5 DEF Reclaim
<1>6. CASE StartProvider(r)
  BY <1>6 DEF StartProvider
<1>7. CASE ProviderFails(r) \/ Release(r) \/ AbandonDeleted(r) \/ ParseFails(r) \/ Finalize(r)
  BY <1>7 DEF ProviderFails, Release, AbandonDeleted, ParseFails, Finalize
<1>8. CASE Apply(r) \/ CompileFails(r) \/ CommitReply(r) \/ CommitFails(r) \/ Publish(r)
  BY <1>8 DEF Apply, CompileFails, CommitReply, CommitFails, Publish
<1>9. CASE WakeOnDrop(r) \/ Exit(r)
  BY <1>9 DEF WakeOnDrop, Exit
<1> QED BY <1>1, <1>2, <1>3, <1>4, <1>5, <1>6, <1>7, <1>8, <1>9 DEF Proceed

\* The drain's own steps: it takes an item up, settles it or hands it back.
LEMMA DrainKeepsItem ==
  ASSUME ItemInv, DrainStep
  PROVE  ItemInv'
<1> USE PipelineAssumption DEF ItemInv, ActiveItemOwned, Goto, Labels, Runners
<1>1. CASE Bind
  <2>1. Harmless
    BY <1>1 DEF Bind, Q!BindTurn, Harmless, queueVars, runnerVars, Unburdened
  <2> QED BY <2>1, HarmlessKeeps
<1>2. CASE DrainPicks
  <2>1. PICK i \in Sends : Q!ActivateNext(Conversation, i) /\ item' = i
    BY <1>2 DEF DrainPicks
  <2>2. \A j \in Sends : status[j] # "active"
    BY <1>2 DEF DrainPicks
  <2>3. status' = [status EXCEPT ![i] = "active"]
    BY <2>1 DEF Q!ActivateNext
  <2>4. pc' = [pc EXCEPT ![Drain] = "claimed"]
    BY <1>2 DEF DrainPicks
  <2> QED BY <2>1, <2>2, <2>3, <2>4 DEF Q!Statuses
<1>3. CASE DrainLooks \/ DrainFindsNothing \/ DrainSends \/ DrainEnds
  BY <1>3 DEF DrainLooks, DrainFindsNothing, DrainSends, DrainEnds, queueVars, runnerVars
<1>4. CASE DrainGivesUp \/ DrainSettles \/ DrainHandsBack
  <2>1. /\ status' \in [Sends -> Q!Statuses]
        /\ \A i \in Sends : status'[i] # "active"
    BY <1>4, NothingLeftActive DEF DrainGivesUp, DrainSettles, DrainHandsBack
  <2>2. PICK label \in {"leaving", "loop"} : pc' = [pc EXCEPT ![Drain] = label]
    BY <1>4 DEF DrainGivesUp, DrainSettles, DrainHandsBack
  <2> QED BY <2>1, <2>2
<1> QED BY <1>1, <1>2, <1>3, <1>4 DEF DrainStep

\* The user, maintenance and the restart.
LEMMA EnvironmentKeepsItem ==
  ASSUME ItemInv, Environment
  PROVE  ItemInv'
<1> USE PipelineAssumption DEF ItemInv, Goto, Labels, queueVars, runnerVars, Q!Statuses
<1> USE DEF Harmless, Unburdened
<1>1. ASSUME NEW s \in Sends, SendArrives(s) PROVE Harmless
  BY <1>1 DEF SendArrives, Runners
<1>2. ASSUME NEW r \in Retries, RetryArrives(r) PROVE Harmless
  BY <1>2 DEF RetryArrives, Runners
<1>3. ASSUME NEW s \in Sends, EditQueue(s) PROVE Harmless
  BY <1>3 DEF EditQueue, Q!Cancel, Q!RemoveQueued
<1>4. ASSUME NEW r \in Runners, Stream(r) PROVE Harmless
  BY <1>4 DEF Stream
<1>5. ASSUME NEW t \in Turns, DiscardInterrupted(t) PROVE Harmless
  BY <1>5 DEF DiscardInterrupted
<1>6. CASE Stop \/ Tombstone \/ Pause \/ Resume
  <2>1. Harmless
    BY <1>6 DEF Stop, Tombstone, Pause, Resume
  <2> QED BY <2>1, HarmlessKeeps
<1>7. CASE DeleteRows
  <2>1. Harmless
    BY <1>7 DEF DeleteRows, Q!DeleteConversation
  <2> QED BY <2>1, HarmlessKeeps
<1>8. CASE Restart
  <2>1. /\ status' \in [Sends -> Q!Statuses]
        /\ \A i \in Sends : status'[i] # "active"
    BY <1>8 DEF Restart, Recover, Q!RecoverStaleActive, Q!Recovered
  <2>2. pc' \in [Runners -> Labels] /\ pc'[Drain] # "enqueue"
    BY <1>8 DEF Restart, Runners
  <2> QED BY <2>1, <2>2 DEF ActiveItemOwned
<1> QED
  BY <1>1, <1>2, <1>3, <1>4, <1>5, <1>6, <1>7, <1>8, HarmlessKeeps DEF Environment

\* For every number of messages, retries, crashes and pauses, a queue row that
\* is active is the one the drain task has in hand: no error return, lost race,
\* deletion or restart leaves one active that nobody is going to settle.
THEOREM ActiveItemNeverOrphaned == Spec => []ActiveItemOwned
<1>1. Init => ItemInv
  BY PipelineAssumption
  DEF Init, Q!Init, ItemInv, ActiveItemOwned, Labels, Runners, Q!Statuses
<1>2. ItemInv /\ [Next]_vars => ItemInv'
  <2> SUFFICES ASSUME ItemInv, [Next]_vars PROVE ItemInv'
    OBVIOUS
  <2>1. ASSUME NEW r \in Runners, TaskStep(r) PROVE ItemInv'
    <3>1. CASE r = Drain /\ DrainStep
      BY <3>1, DrainKeepsItem
    <3>2. CASE Proceed(r)
      <4>1. pc[r] \notin Unburdened
        BY <3>2 DEF Proceed, Unburdened, Register, FindsBusy, EnqueueMessage, AdmissionFails,
             Admit, AdmissionUndone, CreateTurn, Reclaim, StartProvider, ProviderFails, Release,
             AbandonDeleted, ParseFails, Finalize, Apply, CompileFails, CommitReply,
             CommitFails, Publish, WakeOnDrop, Exit
      <4> QED BY <3>2, <4>1, CallIsHarmless, HarmlessKeeps
    <3> QED BY <2>1, <3>1, <3>2 DEF TaskStep
  <2>2. CASE StartDrain
    BY <2>2 DEF StartDrain, ItemInv, ActiveItemOwned, Goto, Labels, queueVars, runnerVars, Runners
  <2>3. CASE Environment
    BY <2>3, EnvironmentKeepsItem
  <2>4. CASE UNCHANGED vars
    BY <2>4 DEF vars, queueVars, runnerVars, ItemInv, ActiveItemOwned
  <2> QED BY <2>1, <2>2, <2>3, <2>4 DEF Next
<1>3. ItemInv => ActiveItemOwned
  BY DEF ItemInv
<1> QED BY <1>1, <1>2, <1>3, PTL DEF Spec

-----------------------------------------------------------------------------
(* Who works on which prompt and owns which turn row *)

\* Where a runner has a turn, and where it owns the row of that turn.
Working == {"turn", "bind", "start", "provider", "release", "apply", "commit", "publish"}
Engaged == {"bind", "start", "provider", "apply", "commit", "publish"}

\* The program position of each task, and what each has in hand there.
RunnersTyped ==
  /\ pc \in [Runners -> Labels]
  /\ turn \in [Runners -> Turns \cup {NoTurn}]
  /\ att \in [Runners -> Nat]
  /\ item \in Sends \cup {Nobody}
  /\ succeeded \in BOOLEAN
  /\ \A r \in Runners : pc[r] \in Working => turn[r] \in Turns
  /\ \A r \in Retries : pc[r] \in {"register", "admit"} => turn[r] \in Turns
  /\ \A r \in Runners : pc[r] = "enqueue" => r \in Sends
  /\ pc[Drain] # "returned"
  /\ pc[Drain] \notin Unburdened => item \in Sends

MemoryTyped ==
  /\ applied \subseteq Turns
  /\ slot \in Runners \cup {Nobody} /\ cancelled \subseteq Runners
  /\ tombstone \in BOOLEAN /\ paused \in BOOLEAN /\ wakes \in Nat
  /\ crashes \in 0..MaxCrashes /\ pauses \in 0..MaxPauses

LEMMA NoCheckpointTyped == J!NoCheckpoint \in J!Checkpoints
BY DEF J!NoCheckpoint, J!Checkpoints

-----------------------------------------------------------------------------
(* The journal's rows keep their types. *)

\* What StartProvider does to the journal: retention gives up the turns in gone,
\* then the runner's own turn is started.
Started(r, gone) ==
  /\ state' = [u \in Turns |->
                 IF u \in gone THEN "failed"
                 ELSE IF u = turn[r] /\ attempt[turn[r]] = att[r]
                 THEN After(state[turn[r]], "provider_started") ELSE state[u]]
  /\ staged' = [u \in Turns |-> IF u \in gone THEN J!NoCheckpoint ELSE staged[u]]
  /\ finalized' = [u \in Turns |-> finalized[u] \/ u \in gone]
  /\ attempt' = attempt

LEMMA StartPrunes ==
  ASSUME NEW r \in Runners, StartProvider(r)
  PROVE  \E gone \in SUBSET J!Recoverable : Started(r, gone)
<1>1. PICK keep \in J!Kept(turn[r]) : Started(r, J!Recoverable \ keep)
  BY Zenon DEF StartProvider, Started
<1> QED BY <1>1

LEMMA TryTransitionsTyped ==
  ASSUME J!TypeOK, NEW r \in Runners, turn[r] \in Turns,
         NEW first \in J!States, NEW second \in J!States, TryTransitions(r, first, second)
  PROVE  J!TypeOK'
<1> DEFINE tried == After(After(state[turn[r]], first), second)
           to == IF attempt[turn[r]] = att[r] THEN tried ELSE state[turn[r]]
<1>1. to \in J!States
  BY DEF J!TypeOK, After
<1>2. /\ state' = [state EXCEPT ![turn[r]] = to]
      /\ finalized' = [finalized EXCEPT ![turn[r]] = @ \/ to \in J!Terminal]
  BY Zenon DEF TryTransitions
<1> QED
  <2> HIDE DEF to
  <2>1. UNCHANGED <<attempt, staged>>
    BY DEF TryTransitions
  <2> QED BY <1>1, <1>2, <2>1 DEF J!TypeOK

LEMMA JournalStepTyped ==
  ASSUME J!TypeOK, RunnersTyped, [Next]_vars
  PROVE  J!TypeOK'
<1> USE PipelineAssumption, NoCheckpointTyped DEF journalVars
<1>1. ASSUME UNCHANGED journalVars PROVE J!TypeOK'
  BY <1>1 DEF J!TypeOK
<1>2. ASSUME NEW r \in Runners, Proceed(r) PROVE J!TypeOK'
  <2>1. CASE CreateTurn(r)
    BY <2>1 DEF CreateTurn, RunnersTyped, Working, J!TypeOK, J!States, J!InFlight
  <2>2. CASE Reclaim(r)
    <3>1. turn[r] \in Turns
      BY <2>2 DEF Reclaim, RunnersTyped, Working
    <3>2. CASE J!BeginRetry(turn[r], att[r])
      BY <3>1, <3>2 DEF J!BeginRetry, J!TypeOK, J!States, J!InFlight
    <3>3. CASE UNCHANGED journalVars
      BY <1>1, <3>3
    <3> QED BY <2>2, <3>2, <3>3 DEF Reclaim
  <2>3. CASE StartProvider(r)
    <3>1. PICK gone \in SUBSET J!Recoverable : Started(r, gone)
      BY <2>3, StartPrunes
    <3> QED BY <2>3, <3>1 DEF Started, J!TypeOK, J!States, J!InFlight, J!Terminal, After
  <2>4. CASE ProviderFails(r) \/ Finalize(r) \/ Publish(r)
    <3>1. turn[r] \in Turns
      BY <2>4 DEF ProviderFails, Finalize, Publish, RunnersTyped, Working
    <3>2. PICK first \in J!States, second \in J!States : TryTransitions(r, first, second)
      BY <2>4 DEF ProviderFails, Finalize, Publish, TryTransition, J!States, J!InFlight, J!Terminal
    <3> QED BY <3>1, <3>2, TryTransitionsTyped
  <2>5. CASE \/ Register(r) \/ FindsBusy(r) \/ EnqueueMessage(r)
             \/ AdmissionFails(r) \/ Admit(r) \/ AdmissionUndone(r)
             \/ Release(r) \/ AbandonDeleted(r) \/ ParseFails(r) \/ Apply(r) \/ CompileFails(r)
             \/ CommitReply(r) \/ CommitFails(r) \/ WakeOnDrop(r) \/ Exit(r)
    BY <1>1, <2>5 DEF Register, FindsBusy, EnqueueMessage, AdmissionFails, Admit, AdmissionUndone,
       Release, AbandonDeleted, ParseFails, Apply, CompileFails, CommitReply, CommitFails,
       WakeOnDrop, Exit
  <2> QED BY <1>2, <2>1, <2>2, <2>3, <2>4, <2>5 DEF Proceed
<1>3. ASSUME DrainStep \/ StartDrain PROVE UNCHANGED journalVars
  BY <1>3 DEF DrainStep, StartDrain, Bind, DrainLooks, DrainPicks, DrainFindsNothing, DrainGivesUp,
     DrainHandsBack, DrainSends, DrainSettles, DrainEnds
<1>4. ASSUME Environment PROVE J!TypeOK'
  <2>1. ASSUME NEW r \in Runners, Stream(r) PROVE J!TypeOK'
    <3>1. PICK n \in 0..MaxOps, complete \in Completions :
            \E ops \in [1..n -> Ops] : J!Checkpoint(turn[r], att[r], ops, complete)
      BY <2>1 DEF Stream
    <3>4. PICK ops \in [1..n -> Ops] : J!Checkpoint(turn[r], att[r], ops, complete)
      BY <3>1
    <3>2. turn[r] \in Turns /\ att[r] \in Nat
      BY <2>1 DEF Stream, RunnersTyped, Working
    <3>3. [attempt |-> att[r], ops |-> ops, complete |-> complete] \in J!Checkpoints
      <4>1. ops \in Seq(Ops) /\ complete \in BOOLEAN
        OBVIOUS
      <4> QED BY <3>2, <4>1 DEF J!Checkpoints
    <3> QED BY <3>4, <3>2, <3>3 DEF J!Checkpoint, J!TypeOK, J!States, J!InFlight
  <2>2. ASSUME NEW t \in Turns, DiscardInterrupted(t) PROVE J!TypeOK'
    BY <2>2 DEF DiscardInterrupted, J!Discard, J!TypeOK, J!States, J!Terminal
  <2>3. CASE DeleteRows
    BY <2>3 DEF DeleteRows, J!DeleteConversation, J!DropRows, J!TypeOK, J!States
  <2>4. CASE Restart
    BY <2>4 DEF Restart, Recover, J!MarkInterruptedInFlight, J!TypeOK, J!States
  <2>5. CASE Stop \/ Tombstone \/ Pause \/ Resume
    BY <1>1, <2>5 DEF Stop, Tombstone, Pause, Resume
  <2>6. ASSUME NEW s \in Sends, SendArrives(s) \/ EditQueue(s) PROVE J!TypeOK'
    BY <1>1, <2>6 DEF SendArrives, EditQueue
  <2>7. ASSUME NEW r \in Retries, RetryArrives(r) PROVE J!TypeOK'
    BY <1>1, <2>7 DEF RetryArrives
  <2> QED BY <1>4, <2>1, <2>2, <2>3, <2>4, <2>5, <2>6, <2>7 DEF Environment
<1>5. CASE UNCHANGED vars
  BY <1>1, <1>5 DEF vars
<1> QED BY <1>1, <1>2, <1>3, <1>4, <1>5 DEF Next, TaskStep

-----------------------------------------------------------------------------
(* A prompt enters the conversation once per life of the process. *)

\* Who may still insert the message of prompt p in this life: the send itself,
\* whose item is not in the queue yet, or the drain with its item, after the
\* send has returned.
PromptInv ==
  /\ inserted \in [Sends -> Nat]
  /\ \A p \in Sends : inserted[p] <= 1 + crashes
  /\ \A p \in Sends : pc[p] # "returned" => status[p] = "unused"
  /\ \A p \in Sends : pc[p] \in {"idle", "register", "enqueue", "admit"} => inserted[p] = 0
  /\ \A p \in Sends : status[p] = "queued" => inserted[p] <= crashes
  /\ pc[Drain] \in {"claimed", "busy", "register", "admit"} => inserted[item] <= crashes
  /\ pc[Drain] \notin Unburdened => status[item] \notin {"unused", "queued"}

\* The rows of the queue, as far as it goes here.
QueueTyped == status \in [Sends -> Q!Statuses]

\* What prompt and journal invariants have in common.
TypedInv == QueueTyped /\ J!TypeOK /\ RunnersTyped /\ MemoryTyped /\ PromptInv

LEMMA PromptOfRunner ==
  ASSUME TypedInv, NEW r \in Runners \ Retries, pc[r] = "admit"
  PROVE  /\ Prompt(r) \in Sends
         /\ inserted[Prompt(r)] <= crashes
         /\ <<Prompt(r), inserted[Prompt(r)] + 1>> \in Turns
<1> USE PipelineAssumption DEF TypedInv, RunnersTyped, PromptInv, MemoryTyped, Runners, Unburdened
<1>1. Prompt(r) \in Sends /\ inserted[Prompt(r)] <= crashes
  BY DEF Prompt
<1>2. inserted[Prompt(r)] + 1 \in 1..(MaxCrashes + 1)
  BY <1>1
<1> QED BY <1>1, <1>2 DEF Turns

\* A call moves the task that makes it, and its own turn only.
LEMMA CallKeepsPlaces ==
  ASSUME TypedInv, NEW r \in Runners, Proceed(r)
  PROVE  RunnersTyped'
<1> USE PipelineAssumption
    DEF TypedInv, RunnersTyped, Labels, Unburdened, Working, Goto, Runners, runnerVars
<1>1. CASE Register(r) \/ FindsBusy(r) \/ EnqueueMessage(r)
  BY <1>1 DEF Register, FindsBusy, EnqueueMessage
<1>2. CASE AdmissionFails(r) \/ AdmissionUndone(r)
  BY <1>2 DEF AdmissionFails, AdmissionUndone
<1>3. CASE Admit(r)
  <2>1. CASE r \in Retries
    BY <1>3, <2>1 DEF Admit
  <2>2. CASE r \notin Retries
    BY <1>3, <2>2, PromptOfRunner DEF Admit
  <2> QED BY <2>1, <2>2
<1>4. CASE CreateTurn(r)
  BY <1>4 DEF CreateTurn, J!TypeOK
<1>5. CASE Reclaim(r)
  BY <1>5 DEF Reclaim
<1>6. CASE StartProvider(r)
  BY <1>6 DEF StartProvider
<1>7. CASE ProviderFails(r) \/ Release(r) \/ AbandonDeleted(r) \/ ParseFails(r) \/ Finalize(r)
  BY <1>7 DEF ProviderFails, Release, AbandonDeleted, ParseFails, Finalize
<1>8. CASE Apply(r) \/ CompileFails(r) \/ CommitReply(r) \/ CommitFails(r) \/ Publish(r)
  BY <1>8 DEF Apply, CompileFails, CommitReply, CommitFails, Publish
<1>9. CASE WakeOnDrop(r)
  BY <1>9 DEF WakeOnDrop
<1>10. CASE Exit(r)
  BY <1>10 DEF Exit
<1> QED BY <1>1, <1>2, <1>3, <1>4, <1>5, <1>6, <1>7, <1>8, <1>9, <1>10 DEF Proceed

LEMMA StepKeepsPlaces ==
  ASSUME TypedInv, [Next]_vars
  PROVE  RunnersTyped'
<1> USE PipelineAssumption DEF TypedInv, RunnersTyped, Labels, Unburdened, Working, Goto, Runners
<1>1. ASSUME DrainStep PROVE RunnersTyped'
  <2>1. CASE Bind \/ DrainLooks \/ DrainFindsNothing \/ DrainSends \/ DrainEnds
    BY <2>1 DEF Bind, DrainLooks, DrainFindsNothing, DrainSends, DrainEnds, runnerVars
  <2>2. CASE DrainPicks
    BY <2>2 DEF DrainPicks
  <2>3. CASE DrainGivesUp \/ DrainHandsBack \/ DrainSettles
    BY <2>3 DEF DrainGivesUp, DrainHandsBack, DrainSettles
  <2> QED BY <1>1, <2>1, <2>2, <2>3 DEF DrainStep
<1>2. CASE StartDrain
  BY <1>2 DEF StartDrain, runnerVars
<1>3. ASSUME Environment PROVE RunnersTyped'
  <2>1. ASSUME NEW s \in Sends, SendArrives(s) PROVE RunnersTyped'
    BY <2>1 DEF SendArrives, runnerVars
  <2>2. ASSUME NEW r \in Retries, RetryArrives(r) PROVE RunnersTyped'
    BY <2>2 DEF RetryArrives, J!Recoverable, J!TypeOK
  <2>3. CASE Restart
    BY <2>3 DEF Restart
  <2>4. CASE \/ \E s \in Sends : EditQueue(s)
             \/ \E r \in Runners : Stream(r)
             \/ \E t \in Turns : DiscardInterrupted(t)
             \/ Stop \/ Tombstone \/ DeleteRows \/ Pause \/ Resume
    BY <2>4 DEF EditQueue, Stream, DiscardInterrupted, Stop, Tombstone, DeleteRows, Pause, Resume,
       runnerVars
  <2> QED BY <1>3, <2>1, <2>2, <2>3, <2>4 DEF Environment
<1>4. CASE UNCHANGED vars
  BY <1>4 DEF vars, runnerVars
<1> QED BY <1>1, <1>2, <1>3, <1>4, CallKeepsPlaces DEF Next, TaskStep

\* What the drain does to the row of its item when it is done with it.
LEMMA ItemSettledTyped ==
  ASSUME QueueTyped, NEW outcome \in {"completed", "failed"}, CompleteItem(outcome)
  PROVE  /\ QueueTyped'
         /\ \A p \in Sends : status'[p] = "queued" => status[p] = "queued"
         /\ \A p \in Sends : status'[p] = "unused" <=> status[p] = "unused"
BY DEF QueueTyped, CompleteItem, Q!Complete, Q!Statuses, queueVars

LEMMA CallKeepsPrompts ==
  ASSUME TypedInv, RunnersTyped', NEW r \in Runners, Proceed(r)
  PROVE  QueueTyped' /\ PromptInv'
<1> USE PipelineAssumption
    DEF TypedInv, QueueTyped, PromptInv, RunnersTyped, MemoryTyped, Labels, Unburdened, Goto, Runners,
        queueVars, effectVars, boundVars, runnerVars
<1>1. CASE EnqueueMessage(r)
  <2>1. r \in Sends /\ r # Drain
    BY <1>1 DEF EnqueueMessage
  <2>2. CASE Q!Enqueue(r)
    BY <1>1, <2>1, <2>2 DEF EnqueueMessage, Q!Enqueue, Q!Statuses
  <2>3. CASE UNCHANGED queueVars
    BY <1>1, <2>1, <2>3 DEF EnqueueMessage
  <2> QED BY <1>1, <2>2, <2>3 DEF EnqueueMessage
<1>2. CASE Register(r) \/ FindsBusy(r) \/ AdmissionFails(r) \/ AdmissionUndone(r)
  BY <1>2 DEF Register, FindsBusy, AdmissionFails, AdmissionUndone
<1>3. CASE Admit(r)
  <2>1. CASE r \in Retries
    BY <1>3, <2>1 DEF Admit
  <2>2. CASE r \notin Retries
    <3>1. /\ Prompt(r) \in Sends /\ inserted[Prompt(r)] <= crashes
          /\ inserted' = [inserted EXCEPT ![Prompt(r)] = @ + 1]
          /\ UNCHANGED <<status, item, crashes>>
      BY <1>3, <2>2, PromptOfRunner DEF Admit
    <3>2. \A p \in Sends : pc'[p] \in {"idle", "register", "enqueue", "admit"} => p # Prompt(r)
      BY <1>3, <2>2 DEF Admit, Prompt
    <3>3. status[Prompt(r)] # "queued"
      <4>1. CASE r = Drain
        BY <1>3, <4>1 DEF Admit, Prompt
      <4>2. CASE r \in Sends
        BY <1>3, <4>2 DEF Admit, Prompt
      <4> QED BY <2>2, <4>1, <4>2
    <3>4. pc'[Drain] \in {"claimed", "busy", "register", "admit"} => item # Prompt(r)
      <4>1. CASE r = Drain
        BY <1>3, <4>1 DEF Admit
      <4>2. CASE r \in Sends
        BY <1>3, <4>2 DEF Admit, Prompt
      <4> QED BY <2>2, <4>1, <4>2
    <3> QED BY <1>3, <3>1, <3>2, <3>3, <3>4 DEF Admit
  <2> QED BY <2>1, <2>2
<1>4. CASE CreateTurn(r)
  BY <1>4 DEF CreateTurn
<1>5. CASE Reclaim(r)
  BY <1>5 DEF Reclaim
<1>6. CASE StartProvider(r)
  BY <1>6 DEF StartProvider
<1>7. CASE ProviderFails(r) \/ Release(r) \/ AbandonDeleted(r) \/ ParseFails(r) \/ Finalize(r)
  BY <1>7 DEF ProviderFails, Release, AbandonDeleted, ParseFails, Finalize
<1>8. CASE Apply(r) \/ CompileFails(r) \/ CommitReply(r) \/ CommitFails(r) \/ Publish(r)
  BY <1>8 DEF Apply, CompileFails, CommitReply, CommitFails, Publish
<1>9. CASE WakeOnDrop(r) \/ Exit(r)
  BY <1>9 DEF WakeOnDrop, Exit
<1> QED BY <1>1, <1>2, <1>3, <1>4, <1>5, <1>6, <1>7, <1>8, <1>9 DEF Proceed

LEMMA StepKeepsPrompts ==
  ASSUME TypedInv, RunnersTyped', [Next]_vars
  PROVE  QueueTyped' /\ PromptInv'
<1> DEFINE Goal == QueueTyped' /\ PromptInv'
<1> USE PipelineAssumption
    DEF TypedInv, QueueTyped, PromptInv, RunnersTyped, MemoryTyped, Labels, Unburdened, Goto, Runners,
        queueVars, effectVars, boundVars, runnerVars
<1>1. ASSUME DrainStep PROVE Goal
  <2>1. CASE Bind
    BY <2>1 DEF Bind, Q!BindTurn
  <2>2. CASE DrainLooks \/ DrainFindsNothing \/ DrainSends \/ DrainEnds
    BY <2>2 DEF DrainLooks, DrainFindsNothing, DrainSends, DrainEnds
  <2>3. CASE DrainPicks
    <3>1. PICK i \in Sends : Q!ActivateNext(Conversation, i) /\ item' = i
      BY <2>3 DEF DrainPicks
    <3>2. status[i] = "queued" /\ status' = [status EXCEPT ![i] = "active"]
      BY <3>1 DEF Q!ActivateNext, Q!NextUp, Q!InConversation
    <3> QED BY <2>3, <3>1, <3>2 DEF DrainPicks, Q!Statuses
  <2>4. CASE DrainGivesUp \/ DrainSettles
    <3>1. PICK outcome \in {"completed", "failed"} : CompleteItem(outcome)
      BY <2>4 DEF DrainGivesUp, DrainSettles
    <3> QED BY <2>4, <3>1, ItemSettledTyped DEF DrainGivesUp, DrainSettles
  <2>5. CASE DrainHandsBack
    <3>1. CASE status[item] = "active"
      BY <2>5, <3>1 DEF DrainHandsBack, Q!Requeue, Q!Statuses
    <3>2. CASE UNCHANGED queueVars
      BY <2>5, <3>2 DEF DrainHandsBack
    <3> QED BY <2>5, <3>1, <3>2 DEF DrainHandsBack
  <2> QED BY <1>1, <2>1, <2>2, <2>3, <2>4, <2>5 DEF DrainStep
<1>2. CASE StartDrain
  BY <1>2 DEF StartDrain
<1>3. ASSUME Environment PROVE Goal
  <2>1. ASSUME NEW s \in Sends, SendArrives(s) PROVE Goal
    BY <2>1 DEF SendArrives
  <2>2. ASSUME NEW r \in Retries, RetryArrives(r) PROVE Goal
    BY <2>2 DEF RetryArrives
  <2>3. ASSUME NEW s \in Sends, EditQueue(s) PROVE Goal
    BY <2>3 DEF EditQueue, Q!Cancel, Q!RemoveQueued, Q!Statuses
  <2>4. CASE DeleteRows
    BY <2>4 DEF DeleteRows, Q!DeleteConversation, Q!Statuses
  <2>5. CASE Restart
    BY <2>5 DEF Restart, Recover, Q!RecoverStaleActive, Q!Recovered, Q!Statuses
  <2>6. CASE \/ \E r \in Runners : Stream(r)
             \/ \E t \in Turns : DiscardInterrupted(t)
             \/ Stop \/ Tombstone \/ Pause \/ Resume
    BY <2>6 DEF Stream, DiscardInterrupted, Stop, Tombstone, Pause, Resume
  <2> QED BY <1>3, <2>1, <2>2, <2>3, <2>4, <2>5, <2>6 DEF Environment
<1>4. CASE UNCHANGED vars
  BY <1>4 DEF vars
<1> QED BY <1>1, <1>2, <1>3, <1>4, CallKeepsPrompts DEF Next, TaskStep

\* Memory and the bounds.
LEMMA StepKeepsMemory ==
  ASSUME TypedInv, [Next]_vars
  PROVE  MemoryTyped'
<1> USE PipelineAssumption
    DEF TypedInv, RunnersTyped, MemoryTyped, Runners, effectVars, memoryVars, boundVars
<1>1. ASSUME NEW r \in Runners, Proceed(r) PROVE MemoryTyped'
  <2> USE <1>1
  <2>1. CASE Register(r) \/ FindsBusy(r) \/ EnqueueMessage(r)
    BY <2>1 DEF Register, FindsBusy, EnqueueMessage
  <2>2. CASE AdmissionFails(r) \/ Admit(r) \/ AdmissionUndone(r)
    BY <2>2 DEF AdmissionFails, Admit, AdmissionUndone
  <2>3. CASE CreateTurn(r) \/ Reclaim(r) \/ StartProvider(r)
    BY <2>3 DEF CreateTurn, Reclaim, StartProvider
  <2>4. CASE ProviderFails(r) \/ Release(r) \/ AbandonDeleted(r) \/ ParseFails(r) \/ Finalize(r)
    BY <2>4 DEF ProviderFails, Release, AbandonDeleted, ParseFails, Finalize, ScheduleDrain
  <2>5. CASE Apply(r)
    BY <2>5 DEF Apply, Working
  <2>6. CASE CompileFails(r) \/ CommitReply(r) \/ CommitFails(r) \/ Publish(r)
    BY <2>6 DEF CompileFails, CommitReply, CommitFails, Publish, ScheduleDrain
  <2>7. CASE WakeOnDrop(r) \/ Exit(r)
    BY <2>7 DEF WakeOnDrop, Exit, ScheduleDrain
  <2> QED BY <2>1, <2>2, <2>3, <2>4, <2>5, <2>6, <2>7 DEF Proceed
<1>2. CASE DrainStep
  BY <1>2 DEF DrainStep, Bind, DrainLooks, DrainPicks, DrainFindsNothing, DrainGivesUp, DrainHandsBack,
     DrainSends, DrainSettles, DrainEnds
<1>3. CASE StartDrain
  BY <1>3 DEF StartDrain
<1>4. CASE Environment
  <2>1. CASE Stop \/ Tombstone
    BY <2>1 DEF Stop, Tombstone
  <2>2. CASE Pause \/ Resume
    <3>1. pauses' \in 0..MaxPauses
      BY <2>2 DEF Pause, Resume
    <3> QED BY <2>2, <3>1 DEF Pause, Resume
  <2>3. CASE Restart
    <3>1. crashes' \in 0..MaxCrashes
      BY <2>3 DEF Restart
    <3> QED BY <2>3, <3>1 DEF Restart
  <2>4. CASE \/ \E s \in Sends : SendArrives(s) \/ EditQueue(s)
             \/ \E r \in Retries : RetryArrives(r)
             \/ \E r \in Runners : Stream(r)
             \/ \E t \in Turns : DiscardInterrupted(t)
             \/ DeleteRows
    BY <2>4 DEF SendArrives, EditQueue, RetryArrives, Stream, DiscardInterrupted, DeleteRows
  <2> QED BY <1>4, <2>1, <2>2, <2>3, <2>4 DEF Environment
<1>5. CASE UNCHANGED vars
  BY <1>5 DEF vars
<1> QED BY <1>1, <1>2, <1>3, <1>4, <1>5 DEF Next, TaskStep

-----------------------------------------------------------------------------
(* Who owns the row of a turn. *)

\* The states in which its owner finds the row.
Phase(label) ==
  IF label \in {"bind", "start"} THEN {"claimed"}
  ELSE IF label = "provider" THEN {"provider_started", "streaming"}
  ELSE {"finalizing"}

\* A turn that was never claimed has no row, and a call that is not a retry
\* comes to create_turn with such a turn: that of the message it has inserted.
TurnInv ==
  /\ \A t \in Turns : attempt[t] = 0 => state[t] = "absent"
  /\ \A t \in Turns : attempt[t] # 0 => t[2] <= inserted[t[1]]
  /\ \A r \in Runners \ Retries : turn[r] # NoTurn =>
       /\ pc[r] \in Working \cup {"wake", "exit"}
       /\ turn[r][1] = Prompt(r) /\ turn[r][2] <= inserted[turn[r][1]]
  /\ \A r \in Runners \ Retries : pc[r] = "turn" => attempt[turn[r]] = 0

\* From create_turn or the reclaim to the published row, a call holds the
\* current attempt of its turn, alone, and finds the row as it left it, unless
\* the conversation is gone.
OwnInv ==
  /\ \A r \in Runners : pc[r] \in Engaged =>
       /\ att[r] # 0 /\ attempt[turn[r]] = att[r]
       /\ \/ state[turn[r]] \in Phase(pc[r])
          \/ Conversation \notin existing /\ state[turn[r]] = "absent"
  /\ \A r, q \in Runners :
       pc[r] \in Engaged /\ pc[q] \in Engaged /\ turn[r] = turn[q] => r = q

OwnerInv == TypedInv /\ TurnInv /\ OwnInv

\* Two calls that are not retries never work on the same turn.
LEMMA TurnsDistinct ==
  ASSUME TypedInv, TurnInv, NEW r \in Runners \ Retries, NEW q \in Runners \ Retries,
         turn[r] = turn[q], turn[r] # NoTurn
  PROVE  r = q
<1> USE PipelineAssumption DEF Runners
<1>1. ASSUME NEW s \in Sends, turn[s] # NoTurn, turn[Drain] # NoTurn PROVE item # s
  BY <1>1 DEF TypedInv, PromptInv, RunnersTyped, TurnInv, Unburdened, Working
<1>2. Prompt(r) = Prompt(q)
  BY DEF TurnInv
<1>3. CASE r \in Sends /\ q \in Sends
  BY <1>2, <1>3 DEF Prompt
<1>4. CASE r = Drain /\ q \in Sends
  BY <1>1, <1>2, <1>4 DEF Prompt
<1>5. CASE q = Drain /\ r \in Sends
  BY <1>1, <1>2, <1>5 DEF Prompt
<1> QED BY <1>3, <1>4, <1>5

\* A step that claims no turn and changes no row keeps the owners.
LEMMA QuietKeepsOwners ==
  ASSUME OwnInv, UNCHANGED <<journalVars, existing>>,
         \A q \in Runners : pc'[q] \in Engaged =>
           /\ pc[q] \in Engaged /\ Phase(pc'[q]) = Phase(pc[q])
           /\ turn'[q] = turn[q] /\ att'[q] = att[q]
  PROVE  OwnInv'
BY DEF OwnInv, journalVars

\* The same when the rows change that no call owns, or that are dropped.
LEMMA OthersRowsKeepOwners ==
  ASSUME OwnInv, UNCHANGED <<attempt, pc, turn, att>>,
         existing' \subseteq existing,
         \A q \in Runners : pc[q] \in Engaged =>
           \/ state'[turn[q]] = state[turn[q]]
           \/ Conversation \notin existing' /\ state'[turn[q]] = "absent"
  PROVE  OwnInv'
BY DEF OwnInv

LEMMA CallKeepsOwners ==
  ASSUME OwnerInv, RunnersTyped', NEW r \in Runners, Proceed(r)
  PROVE  OwnInv'
<1> USE PipelineAssumption DEF OwnerInv, TypedInv, RunnersTyped, Goto
<1>1. CASE \/ Register(r) \/ FindsBusy(r) \/ AdmissionFails(r) \/ AdmissionUndone(r)
           \/ Release(r) \/ AbandonDeleted(r) \/ ParseFails(r) \/ Apply(r) \/ CompileFails(r)
           \/ CommitReply(r) \/ CommitFails(r) \/ WakeOnDrop(r)
  <2>1. UNCHANGED <<journalVars, existing, turn, att>>
    BY <1>1 DEF Register, FindsBusy, AdmissionFails, AdmissionUndone, Release, AbandonDeleted, ParseFails,
       Apply, CompileFails, CommitReply, CommitFails, WakeOnDrop, queueVars, runnerVars
  <2>2. PICK label \in {"admit", "enqueue", "busy", "returned", "exit", "wake", "commit", "publish"} :
          pc' = [pc EXCEPT ![r] = label] /\ (label \in Engaged => pc[r] \in {"apply", "commit"})
    BY <1>1 DEF Register, FindsBusy, AdmissionFails, AdmissionUndone, Release, AbandonDeleted, ParseFails,
       Apply, CompileFails, CommitReply, CommitFails, WakeOnDrop, Engaged
  <2> QED BY <2>1, <2>2, QuietKeepsOwners DEF Engaged, Phase
<1>2. CASE EnqueueMessage(r) \/ Admit(r) \/ Exit(r)
  <2>1. UNCHANGED <<journalVars, existing>>
    BY <1>2 DEF EnqueueMessage, Admit, Exit, queueVars, Q!Enqueue
  <2>2. PICK label \in {"returned", "turn", "settle"} : pc' = [pc EXCEPT ![r] = label]
    BY <1>2 DEF EnqueueMessage, Admit, Exit
  <2>3. \A q \in Runners \ {r} : turn'[q] = turn[q] /\ att'[q] = att[q]
    BY <1>2 DEF EnqueueMessage, Admit, Exit, runnerVars
  <2> QED BY <2>1, <2>2, <2>3, QuietKeepsOwners DEF Engaged
<1>3. CASE CreateTurn(r)
  <2>1. turn[r] \in Turns /\ attempt[turn[r]] = 0
    BY <1>3 DEF CreateTurn, TurnInv, Working
  <2>2. \A q \in Runners : pc[q] \in Engaged => turn[q] # turn[r] /\ turn[q] \in Turns
    BY <2>1 DEF OwnInv, Engaged, Working
  <2> QED BY <1>3, <2>1, <2>2 DEF CreateTurn, OwnInv, Engaged, Phase, J!TypeOK, queueVars
<1>4. CASE Reclaim(r)
  <2>1. turn[r] \in Turns
    BY <1>4 DEF Reclaim, Working
  <2>2. CASE UNCHANGED <<journalVars, att>>
    BY <1>4, <2>2, QuietKeepsOwners DEF Reclaim, Engaged, queueVars
  <2>3. CASE turn[r] \in J!Recoverable /\ attempt[turn[r]] = att[r]
    <3>1. \A q \in Runners : pc[q] \in Engaged => turn[q] # turn[r] /\ turn[q] \in Turns
      BY <2>3 DEF OwnInv, Engaged, Working, Phase, J!Recoverable
    <3> QED BY <1>4, <2>1, <2>3, <3>1 DEF Reclaim, J!BeginRetry, OwnInv, Engaged, Phase, J!TypeOK, queueVars
  <2> QED BY <1>4, <2>2, <2>3 DEF Reclaim
<1>5. CASE StartProvider(r)
  <2>1. PICK gone \in SUBSET J!Recoverable : Started(r, gone)
    BY <1>5, StartPrunes
  <2>2. \A q \in Runners : pc[q] \in Engaged => turn[q] \in Turns \ gone
    BY <2>1 DEF OwnInv, Engaged, Working, Phase, J!Recoverable
  <2>3. pc[r] = "start" /\ pc' = [pc EXCEPT ![r] = "provider"] /\ UNCHANGED <<turn, att, existing>>
    BY <1>5 DEF StartProvider, queueVars, runnerVars
  <2> QED BY <2>1, <2>2, <2>3 DEF Started, After, J!CanTransition, J!ForwardSteps, J!InFlight, OwnInv,
          Engaged, Phase, J!TypeOK
<1>6. CASE ProviderFails(r) \/ Finalize(r) \/ Publish(r)
  <2>1. /\ pc[r] \in Engaged /\ turn[r] \in Turns
        /\ UNCHANGED <<turn, att, existing>>
        /\ \E label \in Labels : pc' = [pc EXCEPT ![r] = label]
    BY <1>6 DEF ProviderFails, Finalize, Publish, Engaged, Working, queueVars, runnerVars, Labels
  <2>2. attempt' = attempt /\ \E to \in J!States : state' = [state EXCEPT ![turn[r]] = to]
    BY <1>6, <2>1 DEF ProviderFails, Finalize, Publish, TryTransition, TryTransitions, After, J!TypeOK,
       J!States, J!InFlight, J!Terminal
  <2>3. \A q \in Runners \ {r} : pc[q] \in Engaged => state'[turn[q]] = state[turn[q]]
    BY <2>1, <2>2 DEF OwnInv, Engaged, Working, J!TypeOK
  <2>4. CASE pc'[r] \notin Engaged
    BY <2>1, <2>2, <2>3, <2>4 DEF OwnInv
  <2>5. CASE Finalize(r)
    <3>1. \/ state'[turn[r]] = "finalizing"
          \/ Conversation \notin existing /\ state'[turn[r]] = "absent"
      BY <2>1, <2>5 DEF Finalize, TryTransitions, After, J!CanTransition, J!ForwardSteps, J!InFlight,
         OwnInv, Phase, J!TypeOK
    <3> QED BY <2>1, <2>2, <2>3, <2>5, <3>1 DEF Finalize, OwnInv, Engaged, Phase
  <2> QED BY <1>6, <2>4, <2>5, <2>1 DEF ProviderFails, Publish, Engaged
<1> QED BY <1>1, <1>2, <1>3, <1>4, <1>5, <1>6 DEF Proceed

LEMMA StepKeepsOwners ==
  ASSUME OwnerInv, RunnersTyped', [Next]_vars
  PROVE  OwnInv'
<1> USE PipelineAssumption DEF OwnerInv, TypedInv, RunnersTyped, Goto, queueVars, runnerVars
<1>1. CASE DrainStep \/ StartDrain
  <2>1. UNCHANGED <<journalVars, existing, turn, att>>
    BY <1>1 DEF DrainStep, StartDrain, Bind, DrainLooks, DrainPicks, DrainFindsNothing, DrainGivesUp,
       DrainHandsBack, DrainSends, DrainSettles, DrainEnds, CompleteItem, Q!BindTurn, Q!ActivateNext,
       Q!Complete, Q!Requeue
  <2>2. \/ UNCHANGED pc
        \/ pc[Drain] = "bind" /\ pc' = [pc EXCEPT ![Drain] = "start"]
        \/ \E label \in Labels \ Engaged : pc' = [pc EXCEPT ![Drain] = label]
    BY <1>1 DEF DrainStep, StartDrain, Bind, DrainLooks, DrainPicks, DrainFindsNothing, DrainGivesUp,
       DrainHandsBack, DrainSends, DrainSettles, DrainEnds, Labels, Engaged
  <2> QED BY <2>1, <2>2, QuietKeepsOwners DEF Engaged, Phase, Runners
<1>2. ASSUME Environment PROVE OwnInv'
  <2>1. ASSUME NEW s \in Sends, SendArrives(s) \/ EditQueue(s) PROVE OwnInv'
    BY <2>1, QuietKeepsOwners DEF SendArrives, EditQueue, Q!Cancel, Q!RemoveQueued, Engaged, Runners
  <2>2. ASSUME NEW r \in Retries, RetryArrives(r) PROVE OwnInv'
    BY <2>2, QuietKeepsOwners DEF RetryArrives, Engaged, Runners
  <2>3. ASSUME NEW r \in Runners, Stream(r) PROVE OwnInv'
    <3>1. /\ pc[r] = "provider" /\ turn[r] \in Turns
          /\ UNCHANGED <<pc, turn, att, existing, attempt>>
          /\ state[turn[r]] \in J!InFlight
          /\ state' = [state EXCEPT ![turn[r]] = IF @ = "provider_started" THEN "streaming" ELSE @]
      BY <2>3 DEF Stream, J!Checkpoint, Working
    <3>2. \A q \in Runners \ {r} : pc[q] \in Engaged => turn[q] # turn[r] /\ turn[q] \in Turns
      BY <3>1 DEF OwnInv, Engaged, Working
    <3> QED BY <3>1, <3>2 DEF OwnInv, Engaged, Phase, J!TypeOK
  <2>4. ASSUME NEW t \in Turns, DiscardInterrupted(t) PROVE OwnInv'
    <3>1. \A q \in Runners : pc[q] \in Engaged => turn[q] # t /\ turn[q] \in Turns
      BY <2>4 DEF DiscardInterrupted, J!Discard, J!Recoverable, OwnInv, Engaged, Working, Phase
    <3> QED BY <2>4, <3>1, OthersRowsKeepOwners DEF DiscardInterrupted, J!Discard, J!TypeOK
  <2>5. CASE DeleteRows
    <3>1. Conversation \notin existing' /\ existing' \subseteq existing
      BY <2>5 DEF DeleteRows, Q!DeleteConversation
    <3>2. UNCHANGED <<attempt, pc, turn, att>> /\ \A t \in Turns : state'[t] = "absent"
      BY <2>5 DEF DeleteRows, J!DeleteConversation, J!DropRows
    <3> QED BY <3>1, <3>2, OthersRowsKeepOwners DEF Engaged, Working
  <2>6. CASE Restart
    BY <2>6 DEF Restart, OwnInv, Engaged
  <2>7. CASE Stop \/ Tombstone \/ Pause \/ Resume
    BY <2>7, QuietKeepsOwners DEF Stop, Tombstone, Pause, Resume
  <2> QED BY <1>2, <2>1, <2>2, <2>3, <2>4, <2>5, <2>6, <2>7 DEF Environment
<1>3. CASE UNCHANGED vars
  BY <1>3, QuietKeepsOwners DEF vars
<1> QED BY <1>1, <1>2, <1>3, CallKeepsOwners DEF Next, TaskStep

\* A step that claims no turn: rows may settle or go, prompts may be inserted,
\* and a call that is not a retry keeps its turn or gives it up.
LEMMA NothingClaimedKeepsTurns ==
  ASSUME TurnInv, PromptInv, RunnersTyped', attempt' = attempt,
         \A t \in Turns : state[t] = "absent" => state'[t] = "absent",
         UNCHANGED inserted,
         \A q \in Runners \ Retries :
           /\ turn'[q] # NoTurn =>
                /\ turn'[q] = turn[q] /\ Prompt(q)' = Prompt(q)
                /\ pc'[q] \in Working \cup {"wake", "exit"}
           /\ pc'[q] = "turn" => pc[q] = "turn"
  PROVE  TurnInv'
BY PipelineAssumption DEF TurnInv, RunnersTyped, Working, Runners

LEMMA CallKeepsTurns ==
  ASSUME OwnerInv, RunnersTyped', NEW r \in Runners, Proceed(r)
  PROVE  TurnInv'
<1> USE PipelineAssumption DEF OwnerInv, TypedInv, RunnersTyped, Goto
<1>1. CASE \/ Register(r) \/ FindsBusy(r) \/ AdmissionFails(r) \/ AdmissionUndone(r)
           \/ EnqueueMessage(r) \/ Release(r) \/ AbandonDeleted(r) \/ ParseFails(r) \/ Apply(r)
           \/ CompileFails(r) \/ CommitReply(r) \/ CommitFails(r) \/ WakeOnDrop(r)
  <2>1. UNCHANGED <<journalVars, inserted, turn, item>>
    BY <1>1 DEF Register, FindsBusy, AdmissionFails, AdmissionUndone, EnqueueMessage, Release,
       AbandonDeleted, ParseFails, Apply, CompileFails, CommitReply, CommitFails, WakeOnDrop,
       effectVars, runnerVars
  <2>2. PICK label \in Labels \ {"turn"} :
          /\ pc' = [pc EXCEPT ![r] = label]
          /\ pc[r] \in Working \cup {"wake", "exit"} => label \in Working \cup {"wake", "exit"}
    BY <1>1 DEF Register, FindsBusy, AdmissionFails, AdmissionUndone, EnqueueMessage, Release,
       AbandonDeleted, ParseFails, Apply, CompileFails, CommitReply, CommitFails, WakeOnDrop, Labels,
       Working
  <2>3. \A q \in Runners \ Retries : turn[q] # NoTurn => pc[q] \in Working \cup {"wake", "exit"}
    BY DEF TurnInv
  <2> QED BY <2>1, <2>2, <2>3, NothingClaimedKeepsTurns DEF journalVars, Prompt
<1>2. CASE Admit(r)
  <2>1. CASE r \in Retries
    BY <1>2, <2>1 DEF Admit, TurnInv, Prompt, journalVars
  <2>2. CASE r \notin Retries
    <3> DEFINE t == <<Prompt(r), inserted[Prompt(r)] + 1>>
    <3>1. /\ Prompt(r) \in Sends /\ t \in Turns
          /\ inserted' = [inserted EXCEPT ![Prompt(r)] = @ + 1]
          /\ turn' = [turn EXCEPT ![r] = t] /\ pc' = [pc EXCEPT ![r] = "turn"]
          /\ UNCHANGED <<item, state, attempt>>
      BY <1>2, <2>2, PromptOfRunner DEF Admit, journalVars
    <3>2. inserted \in [Sends -> Nat]
      BY DEF PromptInv
    <3>3. attempt[t] = 0
      <4>1. t[1] = Prompt(r) /\ t[2] = inserted[Prompt(r)] + 1
        OBVIOUS
      <4>2. ~ (t[2] <= inserted[t[1]])
        BY <3>1, <3>2, <4>1
      <4> QED BY <3>1, <4>2 DEF TurnInv
    <3>4. \A u \in Turns : attempt[u] # 0 => u[2] <= inserted'[u[1]]
      <4>1. \A u \in Turns : u[1] \in Sends /\ u[2] \in Nat
        BY DEF Turns
      <4> QED BY <3>1, <3>2, <4>1 DEF TurnInv
    <3>5. t[1] = Prompt(r) /\ \A q \in Runners : Prompt(q)' = Prompt(q)
      BY <3>1 DEF Prompt
    <3>6. t[2] <= inserted'[t[1]]
      BY <3>1, <3>2
    <3>7. \A q \in Runners \ Retries : turn[q] # NoTurn => turn[q][2] <= inserted'[turn[q][1]]
      <4>1. ASSUME NEW q \in Runners \ Retries, turn[q] # NoTurn
            PROVE  turn[q][1] \in Sends /\ turn[q][2] \in Nat /\ turn[q][2] <= inserted[turn[q][1]]
        BY <4>1 DEF TurnInv, Turns
      <4> QED BY <3>1, <3>2, <4>1
    <3> HIDE DEF t
    <3> QED BY <2>2, <3>1, <3>3, <3>4, <3>5, <3>6, <3>7 DEF TurnInv, Working
  <2> QED BY <2>1, <2>2
<1>3. CASE CreateTurn(r)
  <2> DEFINE t == turn[r]
  <2>1. /\ r \notin Retries /\ pc[r] = "turn" /\ t \in Turns /\ attempt[t] = 0
        /\ state' = [state EXCEPT ![t] = "claimed"] /\ attempt' = [attempt EXCEPT ![t] = @ + 1]
        /\ pc' = [pc EXCEPT ![r] = IF r = Drain THEN "bind" ELSE "start"]
        /\ UNCHANGED <<turn, item, inserted>>
    BY <1>3 DEF CreateTurn, TurnInv, Working, effectVars
  <2>2. t # NoTurn /\ t[2] <= inserted[t[1]]
    BY <2>1 DEF TurnInv
  <2>3. \A q \in Runners \ Retries : pc'[q] = "turn" => turn[q] # t
    BY <2>1, <2>2, TurnsDistinct
  <2>4. \A q \in Runners : Prompt(q)' = Prompt(q)
    BY <2>1 DEF Prompt
  <2> HIDE DEF t
  <2>5. \A u \in Turns : u # t => attempt'[u] = attempt[u] /\ state'[u] = state[u]
    BY <2>1 DEF J!TypeOK
  <2>6. attempt'[t] = 1
    BY <2>1 DEF J!TypeOK
  <2> QED BY <2>1, <2>2, <2>3, <2>4, <2>5, <2>6 DEF TurnInv, Working
<1>4. CASE Reclaim(r)
  <2>1. r \in Retries /\ turn[r] \in Turns /\ UNCHANGED <<turn, item, inserted>>
    BY <1>4 DEF Reclaim, Working, effectVars
  <2>2. \A q \in Runners \ Retries : pc'[q] = pc[q] /\ Prompt(q)' = Prompt(q)
    BY <1>4, <2>1 DEF Reclaim, Prompt
  <2>3. CASE UNCHANGED journalVars
    BY <2>1, <2>2, <2>3 DEF TurnInv, journalVars
  <2>4. CASE turn[r] \in J!Recoverable /\ J!BeginRetry(turn[r], att[r])
    <3>1. attempt[turn[r]] # 0
      BY <2>1, <2>4 DEF TurnInv, J!Recoverable
    <3>2. /\ attempt' = [attempt EXCEPT ![turn[r]] = @ + 1]
          /\ state' = [state EXCEPT ![turn[r]] = "claimed"]
      BY <2>4 DEF J!BeginRetry
    <3>3. attempt'[turn[r]] # 0 /\ \A u \in Turns : u # turn[r] =>
            attempt'[u] = attempt[u] /\ state'[u] = state[u]
      BY <2>1, <3>2 DEF J!TypeOK
    <3>4. \A q \in Runners \ Retries : pc[q] = "turn" => turn[q] # turn[r] /\ turn[q] \in Turns
      BY <3>1 DEF TurnInv, Working
    <3> QED BY <2>1, <2>2, <3>1, <3>3, <3>4 DEF TurnInv
  <2> QED BY <1>4, <2>3, <2>4 DEF Reclaim
<1>5. CASE StartProvider(r)
  <2>1. PICK gone \in SUBSET J!Recoverable : Started(r, gone)
    BY <1>5, StartPrunes
  <2>2. pc' = [pc EXCEPT ![r] = "provider"] /\ UNCHANGED <<turn, item, inserted>>
    BY <1>5 DEF StartProvider, effectVars, runnerVars
  <2>3. attempt' = attempt /\ \A t \in Turns : state[t] = "absent" => state'[t] = "absent"
    BY <2>1 DEF Started, After, J!CanTransition, J!ForwardSteps, J!InFlight, J!Recoverable
  <2> QED BY <1>5, <2>2, <2>3, NothingClaimedKeepsTurns DEF TurnInv, Prompt, StartProvider, Working
<1>6. CASE ProviderFails(r) \/ Finalize(r) \/ Publish(r)
  <2>1. PICK label \in {"release", "apply", "wake"} :
          pc' = [pc EXCEPT ![r] = label] /\ UNCHANGED <<turn, item, inserted>>
    BY <1>6 DEF ProviderFails, Finalize, Publish, effectVars, runnerVars
  <2>2. attempt' = attempt /\ \A t \in Turns : state[t] = "absent" => state'[t] = "absent"
    BY <1>6 DEF ProviderFails, Finalize, Publish, TryTransition, TryTransitions, After, J!CanTransition,
       J!ForwardSteps, J!InFlight, J!TypeOK
  <2> QED BY <2>1, <2>2, NothingClaimedKeepsTurns DEF TurnInv, Prompt, Working
<1>7. CASE Exit(r)
  <2>1. \A q \in Runners : Prompt(q)' = Prompt(q)
    BY <1>7 DEF Exit, Prompt
  <2> QED BY <1>7, <2>1, NothingClaimedKeepsTurns DEF Exit, TurnInv, journalVars, effectVars
<1> QED BY <1>1, <1>2, <1>3, <1>4, <1>5, <1>6, <1>7 DEF Proceed

LEMMA StepKeepsTurns ==
  ASSUME OwnerInv, RunnersTyped', [Next]_vars
  PROVE  TurnInv'
<1> USE PipelineAssumption DEF OwnerInv, TypedInv, RunnersTyped, Goto, effectVars, runnerVars
<1>1. \A q \in Runners \ Retries : turn[q] # NoTurn => pc[q] \in Working \cup {"wake", "exit"}
  BY DEF TurnInv
<1>2. CASE DrainStep \/ StartDrain
  <2>1. UNCHANGED <<journalVars, inserted, turn>>
    BY <1>2 DEF DrainStep, StartDrain, Bind, DrainLooks, DrainPicks, DrainFindsNothing, DrainGivesUp,
       DrainHandsBack, DrainSends, DrainSettles, DrainEnds
  <2>2. /\ \A q \in Runners \ {Drain} : pc'[q] = pc[q]
        /\ pc'[Drain] # "turn" \/ pc' = pc
    BY <1>2 DEF DrainStep, StartDrain, Bind, DrainLooks, DrainPicks, DrainFindsNothing, DrainGivesUp,
       DrainHandsBack, DrainSends, DrainSettles, DrainEnds
  <2>3. turn[Drain] # NoTurn => item' = item /\ pc'[Drain] \in Working \cup {"wake", "exit"}
    BY <1>1, <1>2 DEF DrainStep, StartDrain, Bind, DrainLooks, DrainPicks, DrainFindsNothing,
       DrainGivesUp, DrainHandsBack, DrainSends, DrainSettles, DrainEnds, Runners, Working
  <2>4. \A q \in Runners \ Retries : turn[q] # NoTurn => Prompt(q)' = Prompt(q)
    BY <2>3 DEF Prompt
  <2> QED BY <1>1, <2>1, <2>2, <2>3, <2>4, NothingClaimedKeepsTurns DEF journalVars
<1>3. ASSUME Environment PROVE TurnInv'
  <2>1. ASSUME NEW s \in Sends, SendArrives(s) \/ EditQueue(s) PROVE TurnInv'
    <3>1. \A q \in Runners \ Retries : Prompt(q)' = Prompt(q)
      BY <2>1 DEF SendArrives, EditQueue, Prompt
    <3>2. \A q \in Runners : pc'[q] = pc[q] \/ (q = s /\ pc[q] = "idle" /\ pc'[q] = "register")
      <4>1. CASE SendArrives(s)
        BY <4>1 DEF SendArrives, Runners
      <4>2. CASE EditQueue(s)
        BY <4>2 DEF EditQueue
      <4> QED BY <2>1, <4>1, <4>2
    <3>3. UNCHANGED <<journalVars, inserted, turn>>
      BY <2>1 DEF SendArrives, EditQueue
    <3> QED BY <1>1, <3>1, <3>2, <3>3, NothingClaimedKeepsTurns DEF journalVars, Working, Runners
  <2>2. ASSUME NEW r \in Retries, RetryArrives(r) PROVE TurnInv'
    <3>1. \A q \in Runners \ Retries :
            Prompt(q)' = Prompt(q) /\ turn'[q] = turn[q] /\ pc'[q] = pc[q]
      BY <2>2 DEF RetryArrives, Prompt, Runners
    <3> QED BY <1>1, <2>2, <3>1, NothingClaimedKeepsTurns DEF RetryArrives, journalVars
  <2>3. ASSUME NEW r \in Runners, Stream(r) PROVE TurnInv'
    <3>1. UNCHANGED <<pc, turn, item, inserted, attempt>>
      BY <2>3 DEF Stream, J!Checkpoint
    <3>2. \A t \in Turns : state[t] = "absent" => state'[t] = "absent"
      BY <2>3 DEF Stream, J!Checkpoint, J!InFlight, J!TypeOK
    <3> QED BY <1>1, <3>1, <3>2, NothingClaimedKeepsTurns DEF Prompt
  <2>4. ASSUME NEW t \in Turns, DiscardInterrupted(t) PROVE TurnInv'
    <3>1. UNCHANGED <<pc, turn, item, inserted, attempt>>
      BY <2>4 DEF DiscardInterrupted, J!Discard
    <3>2. \A u \in Turns : state[u] = "absent" => state'[u] = "absent"
      BY <2>4 DEF DiscardInterrupted, J!Discard, J!Recoverable, J!TypeOK
    <3> QED BY <1>1, <3>1, <3>2, NothingClaimedKeepsTurns DEF Prompt
  <2>5. CASE DeleteRows
    <3>1. UNCHANGED <<pc, turn, item, inserted, attempt>> /\ \A u \in Turns : state'[u] = "absent"
      BY <2>5 DEF DeleteRows, J!DeleteConversation, J!DropRows
    <3> QED BY <1>1, <3>1, NothingClaimedKeepsTurns DEF Prompt
  <2>6. CASE Restart
    BY <2>6, NothingClaimedKeepsTurns DEF Restart, Recover, J!MarkInterruptedInFlight, J!InFlight
  <2>7. CASE Stop \/ Tombstone \/ Pause \/ Resume
    BY <1>1, <2>7, NothingClaimedKeepsTurns DEF Stop, Tombstone, Pause, Resume, journalVars, Prompt
  <2> QED BY <1>3, <2>1, <2>2, <2>3, <2>4, <2>5, <2>6, <2>7 DEF Environment
<1>4. CASE UNCHANGED vars
  BY <1>1, <1>4, NothingClaimedKeepsTurns DEF vars, journalVars, Prompt
<1> QED BY <1>2, <1>3, <1>4, CallKeepsTurns DEF Next, TaskStep

LEMMA OwnerInit == Init => OwnerInv
<1> SUFFICES ASSUME Init PROVE OwnerInv
  OBVIOUS
<1> USE PipelineAssumption DEF Init, Runners
<1>1. QueueTyped /\ J!TypeOK
  BY NoCheckpointTyped DEF QueueTyped, Q!Init, Q!Statuses, J!Init, J!TypeOK, J!States
<1>2. RunnersTyped
  BY DEF RunnersTyped, Labels, Working, Unburdened
<1>3. MemoryTyped
  <2>1. crashes \in 0..MaxCrashes /\ pauses \in 0..MaxPauses
    OBVIOUS
  <2> QED BY <2>1 DEF MemoryTyped
<1>4. PromptInv
  BY DEF PromptInv, Q!Init, Unburdened
<1>5. TurnInv
  BY DEF TurnInv, J!Init
<1>6. OwnInv
  BY DEF OwnInv, Engaged
<1> QED BY <1>1, <1>2, <1>3, <1>4, <1>5, <1>6 DEF OwnerInv, TypedInv

LEMMA OwnerStep == OwnerInv /\ [Next]_vars => OwnerInv'
<1> SUFFICES ASSUME OwnerInv, [Next]_vars PROVE OwnerInv'
  OBVIOUS
<1>1. TypedInv /\ J!TypeOK /\ RunnersTyped
  BY DEF OwnerInv, TypedInv
<1>2. RunnersTyped'
  BY <1>1, StepKeepsPlaces
<1> QED BY <1>1, <1>2, JournalStepTyped, StepKeepsPrompts, StepKeepsMemory, StepKeepsTurns, StepKeepsOwners
        DEF OwnerInv, TypedInv

\* For every number of messages, retries, crashes and pauses, a prompt enters
\* the conversation at most once per life of the process, whoever sends it.
THEOREM PromptsSentOnce == Spec => []PromptSentOnce
<1>1. OwnerInv => PromptSentOnce
  BY DEF OwnerInv, TypedInv, PromptInv, PromptSentOnce
<1> QED BY <1>1, OwnerInit, OwnerStep, PTL DEF Spec
=============================================================================
