---------------------- MODULE TurnPipelineReplyProofs ----------------------
(***************************************************************************)
(* For any number of messages, retries, crashes and pauses: what the       *)
(* conversation holds agrees with what the journal and the queue say of    *)
(* it.  The argument follows each reply from the owner of the turn's row,  *)
(* who commits it once, to the row, then to the queue item.                *)
(***************************************************************************)
EXTENDS TurnPipelineProofs, FiniteSetTheorems

\* The states of a row whose reply is in the conversation.
Answered == {"committed", "published"}

\* A call takes the row of its turn over under a new attempt: create_turn, or
\* the reclaim of a retry.
Claims(r) ==
  /\ pc[r] = "turn" /\ turn[r] \in Turns
  /\ state[turn[r]] = IF r \in Retries THEN "interrupted_recoverable" ELSE "absent"
  /\ state' = [state EXCEPT ![turn[r]] = "claimed"]
  /\ attempt' = [attempt EXCEPT ![turn[r]] = @ + 1]
  /\ att' = [att EXCEPT ![r] = attempt[turn[r]] + 1]
  /\ pc' = [pc EXCEPT ![r] = IF r = Drain THEN "bind" ELSE "start"]
  /\ UNCHANGED <<turn, replies>>

\* Every other step: rows come to say "answered" by their owner's publishing
\* only, and go on saying so.
RowsFollow ==
  /\ attempt' = attempt
  /\ \A t \in Turns : state'[t] \in Answered =>
       state[t] \in Answered \/ \E r \in Runners : Publish(r) /\ turn[r] = t
  /\ \A t \in Turns : state[t] \in Answered =>
       state'[t] \in Answered \/ Conversation \notin existing'

LEMMA UntouchedRowsFollow ==
  ASSUME UNCHANGED <<state, attempt>>
  PROVE  RowsFollow
BY DEF RowsFollow

\* The row of an owned turn is not answered yet.
LEMMA OwnedIsUnanswered ==
  ASSUME OwnerInv, NEW r \in Runners, pc[r] \in Engaged
  PROVE  turn[r] \in Turns /\ state[turn[r]] \notin Answered
BY DEF OwnerInv, TypedInv, RunnersTyped, OwnInv, Engaged, Working, Phase, Answered

\* How the journal moves.
LEMMA RowsStep ==
  ASSUME OwnerInv, [Next]_vars
  PROVE  RowsFollow \/ \E r \in Runners : Claims(r)
<1> DEFINE Goal == RowsFollow \/ \E r \in Runners : Claims(r)
<1> USE PipelineAssumption DEF OwnerInv, TypedInv, RunnersTyped, Goto
<1>1. ASSUME NEW r \in Runners, Proceed(r) PROVE Goal
  <2>1. CASE \/ Register(r) \/ FindsBusy(r) \/ EnqueueMessage(r)
             \/ AdmissionFails(r) \/ Admit(r) \/ AdmissionUndone(r)
             \/ Release(r) \/ AbandonDeleted(r) \/ ParseFails(r) \/ Apply(r) \/ CompileFails(r)
             \/ CommitReply(r) \/ CommitFails(r) \/ WakeOnDrop(r) \/ Exit(r)
    BY <2>1, UntouchedRowsFollow DEF journalVars, Register, FindsBusy, EnqueueMessage, AdmissionFails,
       Admit, AdmissionUndone, Release, AbandonDeleted, ParseFails, Apply, CompileFails, CommitReply,
       CommitFails, WakeOnDrop, Exit
  <2>2. CASE CreateTurn(r)
    BY <2>2 DEF CreateTurn, Claims, Working, effectVars
  <2>3. CASE Reclaim(r)
    <3>1. CASE UNCHANGED journalVars
      BY <3>1, UntouchedRowsFollow DEF journalVars
    <3>2. CASE turn[r] \in J!Recoverable /\ attempt[turn[r]] = att[r]
      BY <2>3, <3>2 DEF Reclaim, J!BeginRetry, J!Recoverable, Claims, Working, effectVars
    <3> QED BY <2>3, <3>1, <3>2 DEF Reclaim
  <2>4. CASE StartProvider(r)
    <3>1. PICK gone \in SUBSET J!Recoverable : Started(r, gone)
      BY <2>4, StartPrunes
    <3>2. turn[r] \in Turns /\ state[turn[r]] \notin Answered
      BY <2>4, OwnedIsUnanswered DEF StartProvider, Engaged
    <3>3. After(state[turn[r]], "provider_started") \notin Answered
      BY <3>2 DEF After, Answered
    <3> QED BY <3>1, <3>2, <3>3 DEF Started, RowsFollow, J!Recoverable, Answered
  <2>5. CASE ProviderFails(r) \/ Finalize(r) \/ Publish(r)
    <3>1. turn[r] \in Turns /\ state[turn[r]] \notin Answered
      BY <2>5, OwnedIsUnanswered DEF ProviderFails, Finalize, Publish, Engaged
    <3>2. attempt' = attempt /\ \A t \in Turns \ {turn[r]} : state'[t] = state[t]
      BY <2>5 DEF ProviderFails, Finalize, Publish, TryTransition, TryTransitions, J!TypeOK
    <3>3. Publish(r) \/ state'[turn[r]] \notin Answered
      BY <2>5, <3>1 DEF ProviderFails, Finalize, TryTransition, TryTransitions, After, Answered, J!TypeOK
    <3> QED BY <3>1, <3>2, <3>3 DEF RowsFollow
  <2> QED BY <1>1, <2>1, <2>2, <2>3, <2>4, <2>5 DEF Proceed
<1>2. CASE DrainStep \/ StartDrain
  BY <1>2, UntouchedRowsFollow DEF journalVars, DrainStep, StartDrain, Bind, DrainLooks, DrainPicks,
     DrainFindsNothing, DrainGivesUp, DrainHandsBack, DrainSends, DrainSettles, DrainEnds
<1>3. CASE Environment
  <2>1. CASE \/ \E s \in Sends : SendArrives(s) \/ EditQueue(s)
             \/ \E r \in Retries : RetryArrives(r)
             \/ Stop \/ Tombstone \/ Pause \/ Resume
    BY <2>1, UntouchedRowsFollow
       DEF journalVars, SendArrives, EditQueue, RetryArrives, Stop, Tombstone, Pause, Resume
  <2>2. ASSUME NEW r \in Runners, Stream(r) PROVE RowsFollow
    BY <2>2 DEF Stream, J!Checkpoint, RowsFollow, Answered, J!TypeOK
  <2>3. ASSUME NEW t \in Turns, DiscardInterrupted(t) PROVE RowsFollow
    BY <2>3 DEF DiscardInterrupted, J!Discard, J!Recoverable, RowsFollow, Answered, J!TypeOK
  <2>4. CASE DeleteRows
    BY <2>4 DEF DeleteRows, J!DeleteConversation, J!DropRows, Q!DeleteConversation, RowsFollow, Answered
  <2>5. CASE Restart
    BY <2>5 DEF Restart, Recover, J!MarkInterruptedInFlight, J!InFlight, RowsFollow, Answered
  <2> QED BY <1>3, <2>1, <2>2, <2>3, <2>4, <2>5 DEF Environment
<1>4. CASE UNCHANGED vars
  BY <1>4, UntouchedRowsFollow DEF vars, journalVars
<1> QED BY <1>1, <1>2, <1>3, <1>4 DEF Next, TaskStep

\* A call moves no other runner.
LEMMA OthersStay ==
  ASSUME RunnersTyped, NEW r \in Runners, Proceed(r)
  PROVE  \A q \in Runners \ {r} : pc'[q] = pc[q] /\ turn'[q] = turn[q] /\ att'[q] = att[q]
<1> USE DEF RunnersTyped, Goto, runnerVars
<1>1. CASE \/ Register(r) \/ FindsBusy(r) \/ EnqueueMessage(r)
           \/ AdmissionFails(r) \/ Admit(r) \/ AdmissionUndone(r) \/ CreateTurn(r)
           \/ Reclaim(r) \/ StartProvider(r) \/ ProviderFails(r) \/ Release(r)
  BY <1>1 DEF Register, FindsBusy, EnqueueMessage, AdmissionFails, Admit, AdmissionUndone, CreateTurn,
     Reclaim, StartProvider, ProviderFails, Release
<1>2. CASE \/ AbandonDeleted(r) \/ ParseFails(r) \/ Finalize(r) \/ Apply(r) \/ CompileFails(r)
           \/ CommitReply(r) \/ CommitFails(r) \/ Publish(r) \/ WakeOnDrop(r) \/ Exit(r)
  BY <1>2 DEF AbandonDeleted, ParseFails, Finalize, Apply, CompileFails, CommitReply, CommitFails,
     Publish, WakeOnDrop, Exit
<1> QED BY <1>1, <1>2 DEF Proceed

\* A runner comes to own a row by claiming it and keeps turn and attempt as long
\* as it does; committing the reply is what brings it to publish.
OwnerFollows(q) ==
  pc'[q] \in Engaged =>
    \/ Claims(q)
    \/ /\ pc[q] \in Engaged
       /\ turn'[q] = turn[q] /\ att'[q] = att[q]
       /\ pc[q] = "publish" => pc'[q] = "publish"
       /\ pc'[q] = "publish" => pc[q] = "publish" \/ CommitReply(q)
       /\ pc'[q] = "bind" => pc[q] = "bind"

\* How the runners move.
LEMMA OwnersStep ==
  ASSUME OwnerInv, [Next]_vars
  PROVE  \A q \in Runners : OwnerFollows(q)
<1> DEFINE Goal == \A q \in Runners : OwnerFollows(q)
<1> USE PipelineAssumption DEF OwnerInv, TypedInv, RunnersTyped, Goto, runnerVars
<1>1. ASSUME NEW r \in Runners, Proceed(r) PROVE Goal
  <2>1. \A q \in Runners \ {r} : pc'[q] = pc[q] /\ turn'[q] = turn[q] /\ att'[q] = att[q]
    BY <1>1, OthersStay
  <2>2. CASE \/ Register(r) \/ FindsBusy(r) \/ EnqueueMessage(r)
             \/ AdmissionFails(r) \/ Admit(r) \/ AdmissionUndone(r)
             \/ ProviderFails(r) \/ Release(r) \/ AbandonDeleted(r) \/ ParseFails(r)
             \/ CompileFails(r) \/ CommitFails(r) \/ Publish(r) \/ WakeOnDrop(r) \/ Exit(r)
    <3>1. pc'[r] \notin Engaged
      BY <2>2 DEF Engaged, Register, FindsBusy, EnqueueMessage, AdmissionFails, Admit, AdmissionUndone,
         ProviderFails, Release, AbandonDeleted, ParseFails, CompileFails, CommitFails, Publish,
         WakeOnDrop, Exit
    <3> QED BY <2>1, <3>1 DEF OwnerFollows
  <2>3. CASE StartProvider(r) \/ Finalize(r) \/ Apply(r) \/ CommitReply(r)
    BY <2>1, <2>3 DEF OwnerFollows, StartProvider, Finalize, Apply, CommitReply, Engaged
  <2>4. CASE CreateTurn(r)
    <3>1. Claims(r)
      BY <2>4 DEF CreateTurn, Claims, Working, effectVars
    <3> QED BY <2>1, <3>1 DEF OwnerFollows
  <2>5. CASE Reclaim(r)
    <3>1. Claims(r) \/ pc'[r] = "exit"
      BY <2>5 DEF Reclaim, J!BeginRetry, J!Recoverable, Claims, Working, effectVars
    <3> QED BY <2>1, <3>1 DEF OwnerFollows, Engaged
  <2> QED BY <1>1, <2>2, <2>3, <2>4, <2>5 DEF Proceed
<1>2. CASE DrainStep \/ StartDrain
  <2>1. UNCHANGED <<turn, att>>
    BY <1>2 DEF DrainStep, StartDrain, Bind, DrainLooks, DrainPicks, DrainFindsNothing, DrainGivesUp,
       DrainHandsBack, DrainSends, DrainSettles, DrainEnds
  <2>2. \/ UNCHANGED pc
        \/ pc[Drain] = "bind" /\ pc' = [pc EXCEPT ![Drain] = "start"]
        \/ \E label \in Labels \ Engaged : pc' = [pc EXCEPT ![Drain] = label]
    BY <1>2 DEF DrainStep, StartDrain, Bind, DrainLooks, DrainPicks, DrainFindsNothing, DrainGivesUp,
       DrainHandsBack, DrainSends, DrainSettles, DrainEnds, Labels, Engaged
  <2> QED BY <2>1, <2>2 DEF OwnerFollows, Engaged, Runners
<1>3. CASE Environment
  <2>1. ASSUME NEW s \in Sends, SendArrives(s) PROVE Goal
    BY <2>1 DEF SendArrives, OwnerFollows, Engaged, Runners
  <2>2. ASSUME NEW r \in Retries, RetryArrives(r) PROVE Goal
    BY <2>2 DEF RetryArrives, OwnerFollows, Engaged, Runners
  <2>3. CASE Restart
    BY <2>3 DEF Restart, OwnerFollows, Engaged
  <2>4. CASE \/ \E s \in Sends : EditQueue(s)
             \/ \E r \in Runners : Stream(r)
             \/ \E t \in Turns : DiscardInterrupted(t)
             \/ Stop \/ Tombstone \/ DeleteRows \/ Pause \/ Resume
    BY <2>4 DEF EditQueue, Stream, DiscardInterrupted, Stop, Tombstone, DeleteRows, Pause, Resume,
       OwnerFollows
  <2> QED BY <1>3, <2>1, <2>2, <2>3, <2>4 DEF Environment
<1>4. CASE UNCHANGED vars
  BY <1>4 DEF vars, OwnerFollows
<1> QED BY <1>1, <1>2, <1>3, <1>4 DEF Next, TaskStep

\* Only the commit of a reply adds one.
LEMMA RepliesStep ==
  ASSUME [Next]_vars
  PROVE  \/ UNCHANGED replies
         \/ \E r \in Runners : CommitReply(r)
<1> USE DEF effectVars
<1>1. ASSUME NEW r \in Runners, Proceed(r), ~ CommitReply(r) PROVE UNCHANGED replies
  BY <1>1 DEF Proceed, Register, FindsBusy, EnqueueMessage, AdmissionFails, Admit, AdmissionUndone,
     CreateTurn, Reclaim, StartProvider, ProviderFails, Release, AbandonDeleted, ParseFails, Finalize,
     Apply, CompileFails, CommitFails, Publish, WakeOnDrop, Exit
<1>2. ASSUME DrainStep \/ StartDrain PROVE UNCHANGED replies
  BY <1>2 DEF DrainStep, StartDrain, Bind, DrainLooks, DrainPicks, DrainFindsNothing, DrainGivesUp,
     DrainHandsBack, DrainSends, DrainSettles, DrainEnds
<1>3. ASSUME Environment PROVE UNCHANGED replies
  BY <1>3 DEF Environment, SendArrives, EditQueue, RetryArrives, Stream, DiscardInterrupted, Stop,
     Tombstone, DeleteRows, Pause, Resume, Restart
<1>4. CASE UNCHANGED vars
  BY <1>4 DEF vars
<1> QED BY <1>1, <1>2, <1>3, <1>4 DEF Next, TaskStep

-----------------------------------------------------------------------------
(* Replies are given by the owner of the row, and rows tell of them. *)

\* A reply names an attempt that was issued; the owner of a row has given its
\* reply when it comes to publish, and not before; an answered row has the reply
\* of its last attempt.
GivenInv ==
  /\ replies \subseteq Turns \X Nat /\ IsFiniteSet(replies)
  /\ \A x \in replies : x[2] # 0 /\ x[2] <= attempt[x[1]]
  /\ \A r \in Runners : pc[r] \in Engaged =>
       (<<turn[r], att[r]>> \in replies <=> pc[r] = "publish")
  /\ CommittedTurnHasReply

LEMMA GivenStep ==
  ASSUME OwnerInv, OwnerInv', GivenInv, [Next]_vars
  PROVE  GivenInv'
<1> USE DEF OwnerInv, TypedInv
<1>1. \A r \in Runners : pc[r] \in Engaged => turn[r] \in Turns /\ att[r] \in Nat
  BY DEF RunnersTyped, Engaged, Working
<1>2. /\ attempt \in [Turns -> Nat] /\ attempt' \in [Turns -> Nat]
      /\ \A t \in Turns : attempt[t] <= attempt'[t]
  BY RowsStep DEF RowsFollow, Claims, J!TypeOK
<1>3. PICK new \in SUBSET {<<turn[r], att[r]>> : r \in {q \in Runners : CommitReply(q)}} :
        replies' = replies \cup new /\ IsFiniteSet(new)
  <2>1. CASE UNCHANGED replies
    BY <2>1, FS_EmptySet
  <2>2. ASSUME NEW r \in Runners, CommitReply(r)
        PROVE  replies' = replies \cup {<<turn[r], att[r]>>} /\ IsFiniteSet({<<turn[r], att[r]>>})
    BY <2>2, FS_Singleton DEF CommitReply
  <2> QED BY <2>1, <2>2, RepliesStep
<1>4. \A r \in Runners : CommitReply(r) => pc[r] = "commit" /\ pc'[r] = "publish" /\ attempt' = attempt
  BY DEF CommitReply, Goto, journalVars, RunnersTyped
<1>5. \A x \in new : \E r \in Runners :
        x = <<turn[r], att[r]>> /\ CommitReply(r) /\ x \in Turns \X Nat /\ x[2] # 0 /\ x[2] <= attempt[x[1]]
  BY <1>1, <1>3, <1>4 DEF OwnInv, Engaged
<1>6. replies' \subseteq Turns \X Nat /\ IsFiniteSet(replies')
  BY <1>3, <1>5, FS_Union DEF GivenInv
<1>7. \A x \in replies' : x[2] # 0 /\ x[2] <= attempt'[x[1]]
  BY <1>2, <1>3, <1>5, <1>6 DEF GivenInv
<1>8. ASSUME NEW q \in Runners, pc'[q] \in Engaged
      PROVE  <<turn'[q], att'[q]>> \in replies' <=> pc'[q] = "publish"
  <2>1. CASE Claims(q)
    <3>1. /\ att'[q] = attempt[turn[q]] + 1 /\ turn'[q] = turn[q] /\ turn[q] \in Turns
          /\ pc'[q] # "publish" /\ replies' = replies
      BY <2>1 DEF Claims, RunnersTyped
    <3>2. ~ (attempt[turn[q]] + 1 <= attempt[turn[q]])
      BY <1>2, <3>1
    <3> QED BY <3>1, <3>2 DEF GivenInv
  <2>2. CASE ~ Claims(q)
    <3>1. /\ pc[q] \in Engaged /\ turn'[q] = turn[q] /\ att'[q] = att[q]
          /\ pc[q] = "publish" => pc'[q] = "publish"
          /\ pc'[q] = "publish" => pc[q] = "publish" \/ CommitReply(q)
      BY <1>8, <2>2, OwnersStep DEF OwnerFollows
    <3>2. <<turn[q], att[q]>> \in replies' <=> <<turn[q], att[q]>> \in replies \/ CommitReply(q)
      <4>1. ASSUME <<turn[q], att[q]>> \in new PROVE CommitReply(q)
        <5>1. PICK r \in Runners : CommitReply(r) /\ <<turn[q], att[q]>> = <<turn[r], att[r]>>
          BY <1>5, <4>1
        <5>2. pc[r] \in Engaged /\ turn[q] = turn[r]
          BY <1>4, <5>1 DEF Engaged
        <5> QED BY <3>1, <5>1, <5>2 DEF OwnInv
      <4>2. CommitReply(q) => <<turn[q], att[q]>> \in replies'
        BY DEF CommitReply
      <4> QED BY <1>3, <4>1, <4>2
    <3> QED BY <1>4, <3>1, <3>2 DEF GivenInv
  <2> QED BY <2>1, <2>2
<1>9. ASSUME NEW t \in Turns, state'[t] \in Answered
      PROVE  <<t, attempt'[t]>> \in replies'
  <2>1. CASE \E r \in Runners : Claims(r)
    BY <1>2, <1>9, <2>1 DEF Claims, Answered, GivenInv, CommittedTurnHasReply, J!TypeOK
  <2>2. CASE RowsFollow
    <3>1. CASE state[t] \in Answered
      BY <1>3, <2>2, <3>1 DEF RowsFollow, Answered, GivenInv, CommittedTurnHasReply
    <3>2. CASE \E r \in Runners : Publish(r) /\ turn[r] = t
      <4>1. PICK r \in Runners : pc[r] = "publish" /\ turn[r] = t
        BY <3>2 DEF Publish
      <4> QED BY <1>3, <2>2, <4>1 DEF RowsFollow, GivenInv, OwnInv, Engaged
    <3> QED BY <1>9, <2>2, <3>1, <3>2 DEF RowsFollow
  <2> QED BY <2>1, <2>2, RowsStep
<1> QED BY <1>6, <1>7, <1>8, <1>9 DEF GivenInv, CommittedTurnHasReply, Answered

LEMMA GivenInit == Init => GivenInv
BY PipelineAssumption, FS_EmptySet
DEF Init, J!Init, GivenInv, CommittedTurnHasReply, Engaged

LEMMA GivenHolds == Spec => [](OwnerInv /\ GivenInv)
BY OwnerInit, OwnerStep, GivenInit, GivenStep, PTL DEF Spec

\* For every number of messages, retries, crashes and pauses: a turn row that says
\* committed or published has the reply of its last attempt in the conversation,
\* although the two are written in separate lock holds and a retry or a discard
\* may run in between.
THEOREM CommittedTurnsHaveReplies == Spec => []CommittedTurnHasReply
<1>1. GivenInv => CommittedTurnHasReply
  BY DEF GivenInv
<1> QED BY <1>1, GivenHolds, PTL

-----------------------------------------------------------------------------
(* The pipeline uses the queue as its abstract specification says. *)

\* What each step does to the queue's table is one of its operations or nothing.
LEMMA QueueStep ==
  ASSUME OwnerInv, [Next]_vars
  PROVE  [Q!Next]_(Q!queueVars)
<1> USE PipelineAssumption DEF queueVars, Q!queueVars
<1>1. ASSUME NEW r \in Runners, Proceed(r) PROVE [Q!Next]_(Q!queueVars)
  <2>1. CASE EnqueueMessage(r)
    <3>1. r \in Sends
      BY <2>1 DEF EnqueueMessage, OwnerInv, TypedInv, RunnersTyped
    <3> QED BY <2>1, <3>1 DEF EnqueueMessage, Q!Next
  <2>2. CASE ~ EnqueueMessage(r)
    BY <1>1, <2>2 DEF Proceed, Register, FindsBusy, AdmissionFails, Admit, AdmissionUndone,
       CreateTurn, Reclaim, StartProvider, ProviderFails, Release, AbandonDeleted, ParseFails, Finalize,
       Apply, CompileFails, CommitReply, CommitFails, Publish, WakeOnDrop, Exit
  <2> QED BY <2>1, <2>2
<1>2. CASE DrainStep
  <2>1. CASE Bind
    <3>1. item \in Sends /\ turn[Drain] \in Turns
      BY <2>1 DEF Bind, OwnerInv, TypedInv, RunnersTyped, Unburdened, Working, Runners
    <3> QED BY <2>1, <3>1 DEF Bind, Q!Next
  <2>2. CASE DrainPicks
    BY <2>2 DEF DrainPicks, Q!Next
  <2>3. CASE DrainGivesUp \/ DrainSettles \/ DrainHandsBack
    <3>1. item \in Sends
      BY <2>3 DEF DrainGivesUp, DrainSettles, DrainHandsBack, OwnerInv, TypedInv, RunnersTyped, Unburdened
    <3>2. \/ \E outcome \in Q!Ran : Q!Complete(item, outcome)
          \/ Q!Requeue(item)
          \/ UNCHANGED queueVars
      BY <2>3 DEF DrainGivesUp, DrainSettles, DrainHandsBack, CompleteItem, Q!Ran
    <3> QED BY <3>1, <3>2 DEF Q!Next
  <2>4. CASE DrainLooks \/ DrainFindsNothing \/ DrainSends \/ DrainEnds
    BY <2>4 DEF DrainLooks, DrainFindsNothing, DrainSends, DrainEnds
  <2> QED BY <1>2, <2>1, <2>2, <2>3, <2>4 DEF DrainStep
<1>3. CASE StartDrain
  BY <1>3 DEF StartDrain
<1>4. CASE Environment
  <2>1. ASSUME NEW s \in Sends, EditQueue(s) PROVE Q!Next
    BY <2>1 DEF EditQueue, Q!Next
  <2>2. CASE DeleteRows
    BY <2>2 DEF DeleteRows, Q!Next
  <2>3. CASE Restart
    <3>1. state' \in [Turns -> Q!JournalStates]
      <4>1. J!TypeOK'
        BY JournalStepTyped DEF OwnerInv, TypedInv
      <4> QED BY <4>1 DEF J!TypeOK, J!States, J!InFlight, J!Terminal, Q!JournalStates
    <3> QED BY <2>3, <3>1 DEF Restart, Recover, Q!Next
  <2>4. CASE \/ \E s \in Sends : SendArrives(s)
             \/ \E r \in Retries : RetryArrives(r)
             \/ \E r \in Runners : Stream(r)
             \/ \E t \in Turns : DiscardInterrupted(t)
             \/ Stop \/ Tombstone \/ Pause \/ Resume
    BY <2>4 DEF SendArrives, RetryArrives, Stream, DiscardInterrupted, Stop, Tombstone, Pause, Resume
  <2> QED BY <1>4, <2>1, <2>2, <2>3, <2>4 DEF Environment
<1>5. CASE UNCHANGED vars
  BY <1>5 DEF vars
<1> QED BY <1>1, <1>2, <1>3, <1>4, <1>5 DEF Next, TaskStep

\* For every number of messages, retries, crashes and pauses: seen from the queue's
\* table, the pipeline only ever makes calls that AgentQueue allows.
THEOREM PipelineImplementsQueue == Spec => Q!Spec
<1>1. Init => Q!Init
  BY DEF Init
<1> QED BY <1>1, QueueStep, OwnerInit, OwnerStep, PTL DEF Spec, Q!Spec

\* The queue's own theorems, for the pipeline's instance of it.
QP == INSTANCE AgentQueueProofs WITH
        Items <- Sends, Conversations <- {Conversation},
        ConversationOf <- [i \in Sends |-> Conversation],
        PriorityOf <- [i \in Sends |-> 100]

LEMMA QueueAssumed == QP!QueueAssumption
<1>1. 100 \in Int
  OBVIOUS
<1>2. QP!IsFiniteSet(Sends) <=> IsFiniteSet(Sends)
  BY DEF IsFiniteSet, QP!IsFiniteSet
<1> QED BY PipelineAssumption, <1>1, <1>2 DEF QP!QueueAssumption

LEMMA SameQueue == Q!Spec => QP!Spec
<1>1. Q!Init => QP!Init
  BY DEF Q!Init, QP!Init
<1>2. Q!Next => QP!Next
  BY Zenon DEF Q!Next, QP!Next, Q!Enqueue, QP!Enqueue, Q!Requeue, QP!Requeue, Q!Cancel, QP!Cancel,
     Q!RemoveQueued, QP!RemoveQueued, Q!Complete, QP!Complete, Q!Ran, QP!Ran, Q!BindTurn, QP!BindTurn,
     Q!ActivateNext, QP!ActivateNext, Q!NextUp, QP!NextUp, Q!InConversation, QP!InConversation,
     Q!Ahead, QP!Ahead, Q!DeleteConversation, QP!DeleteConversation, Q!RecoverStaleActive,
     QP!RecoverStaleActive, Q!JournalStates, QP!JournalStates, Q!Recovered, QP!Recovered,
     Q!ForgetTurns, QP!ForgetTurns, Q!HasRoom, QP!HasRoom, Q!Cardinality, QP!Cardinality
<1>3. [Q!Next]_(Q!queueVars) => [QP!Next]_(QP!queueVars)
  BY <1>2 DEF Q!queueVars, QP!queueVars
<1> QED BY <1>1, <1>3, PTL DEF Q!Spec, QP!Spec

LEMMA QueueTypeHolds == Spec => []Q!TypeOK
<1>1. QP!TypeOK <=> Q!TypeOK
  BY DEF Q!TypeOK, QP!TypeOK, Q!Statuses, QP!Statuses
<1>2. QP!Spec => []QP!TypeOK
  BY QueueAssumed, QP!TypeCorrect
<1> QED BY <1>1, <1>2, SameQueue, PipelineImplementsQueue, PTL

\* The theorems about the queue hold of the running system, in which drains, sends,
\* retries, deletions and restarts race for it: no two queued turns are active at
\* once, the queue stays within its limit, and messages are taken in order.
THEOREM PipelineQueueServes ==
  Spec => [](Q!AtMostOneActive /\ Q!QueueBounded /\ Q!FirstComeFirstServed)
<1>1. QP!AtMostOneActive => Q!AtMostOneActive
  BY DEF Q!AtMostOneActive, QP!AtMostOneActive, Q!InConversation, QP!InConversation
<1>2. QP!QueueBounded => Q!QueueBounded
  BY Zenon DEF Q!QueueBounded, QP!QueueBounded, Q!InConversation, QP!InConversation, Q!Cardinality,
     QP!Cardinality
<1>3. QP!FirstComeFirstServed => Q!FirstComeFirstServed
  BY DEF Q!FirstComeFirstServed, QP!FirstComeFirstServed, Q!Ran, QP!Ran, Q!Settled, QP!Settled
<1>4. QP!Spec => []QP!AtMostOneActive
  BY QueueAssumed, QP!OneActiveTurn
<1>5. QP!Spec => []QP!QueueBounded
  BY QueueAssumed, QP!QueueStaysBounded
<1>6. QP!Spec => []QP!FirstComeFirstServed
  BY QueueAssumed, QP!ServedInOrder
<1> QED BY <1>1, <1>2, <1>3, <1>4, <1>5, <1>6, SameQueue, PipelineImplementsQueue, PTL

-----------------------------------------------------------------------------
(* A queue item says completed when its prompt has been answered. *)

\* Where the drain is between the reply and the settling of its item.
Succeeding == {"publish", "wake", "exit", "settle"}

\* The word of success the drain carries from send_message_inner to
\* queue::complete, and the turn an item is bound to, are about that item.
DoneInv ==
  /\ succeeded => pc[Drain] \in Succeeding /\ \E x \in replies : x[1][1] = item
  /\ \A i \in Sends : boundTurn[i] # NoTurn => boundTurn[i][1] = i
  /\ CompletedMeansReplied

\* Success is only said by committing the reply.
LEMMA SuccessStep ==
  ASSUME OwnerInv, [Next]_vars, succeeded => pc[Drain] \in Succeeding, succeeded'
  PROVE  \/ CommitReply(Drain)
         \/ succeeded /\ item' = item /\ pc'[Drain] \in Succeeding
<1> DEFINE Goal == \/ CommitReply(Drain)
                   \/ succeeded /\ item' = item /\ pc'[Drain] \in Succeeding
<1> USE PipelineAssumption DEF OwnerInv, TypedInv, RunnersTyped, Goto, runnerVars, Succeeding, Runners
<1>1. ASSUME NEW r \in Runners, Proceed(r) PROVE Goal
  <2>1. CASE \/ Register(r) \/ FindsBusy(r) \/ EnqueueMessage(r)
             \/ AdmissionFails(r) \/ Admit(r) \/ AdmissionUndone(r) \/ CreateTurn(r)
             \/ Reclaim(r) \/ StartProvider(r) \/ ProviderFails(r) \/ Release(r)
             \/ AbandonDeleted(r) \/ ParseFails(r) \/ Finalize(r) \/ Apply(r) \/ CompileFails(r)
             \/ CommitFails(r)
    <3>1. /\ pc[r] \notin Succeeding /\ UNCHANGED <<item, succeeded>>
          /\ \E label \in Labels : pc' = [pc EXCEPT ![r] = label]
      BY <2>1 DEF Register, FindsBusy, EnqueueMessage, AdmissionFails, Admit, AdmissionUndone, CreateTurn,
         Reclaim, StartProvider, ProviderFails, Release, AbandonDeleted, ParseFails, Finalize, Apply,
         CompileFails, CommitFails, Labels
    <3> QED BY <3>1
  <2>2. CASE Publish(r) \/ WakeOnDrop(r) \/ Exit(r)
    BY <2>2 DEF Publish, WakeOnDrop, Exit
  <2>3. CASE CommitReply(r)
    BY <2>3 DEF CommitReply
  <2> QED BY <1>1, <2>1, <2>2, <2>3 DEF Proceed
<1>2. CASE DrainStep
  BY <1>2 DEF DrainStep, Bind, DrainLooks, DrainPicks, DrainFindsNothing, DrainGivesUp, DrainHandsBack,
     DrainSends, DrainSettles, DrainEnds
<1>3. CASE StartDrain
  BY <1>3 DEF StartDrain
<1>4. CASE Environment
  <2>1. ASSUME NEW s \in Sends, SendArrives(s) PROVE Goal
    BY <2>1 DEF SendArrives
  <2>2. ASSUME NEW r \in Retries, RetryArrives(r) PROVE Goal
    BY <2>2 DEF RetryArrives
  <2>3. CASE Restart
    BY <2>3 DEF Restart
  <2>4. CASE \/ \E s \in Sends : EditQueue(s)
             \/ \E r \in Runners : Stream(r)
             \/ \E t \in Turns : DiscardInterrupted(t)
             \/ Stop \/ Tombstone \/ DeleteRows \/ Pause \/ Resume
    BY <2>4 DEF EditQueue, Stream, DiscardInterrupted, Stop, Tombstone, DeleteRows, Pause, Resume
  <2> QED BY <1>4, <2>1, <2>2, <2>3, <2>4 DEF Environment
<1>5. CASE UNCHANGED vars
  BY <1>5 DEF vars
<1> QED BY <1>1, <1>2, <1>3, <1>4, <1>5 DEF Next, TaskStep

\* How the status and the binding of queue items move: by the drain's settling
\* and binding, by recovery, and otherwise without completing or binding anything.
LEMMA ItemsStep ==
  ASSUME OwnerInv, Q!TypeOK, [Next]_vars, NEW i \in Sends
  PROVE  /\ boundTurn'[i] \in {boundTurn[i], NoTurn} \/ (Bind /\ i = item /\ boundTurn'[i] = turn[Drain])
         /\ \/ status'[i] # "completed"
            \/ status[i] = "completed"
            \/ DrainSettles /\ succeeded /\ i = item
            \/ /\ Restart
               /\ boundTurn[i] \in Turns /\ state[boundTurn[i]] \in Answered
<1> DEFINE Bound == \/ boundTurn'[i] \in {boundTurn[i], NoTurn}
                    \/ Bind /\ i = item /\ boundTurn'[i] = turn[Drain]
           Status == \/ status'[i] # "completed"
                     \/ status[i] = "completed"
                     \/ DrainSettles /\ succeeded /\ i = item
                     \/ Restart /\ boundTurn[i] \in Turns /\ state[boundTurn[i]] \in Answered
<1> USE PipelineAssumption DEF queueVars
<1>1. CASE UNCHANGED queueVars
  BY <1>1
<1>2. CASE \E r \in Runners : EnqueueMessage(r)
  <2>1. PICK r \in Runners : EnqueueMessage(r)
    BY <1>2
  <2> QED BY <2>1 DEF EnqueueMessage, Q!Enqueue, Q!TypeOK
<1>3. CASE Bind
  BY <1>3 DEF Bind, Q!BindTurn, Q!TypeOK
<1>4. CASE DrainPicks
  BY <1>4 DEF DrainPicks, Q!ActivateNext, Q!TypeOK
<1>5. CASE DrainGivesUp \/ DrainHandsBack
  BY <1>5 DEF DrainGivesUp, DrainHandsBack, CompleteItem, Q!Complete, Q!Requeue, Q!TypeOK
<1>6. CASE DrainSettles
  <2>1. \A j \in Sends : status'[j] = "completed" => status[j] = "completed" \/ (succeeded /\ j = item)
    BY <1>6 DEF DrainSettles, CompleteItem, Q!Complete, Q!TypeOK
  <2>2. boundTurn' = boundTurn
    BY <1>6 DEF DrainSettles, CompleteItem, Q!Complete
  <2> QED BY <1>6, <2>1, <2>2
<1>7. CASE Restart
  <2>1. Bound
    BY <1>7 DEF Restart, Recover, Q!RecoverStaleActive
  <2>2. ASSUME status'[i] = "completed", status[i] # "completed"
        PROVE  boundTurn[i] # NoTurn /\ state'[boundTurn[i]] \in Answered
    BY <1>7, <2>2 DEF Restart, Recover, Q!RecoverStaleActive, Q!Recovered, Answered
  <2>3. \A t \in Turns : state'[t] \in Answered => state[t] \in Answered
    BY <1>7 DEF Restart, Recover, J!MarkInterruptedInFlight, Answered
  <2> QED BY <1>7, <2>1, <2>2, <2>3 DEF Q!TypeOK
<1>8. CASE (\E s \in Sends : EditQueue(s)) \/ DeleteRows
  BY <1>8 DEF EditQueue, DeleteRows, Q!Cancel, Q!RemoveQueued, Q!DeleteConversation, Q!TypeOK
<1>9. \/ UNCHANGED queueVars
      \/ \E r \in Runners : EnqueueMessage(r)
      \/ Bind \/ DrainPicks \/ DrainGivesUp \/ DrainHandsBack \/ DrainSettles
      \/ Restart \/ (\E s \in Sends : EditQueue(s)) \/ DeleteRows
  <2> DEFINE Cases == \/ UNCHANGED queueVars
                      \/ \E r \in Runners : EnqueueMessage(r)
                      \/ Bind \/ DrainPicks \/ DrainGivesUp \/ DrainHandsBack \/ DrainSettles
                      \/ Restart \/ (\E s \in Sends : EditQueue(s)) \/ DeleteRows
  <2>1. ASSUME NEW r \in Runners, Proceed(r) PROVE Cases
    BY <2>1 DEF Proceed, Register, FindsBusy, AdmissionFails, Admit, AdmissionUndone,
       CreateTurn, Reclaim, StartProvider, ProviderFails, Release, AbandonDeleted, ParseFails, Finalize,
       Apply, CompileFails, CommitReply, CommitFails, Publish, WakeOnDrop, Exit
  <2>2. CASE DrainStep \/ StartDrain
    BY <2>2 DEF DrainStep, StartDrain, DrainLooks, DrainFindsNothing, DrainSends, DrainEnds
  <2>3. CASE Environment
    BY <2>3 DEF Environment, SendArrives, RetryArrives, Stream, DiscardInterrupted, Stop, Tombstone,
       Pause, Resume
  <2>4. CASE UNCHANGED vars
    BY <2>4 DEF vars
  <2> QED BY <2>1, <2>2, <2>3, <2>4 DEF Next, TaskStep
<1> QED BY <1>1, <1>2, <1>3, <1>4, <1>5, <1>6, <1>7, <1>8, <1>9

LEMMA DoneStep ==
  ASSUME OwnerInv, Q!TypeOK, GivenInv, DoneInv, [Next]_vars
  PROVE  DoneInv'
<1> USE PipelineAssumption DEF Runners
<1>1. replies \subseteq replies'
  BY RepliesStep DEF CommitReply
<1>2. ASSUME succeeded'
      PROVE  pc'[Drain] \in Succeeding /\ \E x \in replies' : x[1][1] = item'
  <2>1. CASE CommitReply(Drain)
    <3>1. pc'[Drain] = "publish" /\ item' = item /\ <<turn[Drain], att[Drain]>> \in replies'
      BY <2>1 DEF CommitReply, Goto, OwnerInv, TypedInv, RunnersTyped
    <3>2. turn[Drain][1] = item
      BY <2>1 DEF CommitReply, OwnerInv, TypedInv, RunnersTyped, TurnInv, Working, Prompt
    <3> QED BY <3>1, <3>2 DEF Succeeding
  <2>2. CASE succeeded /\ item' = item /\ pc'[Drain] \in Succeeding
    BY <1>1, <2>2 DEF DoneInv
  <2> QED BY <1>2, <2>1, <2>2, SuccessStep DEF DoneInv
<1>3. ASSUME NEW i \in Sends, boundTurn'[i] # NoTurn PROVE boundTurn'[i][1] = i
  <2>1. CASE boundTurn'[i] = boundTurn[i]
    BY <1>3, <2>1 DEF DoneInv
  <2>2. CASE Bind /\ i = item /\ boundTurn'[i] = turn[Drain]
    <3>1. turn[Drain] # NoTurn
      BY <2>2 DEF Bind, OwnerInv, TypedInv, RunnersTyped, Working
    <3> QED BY <2>2, <3>1 DEF OwnerInv, TurnInv, Prompt
  <2> QED BY <1>3, <2>1, <2>2, ItemsStep
<1>4. ASSUME NEW i \in Sends, status'[i] = "completed" PROVE \E x \in replies' : x[1][1] = i
  <2>1. CASE status[i] = "completed" \/ (succeeded /\ i = item)
    BY <1>1, <2>1 DEF DoneInv, CompletedMeansReplied
  <2>2. CASE boundTurn[i] \in Turns /\ state[boundTurn[i]] \in Answered
    <3>1. <<boundTurn[i], attempt[boundTurn[i]]>> \in replies'
      BY <1>1, <2>2 DEF GivenInv, CommittedTurnHasReply, Answered
    <3>2. boundTurn[i][1] = i
      BY <2>2 DEF DoneInv
    <3> QED BY <3>1, <3>2
  <2> QED BY <1>4, <2>1, <2>2, ItemsStep
<1> QED BY <1>2, <1>3, <1>4 DEF DoneInv, CompletedMeansReplied

LEMMA DoneInit == Init => DoneInv
BY DEF Init, Q!Init, DoneInv, CompletedMeansReplied

LEMMA DoneHolds == Spec => [](Q!TypeOK /\ OwnerInv /\ GivenInv /\ DoneInv)
BY QueueTypeHolds, GivenHolds, DoneInit, DoneStep, PTL DEF Spec

\* For every number of messages, retries, crashes and pauses: a queue item that
\* says completed has its reply in the conversation, whether the drain settled it
\* or the restart read the outcome from the journal.
THEOREM CompletedItemsAreReplied == Spec => []CompletedMeansReplied
<1>1. DoneInv => CompletedMeansReplied
  BY DEF DoneInv
<1> QED BY <1>1, DoneHolds, PTL

-----------------------------------------------------------------------------
(* A message is answered once, but for crashes. *)

RepliesTo(t) == {x \in replies : x[1] = t}

\* Each crash may cost one reply more.  A turn that has had its share is settled
\* or about to be, unless the conversation is gone.
CountInv ==
  \A t \in Turns :
    /\ Cardinality(RepliesTo(t)) <= 1 + crashes
    /\ \/ Cardinality(RepliesTo(t)) <= crashes
       \/ state[t] \in Answered
       \/ Conversation \notin existing
       \/ \E r \in Runners : pc[r] = "publish" /\ turn[r] = t

\* Whoever has given a reply goes on to publish the row.
LEMMA PublisherStep ==
  ASSUME OwnerInv, [Next]_vars, NEW r \in Runners, pc[r] = "publish", ~ Restart
  PROVE  \/ pc'[r] = "publish" /\ turn'[r] = turn[r]
         \/ state'[turn[r]] \in Answered
         \/ Conversation \notin existing
<1> DEFINE Goal == \/ pc'[r] = "publish" /\ turn'[r] = turn[r]
                   \/ state'[turn[r]] \in Answered
                   \/ Conversation \notin existing
<1> USE PipelineAssumption DEF OwnerInv, TypedInv, RunnersTyped, Goto, runnerVars, Runners
<1>1. ASSUME NEW q \in Runners, Proceed(q) PROVE Goal
  <2>1. CASE q # r
    BY <1>1, <2>1, OthersStay
  <2>2. CASE q = r
    <3>1. Publish(r)
      BY <1>1, <2>2 DEF Proceed, Register, FindsBusy, EnqueueMessage, AdmissionFails, Admit,
         AdmissionUndone, CreateTurn, Reclaim, StartProvider, ProviderFails, Release, AbandonDeleted,
         ParseFails, Finalize, Apply, CompileFails, CommitReply, CommitFails, WakeOnDrop, Exit
    <3>2. /\ turn[r] \in Turns /\ attempt[turn[r]] = att[r]
          /\ state[turn[r]] = "finalizing" \/ Conversation \notin existing
      BY DEF OwnInv, Engaged, Working, Phase
    <3>3. state[turn[r]] = "finalizing" => state'[turn[r]] = "published"
      BY <3>1, <3>2 DEF Publish, TryTransitions, After, J!CanTransition, J!ForwardSteps, J!TypeOK
    <3> QED BY <3>2, <3>3 DEF Answered
  <2> QED BY <2>1, <2>2
<1>2. CASE DrainStep \/ StartDrain
  BY <1>2 DEF DrainStep, StartDrain, Bind, DrainLooks, DrainPicks, DrainFindsNothing, DrainGivesUp,
     DrainHandsBack, DrainSends, DrainSettles, DrainEnds
<1>3. CASE Environment
  <2>1. ASSUME NEW s \in Sends, SendArrives(s) PROVE Goal
    BY <2>1 DEF SendArrives
  <2>2. ASSUME NEW q \in Retries, RetryArrives(q) PROVE Goal
    BY <2>2 DEF RetryArrives
  <2>3. CASE \/ \E s \in Sends : EditQueue(s)
             \/ \E q \in Runners : Stream(q)
             \/ \E t \in Turns : DiscardInterrupted(t)
             \/ Stop \/ Tombstone \/ DeleteRows \/ Pause \/ Resume
    BY <2>3 DEF EditQueue, Stream, DiscardInterrupted, Stop, Tombstone, DeleteRows, Pause, Resume
  <2> QED BY <1>3, <2>1, <2>2, <2>3 DEF Environment
<1>4. CASE UNCHANGED vars
  BY <1>4 DEF vars
<1> QED BY <1>1, <1>2, <1>3, <1>4 DEF Next, TaskStep

\* Crashes are counted by the restart only, and deleted conversations stay away.
LEMMA CrashesStep ==
  ASSUME OwnerInv, [Next]_vars
  PROVE  /\ Restart \/ crashes' = crashes
         /\ existing' \subseteq existing
<1>1. existing' \subseteq existing
  BY QueueStep DEF Q!Next, Q!queueVars, Q!Enqueue, Q!Requeue, Q!Cancel, Q!RemoveQueued, Q!Complete,
     Q!BindTurn, Q!ActivateNext, Q!DeleteConversation, Q!RecoverStaleActive, Q!ForgetTurns
<1> USE DEF boundVars
<1>2. ASSUME NEW r \in Runners, Proceed(r) PROVE crashes' = crashes
  BY <1>2 DEF Proceed, Register, FindsBusy, EnqueueMessage, AdmissionFails, Admit,
     AdmissionUndone, CreateTurn, Reclaim, StartProvider, ProviderFails, Release, AbandonDeleted,
     ParseFails, Finalize, Apply, CompileFails, CommitReply, CommitFails, Publish, WakeOnDrop, Exit
<1>3. CASE DrainStep \/ StartDrain
  BY <1>1, <1>3 DEF DrainStep, StartDrain, Bind, DrainLooks, DrainPicks, DrainFindsNothing, DrainGivesUp,
     DrainHandsBack, DrainSends, DrainSettles, DrainEnds
<1>4. CASE Environment
  BY <1>1, <1>4 DEF Environment, SendArrives, EditQueue, RetryArrives, Stream, DiscardInterrupted, Stop,
     Tombstone, DeleteRows, Pause, Resume
<1>5. CASE UNCHANGED vars
  BY <1>1, <1>5 DEF vars
<1> QED BY <1>1, <1>2, <1>3, <1>4, <1>5 DEF Next, TaskStep

LEMMA CountStep ==
  ASSUME OwnerInv, GivenInv, CountInv, [Next]_vars
  PROVE  CountInv'
<1> SUFFICES ASSUME NEW t \in Turns
             PROVE  /\ Cardinality(RepliesTo(t)') <= 1 + crashes'
                    /\ \/ Cardinality(RepliesTo(t)') <= crashes'
                       \/ state'[t] \in Answered
                       \/ Conversation \notin existing'
                       \/ \E r \in Runners : pc'[r] = "publish" /\ turn'[r] = t
  BY Zenon DEF CountInv
<1> USE PipelineAssumption
<1>1. crashes \in Nat /\ IsFiniteSet(RepliesTo(t)) /\ Cardinality(RepliesTo(t)) \in Nat
  BY FS_Subset, FS_CardinalityType DEF GivenInv, RepliesTo, OwnerInv, TypedInv, MemoryTyped
<1>2. CASE Restart
  <2>1. crashes' = crashes + 1 /\ RepliesTo(t)' = RepliesTo(t)
    BY <1>2 DEF Restart, effectVars, RepliesTo
  <2> QED BY <1>1, <2>1 DEF CountInv
<1>3. CASE ~ Restart /\ UNCHANGED replies
  <2>1. crashes' = crashes /\ RepliesTo(t)' = RepliesTo(t)
    BY <1>3, CrashesStep DEF RepliesTo
  <2>2. CASE Cardinality(RepliesTo(t)) <= crashes \/ Conversation \notin existing
    BY <2>1, <2>2, CrashesStep DEF CountInv
  <2>3. CASE state[t] \in Answered
    <3>1. state'[t] \in Answered \/ Conversation \notin existing'
      <4>1. ASSUME NEW r \in Runners, Claims(r) PROVE state'[t] = state[t]
        BY <2>3, <4>1 DEF Claims, Answered, OwnerInv, TypedInv, J!TypeOK
      <4> QED BY <2>3, <4>1, RowsStep DEF RowsFollow
    <3> QED BY <2>1, <3>1 DEF CountInv
  <2>4. CASE \E r \in Runners : pc[r] = "publish" /\ turn[r] = t
    BY <1>3, <2>1, <2>4, PublisherStep, CrashesStep DEF CountInv
  <2> QED BY <2>2, <2>3, <2>4 DEF CountInv
<1>4. ASSUME NEW r \in Runners, CommitReply(r), ~ Restart
      PROVE  /\ Cardinality(RepliesTo(t)') <= 1 + crashes'
             /\ \/ Cardinality(RepliesTo(t)') <= crashes'
                \/ state'[t] \in Answered
                \/ Conversation \notin existing'
                \/ \E q \in Runners : pc'[q] = "publish" /\ turn'[q] = t
  <2>1. /\ pc[r] = "commit" /\ pc' = [pc EXCEPT ![r] = "publish"]
        /\ replies' = replies \cup {<<turn[r], att[r]>>}
        /\ UNCHANGED <<turn, state, existing, crashes>> /\ Conversation \in existing
    BY <1>4 DEF CommitReply, Goto, journalVars, queueVars, boundVars, Deleted
  <2>2. \A q \in Runners \ {r} : pc'[q] = pc[q]
    BY <2>1 DEF OwnerInv, TypedInv, RunnersTyped
  <2>3. pc'[r] = "publish"
    BY <2>1 DEF OwnerInv, TypedInv, RunnersTyped
  <2>4. CASE turn[r] # t
    <3>1. RepliesTo(t)' = RepliesTo(t)
      BY <2>1, <2>4 DEF RepliesTo
    <3> QED BY <2>1, <2>2, <3>1 DEF CountInv
  <2>5. CASE turn[r] = t
    <3>1. state[t] \notin Answered
      BY <2>1, <2>5, OwnedIsUnanswered DEF Engaged
    <3>2. ~ \E q \in Runners : pc[q] = "publish" /\ turn[q] = t
      BY <2>1, <2>5 DEF OwnerInv, OwnInv, Engaged
    <3>3. Cardinality(RepliesTo(t)) <= crashes
      BY <2>1, <3>1, <3>2 DEF CountInv
    <3>4. RepliesTo(t)' = RepliesTo(t) \cup {<<turn[r], att[r]>>}
      BY <2>1, <2>5 DEF RepliesTo
    <3>5. Cardinality(RepliesTo(t)') \in {Cardinality(RepliesTo(t)), Cardinality(RepliesTo(t)) + 1}
      <4> DEFINE S == RepliesTo(t)
                 x == <<turn[r], att[r]>>
      <4>1. IsFiniteSet(S) /\ RepliesTo(t)' = S \cup {x}
        BY <1>1, <3>4
      <4> HIDE DEF S, x
      <4>2. Cardinality(S \cup {x}) = IF x \in S THEN Cardinality(S) ELSE Cardinality(S) + 1
        BY <4>1, FS_AddElement
      <4>3. Cardinality(RepliesTo(t)') \in {Cardinality(S), Cardinality(S) + 1}
        BY <4>1, <4>2
      <4> QED BY <4>3 DEF S
    <3> QED BY <1>1, <2>1, <2>3, <2>5, <3>3, <3>5
  <2> QED BY <2>4, <2>5
<1> QED BY <1>2, <1>3, <1>4, RepliesStep

LEMMA CountInit == Init => CountInv
<1> SUFFICES ASSUME Init, NEW t \in Turns PROVE Cardinality(RepliesTo(t)) = 0 /\ crashes = 0
  BY DEF CountInv
<1>1. RepliesTo(t) = {} /\ crashes = 0
  BY DEF Init, RepliesTo
<1> QED BY <1>1, FS_EmptySet

\* For every number of messages, retries, crashes and pauses: a message is answered
\* at most once more than the process died, however often it is retried.
THEOREM OneReplyEach == Spec => []OneReplyPerTurn
<1>1. CountInv => OneReplyPerTurn
  BY DEF CountInv, OneReplyPerTurn, RepliesTo
<1> QED BY <1>1, GivenHolds, CountInit, CountStep, PTL DEF Spec

-----------------------------------------------------------------------------
(* What the drain holds, and what it hands back. *)

\* While the drain has a turn that was claimed and its item is active, the item
\* is bound to that turn, unless binding is the very next thing to do.
HandInv ==
  /\ pc[Drain] = "bind" => att[Drain] = 1
  /\ turn[Drain] \in Turns /\ status[item] = "active" =>
       \/ attempt[turn[Drain]] = 0
       \/ pc[Drain] = "bind"
       \/ boundTurn[item] = turn[Drain]

\* The drain keeps its turn and item until its guard is dropped, and nobody else
\* touches that item's row meanwhile.
LEMMA HoldsStep ==
  ASSUME OwnerInv, Q!TypeOK, [Next]_vars, turn[Drain] # NoTurn, turn'[Drain] # NoTurn
  PROVE  /\ turn'[Drain] = turn[Drain] /\ item' = item
         /\ status'[item] = "active" => status[item] = "active"
         /\ \/ boundTurn' = boundTurn /\ (pc[Drain] = "bind" => pc'[Drain] = "bind")
            \/ Bind
<1> DEFINE Goal == /\ turn'[Drain] = turn[Drain] /\ item' = item
                   /\ status'[item] = "active" => status[item] = "active"
                   /\ \/ boundTurn' = boundTurn /\ (pc[Drain] = "bind" => pc'[Drain] = "bind")
                      \/ Bind
<1> USE PipelineAssumption DEF OwnerInv, TypedInv, RunnersTyped, Goto, queueVars, runnerVars, Runners
<1>1. pc[Drain] \in Working \cup {"wake", "exit"} /\ item \in Sends
  BY DEF TurnInv, Working, Unburdened
<1>2. ASSUME NEW r \in Runners, Proceed(r) PROVE Goal
  <2>1. CASE EnqueueMessage(r)
    BY <1>1, <2>1 DEF EnqueueMessage, Q!Enqueue, Q!TypeOK, Working
  <2>2. CASE Exit(r)
    BY <1>1, <2>2 DEF Exit
  <2>3. CASE Register(r) \/ FindsBusy(r) \/ Admit(r)
    <3>1. r # Drain
      BY <1>1, <2>3 DEF Register, FindsBusy, Admit, Working
    <3> QED BY <2>3, <3>1 DEF Register, FindsBusy, Admit
  <2>4. CASE \/ AdmissionFails(r) \/ AdmissionUndone(r) \/ CreateTurn(r)
             \/ Reclaim(r) \/ StartProvider(r) \/ ProviderFails(r) \/ Release(r)
             \/ AbandonDeleted(r) \/ ParseFails(r) \/ Finalize(r) \/ Apply(r) \/ CompileFails(r)
             \/ CommitReply(r) \/ CommitFails(r) \/ Publish(r) \/ WakeOnDrop(r)
    <3>1. UNCHANGED <<turn, item, status, boundTurn>> /\ pc[r] # "bind"
      BY <2>4 DEF AdmissionFails, AdmissionUndone, CreateTurn, Reclaim, StartProvider, ProviderFails,
         Release, AbandonDeleted, ParseFails, Finalize, Apply, CompileFails, CommitReply, CommitFails,
         Publish, WakeOnDrop
    <3>2. \A q \in Runners \ {r} : pc'[q] = pc[q]
      BY <1>2, OthersStay
    <3> QED BY <3>1, <3>2
  <2> QED BY <1>2, <2>1, <2>2, <2>3, <2>4 DEF Proceed
<1>3. CASE DrainStep
  <2>1. Bind
    BY <1>1, <1>3 DEF DrainStep, DrainLooks, DrainPicks, DrainFindsNothing, DrainGivesUp, DrainHandsBack,
       DrainSends, DrainSettles, DrainEnds, Working
  <2> QED BY <2>1 DEF Bind, Q!BindTurn
<1>4. CASE StartDrain
  BY <1>1, <1>4 DEF StartDrain, Working
<1>5. CASE Environment
  <2>1. ASSUME NEW s \in Sends, SendArrives(s) PROVE Goal
    BY <2>1 DEF SendArrives
  <2>2. ASSUME NEW r \in Retries, RetryArrives(r) PROVE Goal
    BY <2>2 DEF RetryArrives
  <2>3. ASSUME NEW s \in Sends, EditQueue(s) PROVE Goal
    BY <1>1, <2>3 DEF EditQueue, Q!Cancel, Q!RemoveQueued, Q!TypeOK
  <2>4. CASE DeleteRows
    BY <1>1, <2>4 DEF DeleteRows, Q!DeleteConversation
  <2>5. CASE Restart
    BY <2>5 DEF Restart
  <2>6. CASE \/ \E r \in Runners : Stream(r)
             \/ \E t \in Turns : DiscardInterrupted(t)
             \/ Stop \/ Tombstone \/ Pause \/ Resume
    BY <2>6 DEF Stream, DiscardInterrupted, Stop, Tombstone, Pause, Resume
  <2> QED BY <1>5, <2>1, <2>2, <2>3, <2>4, <2>5, <2>6 DEF Environment
<1>6. CASE UNCHANGED vars
  BY <1>6 DEF vars
<1> QED BY <1>2, <1>3, <1>4, <1>5, <1>6 DEF Next, TaskStep

\* The drain gets a turn by admitting its prompt.
LEMMA TakesStep ==
  ASSUME OwnerInv, [Next]_vars, turn[Drain] = NoTurn, turn'[Drain] # NoTurn
  PROVE  pc'[Drain] = "turn"
<1> USE PipelineAssumption DEF OwnerInv, TypedInv, RunnersTyped, Goto, runnerVars, Runners
<1>1. ASSUME NEW r \in Runners, Proceed(r) PROVE pc'[Drain] = "turn"
  <2>1. CASE r # Drain
    BY <1>1, <2>1, OthersStay
  <2>2. CASE r = Drain
    BY <1>1, <2>2 DEF Proceed, Register, FindsBusy, EnqueueMessage, AdmissionFails, Admit, AdmissionUndone,
       CreateTurn, Reclaim, StartProvider, ProviderFails, Release, AbandonDeleted, ParseFails, Finalize,
       Apply, CompileFails, CommitReply, CommitFails, Publish, WakeOnDrop, Exit
  <2> QED BY <2>1, <2>2
<1>2. CASE DrainStep \/ StartDrain
  BY <1>2 DEF DrainStep, StartDrain, Bind, DrainLooks, DrainPicks, DrainFindsNothing, DrainGivesUp,
     DrainHandsBack, DrainSends, DrainSettles, DrainEnds
<1>3. CASE Environment
  BY <1>3 DEF Environment, SendArrives, EditQueue, RetryArrives, Stream, DiscardInterrupted, Stop,
     Tombstone, DeleteRows, Pause, Resume, Restart
<1>4. CASE UNCHANGED vars
  BY <1>4 DEF vars
<1> QED BY <1>1, <1>2, <1>3, <1>4 DEF Next, TaskStep

LEMMA HandStep ==
  ASSUME OwnerInv, OwnerInv', Q!TypeOK, HandInv, [Next]_vars
  PROVE  HandInv'
<1> USE PipelineAssumption DEF OwnerInv, TypedInv, Runners
<1>1. ASSUME pc'[Drain] = "bind" PROVE att'[Drain] = 1
  <2>1. CASE Claims(Drain)
    BY <2>1 DEF Claims, TurnInv, RunnersTyped
  <2>2. CASE pc[Drain] = "bind" /\ att'[Drain] = att[Drain]
    BY <2>2 DEF HandInv
  <2> QED BY <1>1, <2>1, <2>2, OwnersStep DEF OwnerFollows, Engaged
<1>2. ASSUME turn'[Drain] \in Turns, status'[item'] = "active"
      PROVE  \/ attempt'[turn'[Drain]] = 0
             \/ pc'[Drain] = "bind"
             \/ boundTurn'[item'] = turn'[Drain]
  <2>1. CASE turn[Drain] = NoTurn
    BY <1>2, <2>1, TakesStep DEF TurnInv
  <2>2. CASE turn[Drain] # NoTurn
    <3>1. turn'[Drain] = turn[Drain] /\ item' = item /\ status[item] = "active" /\ turn[Drain] \in Turns
      BY <1>2, <2>2, HoldsStep
    <3>2. CASE Bind
      BY <3>1, <3>2 DEF Bind, Q!BindTurn, Q!TypeOK, RunnersTyped, Unburdened
    <3>3. CASE boundTurn' = boundTurn /\ (pc[Drain] = "bind" => pc'[Drain] = "bind")
      <4>1. CASE attempt[turn[Drain]] # 0
        BY <3>1, <3>3, <4>1 DEF HandInv
      <4>2. CASE attempt[turn[Drain]] = 0
        <5>1. ASSUME NEW r \in Runners, Claims(r), turn[r] = turn[Drain] PROVE pc'[Drain] = "bind"
          <6>1. r \notin Retries
            BY <3>1, <4>2, <5>1 DEF Claims, TurnInv
          <6>2. r = Drain
            BY <2>2, <5>1, <6>1, TurnsDistinct
          <6> QED BY <5>1, <6>2 DEF Claims, RunnersTyped
        <5>2. ASSUME NEW r \in Runners, Claims(r), turn[r] # turn[Drain]
              PROVE  attempt'[turn[Drain]] = 0
          BY <3>1, <4>2, <5>2 DEF Claims, J!TypeOK
        <5> QED BY <3>1, <4>2, <5>1, <5>2, RowsStep DEF RowsFollow
      <4> QED BY <4>1, <4>2
    <3> QED BY <1>2, <2>2, <3>2, <3>3, HoldsStep
  <2> QED BY <2>1, <2>2
<1> QED BY <1>1, <1>2 DEF HandInv

LEMMA HandHolds == Spec => [](Q!TypeOK /\ OwnerInv /\ GivenInv /\ HandInv)
<1>1. Init => HandInv
  BY PipelineAssumption DEF Init, HandInv, Runners
<1> QED BY <1>1, QueueTypeHolds, GivenHolds, OwnerStep, HandStep, PTL DEF Spec

\* Who puts an active item back in line.
LEMMA HandBackStep ==
  ASSUME OwnerInv, Q!TypeOK, [Next]_vars, NEW i \in Sends, status[i] = "active", status'[i] = "queued"
  PROVE  \/ DrainHandsBack
         \/ Restart /\ boundTurn[i] = NoTurn
<1> DEFINE Goal == DrainHandsBack \/ (Restart /\ boundTurn[i] = NoTurn)
<1> USE PipelineAssumption DEF queueVars
<1>1. ASSUME NEW r \in Runners, Proceed(r) PROVE Goal
  <2>1. CASE EnqueueMessage(r)
    BY <2>1 DEF EnqueueMessage, Q!Enqueue, Q!TypeOK
  <2>2. CASE ~ EnqueueMessage(r)
    BY <1>1, <2>2 DEF Proceed, Register, FindsBusy, AdmissionFails, Admit, AdmissionUndone,
       CreateTurn, Reclaim, StartProvider, ProviderFails, Release, AbandonDeleted, ParseFails, Finalize,
       Apply, CompileFails, CommitReply, CommitFails, Publish, WakeOnDrop, Exit
  <2> QED BY <2>1, <2>2
<1>2. CASE DrainStep \/ StartDrain
  <2>1. CASE Bind \/ DrainPicks
    BY <2>1 DEF Bind, DrainPicks, Q!BindTurn, Q!ActivateNext, Q!TypeOK
  <2>2. CASE DrainGivesUp \/ DrainSettles
    BY <2>2 DEF DrainGivesUp, DrainSettles, CompleteItem, Q!Complete, Q!TypeOK
  <2>3. CASE ~ (Bind \/ DrainPicks \/ DrainGivesUp \/ DrainSettles)
    BY <1>2, <2>3 DEF DrainStep, StartDrain, DrainLooks, DrainFindsNothing, DrainSends, DrainEnds
  <2> QED BY <2>1, <2>2, <2>3
<1>3. CASE Environment
  <2>1. CASE Restart
    <3>1. status'[i] = Q!Recovered(state', boundTurn[i])
      BY <2>1 DEF Restart, Recover, Q!RecoverStaleActive
    <3>2. boundTurn[i] = NoTurn \/ state'[boundTurn[i]] \in {"created", "claimed"}
      BY <3>1 DEF Q!Recovered
    <3>3. \A t \in Turns : state'[t] \notin {"created", "claimed"}
      BY <2>1 DEF Restart, Recover, J!MarkInterruptedInFlight, J!InFlight
    <3> QED BY <2>1, <3>2, <3>3 DEF Q!TypeOK
  <2>2. CASE (\E s \in Sends : EditQueue(s)) \/ DeleteRows
    BY <2>2 DEF EditQueue, DeleteRows, Q!Cancel, Q!RemoveQueued, Q!DeleteConversation, Q!TypeOK
  <2>3. CASE ~ (Restart \/ (\E s \in Sends : EditQueue(s)) \/ DeleteRows)
    BY <1>3, <2>3 DEF Environment, SendArrives, RetryArrives, Stream, DiscardInterrupted, Stop,
       Tombstone, Pause, Resume
  <2> QED BY <2>1, <2>2, <2>3
<1>4. CASE UNCHANGED vars
  BY <1>4 DEF vars
<1> QED BY <1>1, <1>2, <1>3, <1>4 DEF Next, TaskStep

\* For every number of messages, retries, crashes and pauses: an item that the drain
\* or the restart puts back in line has no reply to the turn it was running, so
\* running it again answers nothing twice.
THEOREM HandedBackHasNoReply == Spec => HandedBackUnanswered
<1>1. ASSUME Q!TypeOK, OwnerInv, GivenInv, HandInv, ActiveItemOwned, [Next]_vars
      PROVE  \A i \in Sends : status[i] = "active" /\ status'[i] = "queued" =>
               ~ \E x \in replies : x[1] = turn[Drain]
  <2> SUFFICES ASSUME NEW i \in Sends, status[i] = "active", status'[i] = "queued",
                      NEW x \in replies, x[1] = turn[Drain]
               PROVE  FALSE
    OBVIOUS
  <2> USE <1>1, PipelineAssumption DEF Runners
  <2>1. turn[Drain] \in Turns /\ x[2] \in Nat /\ x[2] # 0 /\ x[2] <= attempt[turn[Drain]]
    BY DEF GivenInv
  <2>2. CASE DrainHandsBack
    BY <2>1, <2>2 DEF DrainHandsBack, OwnerInv, TurnInv, Working
  <2>3. CASE boundTurn[i] = NoTurn
    <3>1. item = i
      BY DEF ActiveItemOwned
    <3>2. attempt[turn[Drain]] # 0
      BY <2>1
    <3>3. pc[Drain] = "bind"
      BY <2>1, <2>3, <3>1, <3>2 DEF HandInv
    <3>4. att[Drain] = 1 /\ attempt[turn[Drain]] = 1 /\ <<turn[Drain], att[Drain]>> \notin replies
      BY <3>3 DEF HandInv, GivenInv, OwnerInv, OwnInv, Engaged
    <3>5. x[2] = 1
      BY <2>1, <3>4
    <3>6. x = <<turn[Drain], 1>>
      BY <3>5 DEF GivenInv
    <3> QED BY <3>4, <3>6
  <2> QED BY <2>2, <2>3, HandBackStep
<1> QED BY <1>1, HandHolds, ActiveItemNeverOrphaned, PTL DEF Spec, HandedBackUnanswered

-----------------------------------------------------------------------------
(* What does not come back. *)

LEMMA SettledStep ==
  ASSUME OwnerInv, [Next]_vars, NEW t \in Turns, state[t] \in J!Terminal
  PROVE  state'[t] \in J!Terminal \cup {"absent"}
<1> DEFINE Goal == state'[t] \in J!Terminal \cup {"absent"}
<1> USE PipelineAssumption DEF OwnerInv, TypedInv, RunnersTyped, J!TypeOK, J!Terminal
<1>1. ASSUME UNCHANGED state PROVE Goal
  BY <1>1
<1>2. ASSUME NEW r \in Runners, Proceed(r) PROVE Goal
  <2>1. CASE \/ Register(r) \/ FindsBusy(r) \/ EnqueueMessage(r)
             \/ AdmissionFails(r) \/ Admit(r) \/ AdmissionUndone(r)
             \/ Release(r) \/ AbandonDeleted(r) \/ ParseFails(r) \/ Apply(r) \/ CompileFails(r)
             \/ CommitReply(r) \/ CommitFails(r) \/ WakeOnDrop(r) \/ Exit(r)
    BY <1>1, <2>1 DEF journalVars, Register, FindsBusy, EnqueueMessage, AdmissionFails, Admit,
       AdmissionUndone, Release, AbandonDeleted, ParseFails, Apply, CompileFails, CommitReply, CommitFails,
       WakeOnDrop, Exit
  <2>2. CASE CreateTurn(r)
    BY <2>2 DEF CreateTurn
  <2>3. CASE Reclaim(r)
    BY <1>1, <2>3 DEF Reclaim, J!BeginRetry, J!Recoverable, journalVars
  <2>4. CASE StartProvider(r)
    <3>1. PICK gone \in SUBSET J!Recoverable : Started(r, gone)
      BY <2>4, StartPrunes
    <3>2. After(state[t], "provider_started") \in J!Terminal
      BY DEF After, J!CanTransition, J!ForwardSteps, J!InFlight
    <3> QED BY <3>1, <3>2 DEF Started
  <2>5. CASE ProviderFails(r) \/ Finalize(r) \/ Publish(r)
    BY <2>5 DEF ProviderFails, Finalize, Publish, TryTransition, TryTransitions, After, J!CanTransition,
       J!ForwardSteps, J!InFlight
  <2> QED BY <1>2, <2>1, <2>2, <2>3, <2>4, <2>5 DEF Proceed
<1>3. CASE DrainStep \/ StartDrain
  BY <1>1, <1>3 DEF journalVars, DrainStep, StartDrain, Bind, DrainLooks, DrainPicks,
     DrainFindsNothing, DrainGivesUp, DrainHandsBack, DrainSends, DrainSettles, DrainEnds
<1>4. CASE Environment
  <2>1. CASE \/ \E s \in Sends : SendArrives(s) \/ EditQueue(s)
             \/ \E r \in Retries : RetryArrives(r)
             \/ Stop \/ Tombstone \/ Pause \/ Resume
    BY <1>1, <2>1 DEF journalVars, SendArrives, EditQueue, RetryArrives, Stop, Tombstone, Pause, Resume
  <2>2. ASSUME NEW r \in Runners, Stream(r) PROVE Goal
    BY <2>2 DEF Stream, J!Checkpoint
  <2>3. ASSUME NEW u \in Turns, DiscardInterrupted(u) PROVE Goal
    BY <2>3 DEF DiscardInterrupted, J!Discard
  <2>4. CASE DeleteRows
    BY <2>4 DEF DeleteRows, J!DeleteConversation, J!DropRows
  <2>5. CASE Restart
    BY <2>5 DEF Restart, Recover, J!MarkInterruptedInFlight, J!InFlight
  <2> QED BY <1>4, <2>1, <2>2, <2>3, <2>4, <2>5 DEF Environment
<1>5. CASE UNCHANGED vars
  BY <1>1, <1>5 DEF vars, journalVars
<1> QED BY <1>2, <1>3, <1>4, <1>5 DEF Next, TaskStep

\* For every number of messages, retries, crashes and pauses: a turn that was
\* committed, published or given up never runs again, however late a retry the
\* user started on it comes.
THEOREM SettledTurnsStay == Spec => SettledTurnStays
<1>1. ASSUME OwnerInv, [Next]_vars
      PROVE  \A t \in Turns : state[t] \in J!Terminal => state'[t] \in J!Terminal \cup {"absent"}
  BY <1>1, SettledStep
<1> QED BY <1>1, GivenHolds, PTL DEF Spec, SettledTurnStays

\* For every number of messages, retries, crashes and pauses: once the rows of the
\* conversation are gone, no call that is still under way adds a message, a reply
\* or an operation to it.
THEOREM DeletionIsFinal == Spec => DeletionFinal
<1>1. ASSUME [Next]_vars, Conversation \notin existing
      PROVE  UNCHANGED <<replies, applied, inserted>>
  <2> USE <1>1 DEF effectVars
  <2>1. ASSUME NEW r \in Runners, Proceed(r) PROVE UNCHANGED <<replies, applied, inserted>>
    <3>1. CASE Admit(r) \/ CommitReply(r)
      BY <3>1 DEF Admit, CommitReply, Deleted
    <3>2. CASE Apply(r)
      BY <3>2 DEF Apply, Deleted
    <3>3. CASE ~ (Admit(r) \/ CommitReply(r) \/ Apply(r))
      BY <2>1, <3>3 DEF Proceed, Register, FindsBusy, EnqueueMessage, AdmissionFails, AdmissionUndone,
         CreateTurn, Reclaim, StartProvider, ProviderFails, Release, AbandonDeleted, ParseFails,
         Finalize, CompileFails, CommitFails, Publish, WakeOnDrop, Exit
    <3> QED BY <3>1, <3>2, <3>3
  <2>2. CASE DrainStep \/ StartDrain
    BY <2>2 DEF DrainStep, StartDrain, Bind, DrainLooks, DrainPicks, DrainFindsNothing, DrainGivesUp,
       DrainHandsBack, DrainSends, DrainSettles, DrainEnds
  <2>3. CASE Environment
    BY <2>3 DEF Environment, SendArrives, EditQueue, RetryArrives, Stream, DiscardInterrupted, Stop,
       Tombstone, DeleteRows, Pause, Resume, Restart
  <2>4. CASE UNCHANGED vars
    BY <2>4 DEF vars
  <2> QED BY <2>1, <2>2, <2>3, <2>4 DEF Next, TaskStep
<1> QED BY <1>1, PTL DEF Spec, DeletionFinal

\* The types of every variable, the bound on inserted messages included.
THEOREM PipelineTypeCorrect == Spec => []TypeOK
<1>1. ASSUME Q!TypeOK, OwnerInv, GivenInv PROVE TypeOK
  <2> USE <1>1 DEF OwnerInv, TypedInv
  <2>1. inserted \in [Sends -> 0..(MaxCrashes + 1)]
    <3>1. \A p \in Sends : inserted[p] \in 0..(MaxCrashes + 1)
      BY PipelineAssumption DEF PromptInv, MemoryTyped
    <3> QED BY <3>1 DEF PromptInv
  <2> QED BY <2>1 DEF TypeOK, MemoryTyped, RunnersTyped, GivenInv
<1> QED BY <1>1, QueueTypeHolds, GivenHolds, PTL
=============================================================================
