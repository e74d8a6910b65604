-------------------------- MODULE AgentQueueProofs --------------------------
(***************************************************************************)
(* Proofs about AgentQueue for any sets of items, conversations and turns, *)
(* any priorities and any bound.  The argument is one inductive invariant: *)
(* types, stamps that lie in the past, one active item per conversation,   *)
(* and first come first served, which needs the first three.               *)
(***************************************************************************)
EXTENDS AgentQueue, FiniteSetTheorems, TLAPS

\* Every row was stamped before the next one will be.
StampsPast == \A i \in Items : status[i] # "unused" => createdAt[i] < clock

ServiceInv == TypeOK /\ StampsPast /\ AtMostOneActive /\ FirstComeFirstServed

\* The rows and stamps keep their types whatever call is made.
THEOREM TypeCorrect == Spec => []TypeOK
<1>1. Init => TypeOK
  BY QueueAssumption DEF Init, TypeOK, Statuses
<1>2. TypeOK /\ [Next]_queueVars => TypeOK'
  <2> SUFFICES ASSUME TypeOK, [Next]_queueVars PROVE TypeOK'
    OBVIOUS
  <2> USE QueueAssumption DEF TypeOK, Statuses
  <2>1. ASSUME NEW i \in Items, Enqueue(i) PROVE TypeOK'
    BY <2>1 DEF Enqueue
  <2>2. ASSUME NEW i \in Items, Requeue(i) PROVE TypeOK'
    BY <2>2 DEF Requeue
  <2>3. ASSUME NEW i \in Items, Cancel(i) PROVE TypeOK'
    BY <2>3 DEF Cancel
  <2>4. ASSUME NEW i \in Items, RemoveQueued(i) PROVE TypeOK'
    BY <2>4 DEF RemoveQueued
  <2>5. ASSUME NEW i \in Items, NEW o \in Ran, Complete(i, o) PROVE TypeOK'
    BY <2>5 DEF Complete, Ran
  <2>6. ASSUME NEW i \in Items, NEW t \in Turns, BindTurn(i, t) PROVE TypeOK'
    BY <2>6 DEF BindTurn
  <2>7. ASSUME NEW c \in Conversations, NEW i \in Items, ActivateNext(c, i)
        PROVE  TypeOK'
    BY <2>7 DEF ActivateNext
  <2>8. ASSUME NEW c \in Conversations, DeleteConversation(c) PROVE TypeOK'
    BY <2>8 DEF DeleteConversation
  <2>9. ASSUME NEW ts \in [Turns -> JournalStates], RecoverStaleActive(ts)
        PROVE  TypeOK'
    BY <2>9 DEF RecoverStaleActive, Recovered
  <2>10. ASSUME NEW ts \in SUBSET Turns, ForgetTurns(ts) PROVE TypeOK'
    BY <2>10 DEF ForgetTurns
  <2>11. CASE UNCHANGED queueVars
    BY <2>11 DEF queueVars
  <2>12. QED
    BY <2>1, <2>2, <2>3, <2>4, <2>5, <2>6, <2>7, <2>8, <2>9, <2>10, <2>11 DEF Next
<1>3. QED
  BY <1>1, <1>2, PTL DEF Spec

\* Shape of every step, as far as the order of service is concerned: an item
\* becomes active only through activate_next, a new row gets the next stamp,
\* and what is settled stays settled.
StepShape ==
  /\ clock' >= clock
  /\ \A i \in Items :
       /\ status[i] # "unused" =>
            status'[i] # "unused" /\ createdAt'[i] = createdAt[i]
       /\ status[i] = "unused" /\ status'[i] # "unused" =>
            status'[i] = "queued" /\ createdAt'[i] = clock /\ clock' = clock + 1
       /\ status[i] \in Settled => status'[i] \in Settled
       /\ status'[i] \in Ran \cup {"active"} =>
            \/ status[i] \in Ran \cup {"active"} /\ (status'[i] = "active" => status[i] = "active")
            \/ ActivateNext(ConversationOf[i], i)

\* Every call of queue.rs makes a step of that shape.
LEMMA EveryStepHasShape ==
  ASSUME TypeOK, [Next]_queueVars
  PROVE  StepShape
<1> USE QueueAssumption DEF TypeOK, Statuses, Settled, Ran, StepShape
<1>1. ASSUME NEW i \in Items, Enqueue(i) PROVE StepShape
  BY <1>1 DEF Enqueue
<1>2. ASSUME NEW i \in Items, Requeue(i) PROVE StepShape
  BY <1>2 DEF Requeue
<1>3. ASSUME NEW i \in Items, Cancel(i) PROVE StepShape
  BY <1>3 DEF Cancel
<1>4. ASSUME NEW i \in Items, RemoveQueued(i) PROVE StepShape
  BY <1>4 DEF RemoveQueued
<1>5. ASSUME NEW i \in Items, NEW o \in Ran, Complete(i, o) PROVE StepShape
  BY <1>5 DEF Complete
<1>6. ASSUME NEW i \in Items, NEW t \in Turns, BindTurn(i, t) PROVE StepShape
  BY <1>6 DEF BindTurn
<1>7. ASSUME NEW c \in Conversations, NEW i \in Items, ActivateNext(c, i)
      PROVE  StepShape
  <2>1. ConversationOf[i] = c
    BY <1>7 DEF ActivateNext, NextUp, InConversation
  <2>2. ASSUME NEW k \in Items, k # i
        PROVE  status'[k] = status[k] /\ createdAt'[k] = createdAt[k]
    BY <1>7, <2>2 DEF ActivateNext
  <2>3. status[i] = "queued" /\ status'[i] = "active" /\ createdAt'[i] = createdAt[i]
    BY <1>7 DEF ActivateNext, NextUp, InConversation
  <2>4. clock' = clock
    BY <1>7 DEF ActivateNext
  <2>5. ActivateNext(ConversationOf[i], i)
    BY <1>7, <2>1
  <2>6. QED
    BY <2>2, <2>3, <2>4, <2>5
<1>8. ASSUME NEW c \in Conversations, DeleteConversation(c) PROVE StepShape
  BY <1>8 DEF DeleteConversation
<1>9. ASSUME NEW ts \in [Turns -> JournalStates], RecoverStaleActive(ts)
      PROVE  StepShape
  BY <1>9 DEF RecoverStaleActive, Recovered
<1>10. ASSUME NEW ts \in SUBSET Turns, ForgetTurns(ts) PROVE StepShape
  BY <1>10 DEF ForgetTurns
<1>11. CASE UNCHANGED queueVars
  BY <1>11 DEF queueVars
<1>12. QED
  BY <1>1, <1>2, <1>3, <1>4, <1>5, <1>6, <1>7, <1>8, <1>9, <1>10, <1>11 DEF Next

\* The strengthening of the two ordering invariants is preserved.
LEMMA ServiceInvariant == Spec => []ServiceInv
<1>1. Init => ServiceInv
  BY QueueAssumption
  DEF Init, ServiceInv, TypeOK, Statuses, StampsPast, AtMostOneActive,
      FirstComeFirstServed, InConversation, Ran
<1>2. ServiceInv /\ TypeOK' /\ [Next]_queueVars => ServiceInv'
  <2> SUFFICES ASSUME ServiceInv, TypeOK', [Next]_queueVars PROVE ServiceInv'
    OBVIOUS
  <2> USE QueueAssumption
  <2>1. StepShape
    BY EveryStepHasShape DEF ServiceInv
  <2>2. StampsPast'
    BY <2>1 DEF ServiceInv, StampsPast, TypeOK, StepShape
  <2>3. AtMostOneActive'
    <3> SUFFICES ASSUME NEW c \in Conversations, NEW i \in Items, NEW j \in Items,
                        ConversationOf[i] = c, ConversationOf[j] = c,
                        status'[i] = "active", status'[j] = "active", i # j
                 PROVE  FALSE
      BY DEF AtMostOneActive, InConversation
    <3>1. status[i] = "active" \/ ActivateNext(c, i)
      BY <2>1 DEF StepShape
    <3>2. status[j] = "active" \/ ActivateNext(c, j)
      BY <2>1 DEF StepShape
    <3>3. CASE ActivateNext(c, i)
      BY <3>2, <3>3 DEF ServiceInv, TypeOK, ActivateNext, NextUp, InConversation
    <3>4. CASE ActivateNext(c, j)
      BY <3>1, <3>4 DEF ServiceInv, TypeOK, ActivateNext, NextUp, InConversation
    <3>5. QED
      BY <3>1, <3>2, <3>3, <3>4 DEF ServiceInv, AtMostOneActive, InConversation
  <2>4. FirstComeFirstServed'
    <3> SUFFICES ASSUME NEW i \in Items, NEW j \in Items,
                        ConversationOf[i] = ConversationOf[j],
                        PriorityOf[i] <= PriorityOf[j],
                        status'[i] # "unused", createdAt'[i] < createdAt'[j],
                        status'[j] \in Ran \cup {"active"}
                 PROVE  status'[i] \in Settled
      BY DEF FirstComeFirstServed
    <3>1. status[j] \in Ran \cup {"active"} \/ ActivateNext(ConversationOf[j], j)
      BY <2>1 DEF StepShape
    <3>2. status[j] # "unused" /\ createdAt'[j] = createdAt[j] /\ createdAt[j] < clock
      BY <2>1, <3>1 DEF StepShape, ServiceInv, StampsPast, Ran, ActivateNext, NextUp,
         InConversation
    <3>3. status[i] # "unused" /\ createdAt'[i] = createdAt[i]
      BY <2>1, <3>2 DEF StepShape, ServiceInv, TypeOK
    <3>4. CASE status[j] \in Ran \cup {"active"}
      BY <2>1, <3>2, <3>3, <3>4 DEF StepShape, ServiceInv, FirstComeFirstServed
    <3>5. CASE ActivateNext(ConversationOf[j], j)
      <4>1. status[i] \notin {"active", "queued"}
        BY <3>2, <3>3, <3>5
        DEF ServiceInv, TypeOK, ActivateNext, NextUp, InConversation, Ahead
      <4>2. QED
        BY <2>1, <3>3, <4>1 DEF StepShape, ServiceInv, TypeOK, Statuses, Settled, Ran
    <3>6. QED
      BY <3>1, <3>4, <3>5
  <2>5. QED
    BY <2>2, <2>3, <2>4 DEF ServiceInv
<1>3. QED
  BY <1>1, <1>2, TypeCorrect, PTL DEF Spec

\* No sequence of calls leaves two active turns in one conversation, whatever
\* the number of items and conversations.
THEOREM OneActiveTurn == Spec => []AtMostOneActive
BY ServiceInvariant, PTL DEF ServiceInv

\* Turns of one priority start in the order they were queued, requeues and
\* crash recoveries included.
THEOREM ServedInOrder == Spec => []FirstComeFirstServed
BY ServiceInvariant, PTL DEF ServiceInv

Live(c) == InConversation(c, {"queued", "active"})

\* Only an INSERT adds to a conversation's live turns, and it adds one.
LEMMA LiveGrowsByEnqueue ==
  ASSUME TypeOK, [Next]_queueVars, NEW c \in Conversations
  PROVE  \/ Live(c)' \subseteq Live(c)
         \/ \E i \in Items : HasRoom(c) /\ Live(c)' = Live(c) \cup {i}
<1> USE QueueAssumption DEF TypeOK, Live, InConversation
<1>1. ASSUME NEW i \in Items, Enqueue(i), ConversationOf[i] = c
      PROVE  HasRoom(c) /\ Live(c)' = Live(c) \cup {i}
  BY <1>1 DEF Enqueue
<1>2. ASSUME NEW i \in Items, Enqueue(i), ConversationOf[i] # c
      PROVE  Live(c)' \subseteq Live(c)
  BY <1>2 DEF Enqueue
<1>3. ASSUME NEW i \in Items,
             \/ Requeue(i) \/ Cancel(i) \/ RemoveQueued(i)
             \/ \E o \in Ran : Complete(i, o)
             \/ \E t \in Turns : BindTurn(i, t)
             \/ \E d \in Conversations : ActivateNext(d, i)
      PROVE  Live(c)' \subseteq Live(c)
  BY <1>3 DEF Requeue, Cancel, RemoveQueued, Complete, BindTurn, ActivateNext, NextUp
<1>4. ASSUME NEW d \in Conversations, DeleteConversation(d)
      PROVE  Live(c)' \subseteq Live(c)
  BY <1>4 DEF DeleteConversation
<1>5. ASSUME NEW ts \in [Turns -> JournalStates], RecoverStaleActive(ts)
      PROVE  Live(c)' \subseteq Live(c)
  BY <1>5 DEF RecoverStaleActive
<1>6. CASE UNCHANGED queueVars \/ \E ts \in SUBSET Turns : ForgetTurns(ts)
  BY <1>6 DEF queueVars, ForgetTurns
<1>7. QED
  BY <1>1, <1>2, <1>3, <1>4, <1>5, <1>6 DEF Next

\* A conversation never holds more live turns than MAX_QUEUED_TURNS.
THEOREM QueueStaysBounded == Spec => []QueueBounded
<1>1. \A c \in Conversations : IsFiniteSet(Live(c))
  BY QueueAssumption, FS_Subset DEF Live, InConversation
<1>2. Init => QueueBounded
  <2> SUFFICES ASSUME Init, NEW c \in Conversations
               PROVE  Cardinality(Live(c)) <= MaxQueuedTurns
    BY DEF QueueBounded, Live
  <2>1. Live(c) = {}
    BY DEF Init, Live, InConversation
  <2>2. QED
    BY <2>1, FS_EmptySet, QueueAssumption
<1>3. TypeOK /\ QueueBounded /\ [Next]_queueVars => QueueBounded'
  <2> SUFFICES ASSUME TypeOK, QueueBounded, [Next]_queueVars, NEW c \in Conversations
               PROVE  Cardinality(Live(c)') <= MaxQueuedTurns
    BY DEF QueueBounded, Live
  <2>1. IsFiniteSet(Live(c)) /\ Cardinality(Live(c)) \in Nat
    BY <1>1, FS_CardinalityType
  <2>2. Cardinality(Live(c)) <= MaxQueuedTurns
    BY DEF QueueBounded, Live
  <2>3. CASE Live(c)' \subseteq Live(c)
    <3>1. Cardinality(Live(c)') <= Cardinality(Live(c)) /\ Cardinality(Live(c)') \in Nat
      BY <2>1, <2>3, FS_Subset, FS_CardinalityType
    <3>2. QED
      BY <2>1, <2>2, <3>1, QueueAssumption
  <2>4. ASSUME NEW i \in Items, HasRoom(c), Live(c)' = Live(c) \cup {i}
        PROVE  Cardinality(Live(c)') <= MaxQueuedTurns
    <3>1. Cardinality(Live(c)) < MaxQueuedTurns
      BY <2>4 DEF HasRoom, Live
    <3>2. Cardinality(Live(c)') \in {Cardinality(Live(c)), Cardinality(Live(c)) + 1}
      BY <2>1, <2>4, FS_AddElement
    <3>3. QED
      BY <2>1, <3>1, <3>2, QueueAssumption
  <2>5. QED
    BY <2>3, <2>4, LiveGrowsByEnqueue
<1>4. QED
  BY <1>2, <1>3, TypeCorrect, PTL DEF Spec
=============================================================================
