------------------------- MODULE TurnJournalProofs --------------------------
(***************************************************************************)
(* Proofs about TurnJournal for any set of turns and operations and any    *)
(* bounds.  JournalInv is inductive by itself: types, staging owned by the *)
(* row's attempt, and the stamp of the settled rows.                       *)
(***************************************************************************)
EXTENDS TurnJournal, TLAPS

JournalInv == TypeOK /\ StagingOfCurrentAttempt /\ FinalizedIffTerminal

\* The empty checkpoint is a checkpoint of no attempt.
LEMMA NoCheckpointType == NoCheckpoint \in Checkpoints
BY DEF NoCheckpoint, Checkpoints

\* A checkpoint of an issued attempt is not the empty one.
LEMMA CheckpointType ==
  ASSUME NEW a \in Nat, NEW ops \in Seq(Ops), NEW complete \in BOOLEAN
  PROVE  [attempt |-> a, ops |-> ops, complete |-> complete] \in Checkpoints
BY DEF Checkpoints

\* Dropping rows, in compaction or with the conversation, keeps the invariant.
LEMMA DropKeepsInv ==
  ASSUME JournalInv, NEW ts \in SUBSET Turns, DropRows(ts)
  PROVE  JournalInv'
BY NoCheckpointType
DEF JournalInv, TypeOK, StagingOfCurrentAttempt, FinalizedIffTerminal, DropRows,
    States, Terminal, InFlight

\* Every function of the journal preserves the invariant.
LEMMA StepKeepsInv ==
  ASSUME JournalInv, [Next]_journalVars
  PROVE  JournalInv'
<1> USE JournalAssumption, NoCheckpointType
        DEF JournalInv, TypeOK, StagingOfCurrentAttempt, FinalizedIffTerminal,
            States, Terminal, InFlight
<1>1. ASSUME NEW t \in Turns, Create(t) PROVE JournalInv'
  BY <1>1 DEF Create
<1>2. ASSUME NEW t \in Turns, NEW a \in 1..attempt[t], NEW next \in States,
             Transition(t, a, next)
      PROVE  JournalInv'
  BY <1>2 DEF Transition, CanTransition, ForwardSteps
<1>3. ASSUME NEW t \in Turns, NEW a \in 1..attempt[t], NEW n \in 0..MaxOps,
             NEW complete \in BOOLEAN, NEW ops \in [1..n -> Ops],
             Checkpoint(t, a, ops, complete)
      PROVE  JournalInv'
  <2>1. ops \in Seq(Ops) /\ a \in Nat
    OBVIOUS
  <2>2. [attempt |-> a, ops |-> ops, complete |-> complete] \in Checkpoints
    BY <2>1, CheckpointType
  <2>3. TypeOK'
    BY <1>3, <2>2 DEF Checkpoint
  <2>4. StagingOfCurrentAttempt'
    BY <1>3 DEF Checkpoint
  <2>5. FinalizedIffTerminal'
    BY <1>3 DEF Checkpoint
  <2>6. QED
    BY <2>3, <2>4, <2>5
<1>4. ASSUME NEW t \in Turns, NEW a \in 1..attempt[t], BeginRetry(t, a)
      PROVE  JournalInv'
  BY <1>4 DEF BeginRetry
<1>5. ASSUME NEW t \in Turns, NEW a \in 1..attempt[t], Discard(t, a)
      PROVE  JournalInv'
  BY <1>5 DEF Discard
<1>6. ASSUME NEW except \in Turns \cup {NoTurn}, Supersede(except)
      PROVE  JournalInv'
  BY <1>6 DEF Supersede, Recoverable
<1>7. ASSUME NEW except \in Turns \cup {NoTurn}, Prune(except)
      PROVE  JournalInv'
  <2>1. PICK gone \in SUBSET Recoverable :
           /\ state' = [t \in Turns |-> IF t \in gone THEN "failed" ELSE state[t]]
           /\ staged' = [t \in Turns |-> IF t \in gone THEN NoCheckpoint ELSE staged[t]]
           /\ finalized' = [t \in Turns |-> finalized[t] \/ t \in gone]
           /\ attempt' = attempt
    BY <1>7 DEF Prune
  <2>2. gone \subseteq Turns
    BY <2>1 DEF Recoverable
  <2>3. QED
    BY <2>1, <2>2
<1>8. ASSUME NEW ts \in SUBSET Turns, Compact(ts)
      PROVE  JournalInv'
  BY <1>8, DropKeepsInv DEF Compact
<1>9. ASSUME MarkInterruptedInFlight PROVE JournalInv'
  BY <1>9 DEF MarkInterruptedInFlight
<1>10. ASSUME DeleteConversation PROVE JournalInv'
  BY <1>10, DropKeepsInv DEF DeleteConversation
<1>11. CASE UNCHANGED journalVars
  BY <1>11 DEF journalVars
<1>12. QED
  BY <1>1, <1>2, <1>3, <1>4, <1>5, <1>6, <1>7, <1>8, <1>9, <1>10, <1>11 DEF Next

\* The invariant of every reachable journal.
THEOREM JournalInvariant == Spec => []JournalInv
<1>1. Init => JournalInv
  BY NoCheckpointType
  DEF Init, JournalInv, TypeOK, StagingOfCurrentAttempt, FinalizedIffTerminal,
      States, Terminal
<1>2. QED
  BY <1>1, StepKeepsInv, PTL DEF Spec

\* Rows are well formed in every reachable state.
THEOREM JournalTyped == Spec => []TypeOK
BY JournalInvariant, PTL DEF JournalInv

\* Staged operations are always those of the attempt that owns the row: no
\* retry can preview or apply what an earlier attempt streamed.
THEOREM StagingNeverStale == Spec => []StagingOfCurrentAttempt
BY JournalInvariant, PTL DEF JournalInv

\* The stamp compaction goes by is on the settled rows and on no other.
THEOREM SettledRowsStamped == Spec => []FinalizedIffTerminal
BY JournalInvariant, PTL DEF JournalInv

\* A settled or interrupted attempt keeps its outcome until its row goes or a
\* new attempt id is issued; a committed one is never reopened.
THEOREM OutcomesStand == Spec => OutcomeStands
<1>1. JournalInv /\ [Next]_journalVars => [\A t \in Turns : OutcomeKept(t)]_journalVars
  <2> SUFFICES ASSUME JournalInv, Next, NEW u \in Turns PROVE OutcomeKept(u)
    OBVIOUS
  <2> USE JournalAssumption
          DEF JournalInv, TypeOK, OutcomeKept, States, Terminal, InFlight
  <2>1. ASSUME NEW t \in Turns, Create(t) PROVE OutcomeKept(u)
    BY <2>1 DEF Create
  <2>2. ASSUME NEW t \in Turns, NEW a \in 1..attempt[t], NEW next \in States,
               Transition(t, a, next)
        PROVE  OutcomeKept(u)
    BY <2>2 DEF Transition, CanTransition, ForwardSteps
  <2>3. ASSUME NEW t \in Turns, NEW a \in 1..attempt[t], NEW ops, NEW complete,
               Checkpoint(t, a, ops, complete)
        PROVE  OutcomeKept(u)
    BY <2>3 DEF Checkpoint
  <2>4. ASSUME NEW t \in Turns, NEW a \in 1..attempt[t], BeginRetry(t, a)
        PROVE  OutcomeKept(u)
    BY <2>4 DEF BeginRetry
  <2>5. ASSUME NEW t \in Turns, NEW a \in 1..attempt[t], Discard(t, a)
        PROVE  OutcomeKept(u)
    BY <2>5 DEF Discard, Recoverable
  <2>6. ASSUME NEW except \in Turns \cup {NoTurn}, Supersede(except) \/ Prune(except)
        PROVE  OutcomeKept(u)
    BY <2>6 DEF Supersede, Prune, Recoverable
  <2>7. ASSUME NEW ts \in SUBSET Turns, DropRows(ts)
        PROVE  OutcomeKept(u)
    BY <2>7 DEF DropRows
  <2>8. ASSUME MarkInterruptedInFlight PROVE OutcomeKept(u)
    BY <2>8 DEF MarkInterruptedInFlight
  <2>9. QED
    BY <2>1, <2>2, <2>3, <2>4, <2>5, <2>6, <2>7, <2>8
    DEF Next, Compact, DeleteConversation
<1>2. QED
  BY <1>1, JournalInvariant, PTL DEF Spec, OutcomeStands

\* Under one attempt every checkpoint extends the one before, but for one: the
\* completing checkpoint may put other operations in the place of the staged ones.
\* After it, and once the turn is interrupted, the list only goes as a whole.
THEOREM StagingRevisedOnlyByCompletion == Spec => RevisedOnlyByCompletion
<1>1. JournalInv /\ [Next]_journalVars => [\A t \in Turns : StagingStep(t)]_journalVars
  <2> SUFFICES ASSUME JournalInv, Next, NEW u \in Turns,
                      staged[u] # NoCheckpoint, attempt'[u] = attempt[u],
                      staged'[u] # staged[u]
               PROVE  StagingStep(u)
    BY DEF StagingStep
  <2> USE JournalAssumption DEF JournalInv, TypeOK
  <2>1. ASSUME NEW t \in Turns, NEW a \in 1..attempt[t], NEW ops, NEW complete,
               Checkpoint(t, a, ops, complete)
        PROVE  StagingStep(u)
    <3>1. t = u /\ staged'[u] = [attempt |-> a, ops |-> ops, complete |-> complete]
      BY <2>1 DEF Checkpoint
    <3>2. /\ Continues(staged[u], a, ops, complete) /\ state[u] \in InFlight
          /\ staged[u].attempt = a
      BY <2>1, <3>1 DEF Checkpoint, StagingOfCurrentAttempt
    <3>3. QED
      BY <3>1, <3>2 DEF StagingStep, Continues
  <2>2. ASSUME NEW t \in Turns, NEW a \in 1..attempt[t], BeginRetry(t, a)
        PROVE  FALSE
    BY <2>2 DEF BeginRetry
  <2>3. ASSUME NEW t \in Turns, NEW a \in 1..attempt[t], Discard(t, a)
        PROVE  StagingStep(u)
    BY <2>3 DEF Discard, StagingStep
  <2>4. ASSUME NEW except \in Turns \cup {NoTurn}, Prune(except)
        PROVE  StagingStep(u)
    BY <2>4 DEF Prune, StagingStep
  <2>5. ASSUME NEW ts \in SUBSET Turns, DropRows(ts)
        PROVE  StagingStep(u)
    BY <2>5 DEF DropRows, StagingStep
  <2>6. CASE UNCHANGED staged
    BY <2>6
  <2>7. QED
    BY <2>1, <2>2, <2>3, <2>4, <2>5, <2>6
    DEF Next, Compact, DeleteConversation, Create, Transition, Supersede,
        MarkInterruptedInFlight
<1>2. QED
  BY <1>1, JournalInvariant, PTL DEF Spec, RevisedOnlyByCompletion

\* Only the deletion of the whole conversation takes the row of a turn that
\* runs or awaits the user: compaction goes by the stamp, and the stamp is on
\* settled rows only.
THEOREM UnsettledRowsStay == Spec => UnsettledRowsKept
<1> DEFINE RowStays(t) ==
             state[t] \in InFlight \cup {"interrupted_recoverable"} /\ state'[t] = "absent"
             => \A u \in Turns : state'[u] = "absent"
<1>1. JournalInv /\ [Next]_journalVars => [\A t \in Turns : RowStays(t)]_journalVars
  <2> SUFFICES ASSUME JournalInv, Next, NEW u \in Turns PROVE RowStays(u)
    OBVIOUS
  <2> USE JournalAssumption DEF JournalInv, TypeOK, States, Terminal, InFlight
  <2>1. ASSUME NEW t \in Turns, Create(t) PROVE RowStays(u)
    BY <2>1 DEF Create
  <2>2. ASSUME NEW t \in Turns, NEW a \in 1..attempt[t], NEW next \in States,
               Transition(t, a, next)
        PROVE  RowStays(u)
    BY <2>2 DEF Transition, CanTransition, ForwardSteps
  <2>3. ASSUME NEW t \in Turns, NEW a \in 1..attempt[t], NEW ops, NEW complete,
               Checkpoint(t, a, ops, complete)
        PROVE  RowStays(u)
    BY <2>3 DEF Checkpoint
  <2>4. ASSUME NEW t \in Turns, NEW a \in 1..attempt[t],
               BeginRetry(t, a) \/ Discard(t, a)
        PROVE  RowStays(u)
    BY <2>4 DEF BeginRetry, Discard, Recoverable
  <2>5. ASSUME NEW except \in Turns \cup {NoTurn}, Supersede(except) \/ Prune(except)
        PROVE  RowStays(u)
    BY <2>5 DEF Supersede, Prune, Recoverable
  <2>6. ASSUME NEW ts \in SUBSET Compactable, DropRows(ts) PROVE RowStays(u)
    BY <2>6 DEF DropRows, Compactable, FinalizedIffTerminal
  <2>7. ASSUME DeleteConversation PROVE RowStays(u)
    BY <2>7 DEF DeleteConversation, DropRows
  <2>8. ASSUME MarkInterruptedInFlight PROVE RowStays(u)
    BY <2>8 DEF MarkInterruptedInFlight
  <2>9. QED
    BY <2>1, <2>2, <2>3, <2>4, <2>5, <2>6, <2>7, <2>8 DEF Next, Compact
<1>2. JournalInv /\ [Next]_journalVars =>
        [\A t \in Turns :
           state[t] \in InFlight \cup {"interrupted_recoverable"} /\ state'[t] = "absent"
           => \A u \in Turns : state'[u] = "absent"]_journalVars
  BY <1>1
<1>3. QED
  BY <1>2, JournalInvariant, PTL DEF Spec, UnsettledRowsKept
=============================================================================
