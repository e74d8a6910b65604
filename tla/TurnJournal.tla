---------------------------- MODULE TurnJournal -----------------------------
(***************************************************************************)
(* The turn journal of one conversation: table turn_journal and the        *)
(* functions of runtime_v2/turn_journal.rs that change its rows.  A turn   *)
(* is named by its idempotency key; each try at it holds an attempt id,    *)
(* and every call of a running try carries the attempt id it was given.    *)
(* Each function runs under the database mutex, so each is one action; a   *)
(* call that returns an error changes nothing and is not a step.           *)
(*                                                                         *)
(* Attempt ids are UUIDs, here numbered as they are issued; a row created  *)
(* again after a deletion gets a new one.  The ages that compaction and    *)
(* retention compare are not kept: which of the eligible rows go is left   *)
(* open.                                                                   *)
(***************************************************************************)
EXTENDS Integers, Sequences, FiniteSets

CONSTANTS
  Turns,         \* idempotency keys of one conversation
  NoTurn,        \* "no turn is excepted"
  Ops,           \* progressive operations a provider can stream
  MaxOps,        \* bound: length of a checkpoint (the code bounds its bytes)
  MaxAttempts,   \* bound: attempt ids issued per turn
  MaxKeep        \* recoverable turns a conversation keeps

ASSUME JournalAssumption ==
  /\ NoTurn \notin Turns
  /\ MaxOps \in Nat
  /\ MaxAttempts \in Nat
  /\ MaxKeep \in Nat \ {0}

VARIABLES
  state,      \* state[t]: the state column, "absent" when there is no row
  attempt,    \* attempt[t]: the last attempt id issued for t, 0 before any
  staged,     \* staged[t]: operations_json, the checkpoint of streamed operations
  finalized   \* finalized[t]: finalized_at IS NOT NULL

journalVars == <<state, attempt, staged, finalized>>

InFlight ==
  {"created", "claimed", "reserved", "provider_started", "streaming",
   "typed_terminal", "finalizing"}
Terminal == {"committed", "published", "failed"}
States == {"absent", "interrupted_recoverable"} \cup InFlight \cup Terminal

\* operations_json IS NULL
NoCheckpoint == [attempt |-> 0, ops |-> << >>, complete |-> FALSE]
Checkpoints == [attempt : Nat, ops : Seq(Ops), complete : BOOLEAN]

Recoverable == {t \in Turns : state[t] = "interrupted_recoverable"}

ForwardSteps ==
  {<<"created", "claimed">>, <<"claimed", "reserved">>, <<"claimed", "provider_started">>,
   <<"reserved", "provider_started">>, <<"provider_started", "streaming">>,
   <<"provider_started", "typed_terminal">>, <<"streaming", "typed_terminal">>,
   <<"typed_terminal", "finalizing">>, <<"finalizing", "committed">>,
   <<"committed", "published">>}

\* Mutant: a failed turn may still be committed by a late callback.
CanTransitionAfterFailure(from, to) ==
  \/ <<from, to>> \in ForwardSteps \cup {<<"failed", "committed">>}
  \/ from \in InFlight /\ to \in {"failed", "interrupted_recoverable"}
  \/ from = "interrupted_recoverable" /\ to = "failed"

CanTransition(from, to) ==
  \/ <<from, to>> \in ForwardSteps
  \/ from \in InFlight /\ to \in {"failed", "interrupted_recoverable"}
  \/ from = "interrupted_recoverable" /\ to = "failed"

Init ==
  /\ state = [t \in Turns |-> "absent"]
  /\ attempt = [t \in Turns |-> 0]
  /\ staged = [t \in Turns |-> NoCheckpoint]
  /\ finalized = [t \in Turns |-> FALSE]

-----------------------------------------------------------------------------

\* create_turn inserts; when the key has a row it returns that row unchanged.
Create(t) ==
  /\ state[t] = "absent"
  /\ attempt[t] < MaxAttempts
  /\ state' = [state EXCEPT ![t] = "created"]
  /\ attempt' = [attempt EXCEPT ![t] = @ + 1]
  /\ UNCHANGED <<staged, finalized>>

\* The caller owns attempt a and the row is in a state next may follow.
Transition(t, a, next) ==
  /\ a = attempt[t]
  /\ CanTransition(state[t], next)
  /\ state' = [state EXCEPT ![t] = next]
  /\ finalized' = [finalized EXCEPT ![t] = @ \/ next \in Terminal]
  /\ UNCHANGED <<attempt, staged>>

\* Mutant: the lengths are compared, the common prefix is not.
ContinuesByLength(prior, a, ops, complete) ==
  \/ prior.attempt # a
  \/ /\ ~ prior.complete
     /\ \/ Len(ops) > Len(prior.ops)
        \/ Len(ops) = Len(prior.ops) /\ complete

\* A checkpoint of attempt a the code accepts and writes after prior: it is the
\* first of its attempt, it extends prior, or it marks a list of the same length complete
\* (that case does not compare the operations).
Continues(prior, a, ops, complete) ==
  \/ prior.attempt # a
  \/ /\ ~ prior.complete
     /\ \/ /\ Len(ops) > Len(prior.ops)
           /\ SubSeq(ops, 1, Len(prior.ops)) = prior.ops
        \/ Len(ops) = Len(prior.ops) /\ complete

\* write_progressive_checkpoint: the first one of an attempt also moves the
\* row from provider_started to streaming.
Checkpoint(t, a, ops, complete) ==
  /\ a = attempt[t]
  /\ state[t] \in InFlight
  /\ Len(ops) <= MaxOps
  /\ Continues(staged[t], a, ops, complete)
  /\ staged' = [staged EXCEPT ![t] = [attempt |-> a, ops |-> ops, complete |-> complete]]
  /\ state' = [state EXCEPT ![t] = IF @ = "provider_started" THEN "streaming" ELSE @]
  /\ UNCHANGED <<attempt, finalized>>

\* Mutant: the retry keeps what the attempt before it had staged.
BeginRetryKeepingStaging(t, a) ==
  /\ a = attempt[t]
  /\ state[t] \in {"failed", "interrupted_recoverable"}
  /\ attempt[t] < MaxAttempts
  /\ attempt' = [attempt EXCEPT ![t] = @ + 1]
  /\ state' = [state EXCEPT ![t] = "claimed"]
  /\ finalized' = [finalized EXCEPT ![t] = FALSE]
  /\ UNCHANGED staged

\* begin_retry_attempt: a new attempt id, nothing left of the old attempt.
BeginRetry(t, a) ==
  /\ a = attempt[t]
  /\ state[t] \in {"failed", "interrupted_recoverable"}
  /\ attempt[t] < MaxAttempts
  /\ attempt' = [attempt EXCEPT ![t] = @ + 1]
  /\ state' = [state EXCEPT ![t] = "claimed"]
  /\ staged' = [staged EXCEPT ![t] = NoCheckpoint]
  /\ finalized' = [finalized EXCEPT ![t] = FALSE]

\* discard_recoverable_turn for attempt a; the sequence the review showed, when
\* given, is that of the checkpoint, so it adds no step.
Discard(t, a) ==
  /\ a = attempt[t]
  /\ t \in Recoverable
  /\ state' = [state EXCEPT ![t] = "failed"]
  /\ staged' = [staged EXCEPT ![t] = NoCheckpoint]
  /\ finalized' = [finalized EXCEPT ![t] = TRUE]
  /\ UNCHANGED attempt

\* supersede_conversation_recoverable_turns keeps the staged bytes.
Supersede(except) ==
  LET gone == Recoverable \ {except}
  IN  /\ state' = [t \in Turns |-> IF t \in gone THEN "failed" ELSE state[t]]
      /\ finalized' = [t \in Turns |-> finalized[t] \/ t \in gone]
      /\ UNCHANGED <<attempt, staged>>

\* The rows prune_recoverable_turns_over_cap keeps: any MaxKeep of them, plus
\* the excepted one when it comes after those in the order by age.
Kept(except) ==
  {keep \in SUBSET Recoverable :
    /\ except \in Recoverable => except \in keep
    /\ \/ Cardinality(keep) = MaxKeep
       \/ Cardinality(keep) = MaxKeep + 1 /\ except \in keep
       \/ Cardinality(keep) < MaxKeep /\ keep = Recoverable}

Prune(except) ==
  \E keep \in Kept(except) :
    LET gone == Recoverable \ keep
    IN  /\ state' = [t \in Turns |-> IF t \in gone THEN "failed" ELSE state[t]]
        /\ staged' = [t \in Turns |-> IF t \in gone THEN NoCheckpoint ELSE staged[t]]
        /\ finalized' = [t \in Turns |-> finalized[t] \/ t \in gone]
        /\ UNCHANGED attempt

\* Mutant: a state name the column's readers cannot parse.
MarkInterruptedMisnamed ==
  /\ state' = [t \in Turns |-> IF state[t] \in InFlight THEN "interrupted" ELSE state[t]]
  /\ UNCHANGED <<attempt, staged, finalized>>

\* Startup: what was in flight when the process died awaits a decision.
MarkInterruptedInFlight ==
  /\ state' = [t \in Turns |-> IF state[t] \in InFlight
                               THEN "interrupted_recoverable" ELSE state[t]]
  /\ UNCHANGED <<attempt, staged, finalized>>

DropRows(ts) ==
  /\ state' = [t \in Turns |-> IF t \in ts THEN "absent" ELSE state[t]]
  /\ staged' = [t \in Turns |-> IF t \in ts THEN NoCheckpoint ELSE staged[t]]
  /\ finalized' = [t \in Turns |-> finalized[t] /\ t \notin ts]
  /\ UNCHANGED attempt

\* Mutant: compaction goes by the state alone and takes recoverable rows too.
CompactableByAge == {t \in Turns : state[t] \in Terminal \cup {"interrupted_recoverable"}}

\* Rows old enough for compact_turn_journal to take, whatever the retention.
Compactable == {t \in Turns : state[t] \in Terminal /\ finalized[t]}

Compact(ts) == ts \subseteq Compactable /\ DropRows(ts)

\* The conversation's rows go with it (delete_conversation).
DeleteConversation == DropRows(Turns)

Next ==
  \/ \E t \in Turns :
       \/ Create(t)
       \/ \E a \in 1..attempt[t] :
            \/ \E next \in States : Transition(t, a, next)
            \/ \E n \in 0..MaxOps, complete \in BOOLEAN :
                 \E ops \in [1..n -> Ops] : Checkpoint(t, a, ops, complete)
            \/ BeginRetry(t, a)
            \/ Discard(t, a)
  \/ \E except \in Turns \cup {NoTurn} : Supersede(except) \/ Prune(except)
  \/ \E ts \in SUBSET Turns : Compact(ts)
  \/ MarkInterruptedInFlight
  \/ DeleteConversation

Spec == Init /\ [][Next]_journalVars

-----------------------------------------------------------------------------

\* Rows keep their types whatever is called in whatever order.
TypeOK ==
  /\ state \in [Turns -> States]
  /\ attempt \in [Turns -> Nat]
  /\ staged \in [Turns -> Checkpoints]
  /\ finalized \in [Turns -> BOOLEAN]

\* What is staged was streamed by the attempt that owns the row: a retry can
\* never preview or apply operations of an earlier one, however retries,
\* discards, retention and restarts interleave (turn_journal.rs:868).
StagingOfCurrentAttempt ==
  \A t \in Turns : staged[t] # NoCheckpoint =>
    state[t] # "absent" /\ staged[t].attempt = attempt[t]

\* finalized_at is set on the settled rows and on no other: compaction, which
\* asks for it, can take every settled row in time, and a row that is running
\* again after a failure does not carry the stamp of that failure.
FinalizedIffTerminal ==
  \A t \in Turns : finalized[t] <=> state[t] \in Terminal

\* A row whose turn is not settled disappears only with its whole conversation
\* (turn_journal.rs:954, "NEVER deleted"): compaction cannot take a turn that
\* runs or awaits the user's decision.
UnsettledRowsKept ==
  [][\A t \in Turns :
       state[t] \in InFlight \cup {"interrupted_recoverable"} /\ state'[t] = "absent"
       => \A u \in Turns : state'[u] = "absent"]_journalVars

\* What a step may do to the staging of t under an unchanged attempt.
StagingStep(t) ==
  LET old == staged[t]
      new == staged'[t]
      givenUp == new = NoCheckpoint /\ state'[t] \in {"failed", "absent"}
      extended == /\ Len(new.ops) > Len(old.ops)
                  /\ SubSeq(new.ops, 1, Len(old.ops)) = old.ops
      completed == Len(new.ops) = Len(old.ops) /\ new.complete
  IN  old # NoCheckpoint /\ attempt'[t] = attempt[t] /\ new # old =>
        \/ givenUp
        \/ /\ ~ old.complete
           /\ state[t] \in InFlight
           /\ extended \/ completed

\* What an attempt has staged is revised once at most, by the checkpoint that
\* completes it: until then each list has the one before as its prefix.  The
\* completing checkpoint may be a list of the same length with other operations,
\* which the code does not compare (turn_journal.rs:261-274), although it says of
\* all checkpoints "append-only prefix continuity for the same attempt" (232).
\* Nothing touches a complete or an interrupted list, except that it is given up
\* whole when the turn fails or its row goes (turn_journal.rs:219-231).
RevisedOnlyByCompletion == [][\A t \in Turns : StagingStep(t)]_journalVars

\* What a step may do to a settled or interrupted row t.
OutcomeKept(t) ==
  /\ state[t] \in Terminal \cup {"interrupted_recoverable"} =>
       \/ state'[t] \in {state[t], "absent"}
       \/ state[t] = "committed" /\ state'[t] = "published"
       \/ state[t] = "interrupted_recoverable" /\ state'[t] = "failed"
       \/ state'[t] = "claimed" /\ attempt'[t] > attempt[t]
  /\ state[t] \in {"committed", "published"} => attempt'[t] = attempt[t]

\* The outcome of an attempt stands: a settled row is only reopened under a new
\* attempt id, and one that committed is never reopened, so a delayed callback
\* can neither revive nor overturn it (turn_journal.rs:786).
OutcomeStands == [][\A t \in Turns : OutcomeKept(t)]_journalVars
=============================================================================
