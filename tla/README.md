# Coreside: a formal model of turns, changes, events and automations

Coreside is a desktop application (Tauri, Rust) in which a user talks to AI
providers and the answers can change documents ("surfaces"), data and
automations. This directory holds TLA+ models of its core, the TLC
configurations that check them and the proofs TLAPS checks. Paths below are
relative to `src-tauri/src/` unless they start with `docs/` or `migrations/`.

What is here now: the life of a chat turn, from `send_message` to the published
row; the way of a change from a scheduled patch over the kernel's consent to the
committed transaction and its undo; the way of an event from the commit over the
outbox to its subscribers; and the automation scheduler. The last section lists
what comes next.

| module | models | checked by | proofs |
|---|---|---|---|
| `AgentQueue` | table `agent_request_queue`, `runtime_v2/queue.rs` | `MCAgentQueue` | `AgentQueueProofs` |
| `TurnJournal` | table `turn_journal`, `runtime_v2/turn_journal.rs` | `MCTurnJournal` | `TurnJournalProofs` |
| `SurfaceTransactions` | surfaces, versions, transactions and their undo: `runtime_v2/transactions.rs`, `surfaces.rs` | through `PatchScheduler` | in `PatchSchedulerProofs` |
| `ChangeKernel` | `apply_change`, `decide_proposal` and proposals: `application_kernel/mod.rs`; extends the one above | through `PatchScheduler` | in `PatchSchedulerProofs` |
| `ChangeLedger` | nothing of its own: what the kernel promises the user, abstractly | implemented by `PatchScheduler` | in `PatchSchedulerProofs` |
| `PatchScheduler` | `runtime_v2/patch_scheduler.rs`, the mounts of `mount_registry.rs`; extends `ChangeKernel` | `MCPatchScheduler` | `PatchSchedulerProofs` |
| `EventOutbox` | `runtime_v2/outbox.rs`, the bus and deliveries of `events.rs` | `MCEventOutbox` | `EventOutboxProofs` |
| `AutomationScheduler` | `automations/scheduler.rs`, the commands that change an automation, start-up, and the stages of a restore (`commands/data_cmds.rs`, `maintenance_journal.rs`) | `MCAutomationScheduler` | `AutomationSchedulerProofs` |
| `TurnPipeline` | `send_message_inner`, the drain task, retry, stop, delete, maintenance, startup; composes `AgentQueue` and `TurnJournal` by `INSTANCE` | `MCTurnPipeline` (seven configurations) | `TurnPipelineProofs` (slot, active item, prompts, ownership of rows), `TurnPipelineReplyProofs` (replies, deletion, the queue implemented) |
| `FoldLemmas` | nothing of its own: induction and `FoldLeft` for the proofs | | itself |

To run: `tlc -config MCTurnPipelineRetry.cfg MCTurnPipeline.tla`,
`tlapm TurnPipelineProofs.tla`.

## 1. The system

One process. Commands from the windows run as asynchronous tasks; all share
`AppState` (`state.rs`): the SQLite database behind one mutex, the
active-request map, the deletion tombstones, the drain's in-flight set, the
event bus, the mount registry, the maintenance mode and the quiescence gate. No
lock is held across an `await`, so between two holds of the database mutex any
other command can run. That is where the hard behaviour is.

| component | state it keeps | operations | talks to | what is hard | what makes it correct |
|---|---|---|---|---|---|
| Agent request queue (`runtime_v2/queue.rs`) | rows queued / active / completed / failed / cancelled, with priority, stamp and bound turn | enqueue, activate_next, bind, requeue, complete, cancel, remove, recover_stale_active | journal (recovery reads it) | two drains, a bound counted then used, crash with an active row | one active row, bounded, first come first served |
| Turn journal (`runtime_v2/turn_journal.rs`) | one row per turn: state, attempt id, staged operations, terminal stamp | create, transition, checkpoint, retry, discard, supersede, prune, compact, mark interrupted | pipeline, preview, recovery UI | callbacks of replaced attempts, retention while turns run | an attempt's outcome stands, staging belongs to the owner and is extended until the checkpoint that completes it |
| Chat turn pipeline (`commands/message_cmds.rs`) | program position of each call, active-request entry | send_message, drain_queued_turns, retry_recoverable_generation | all of the above, providers, patch scheduler | many early returns, awaits between durable steps, stop, deletion, crash | slot never lost, item never lost, one reply per turn |
| Active requests, drains, quiescence (`state.rs`, `quiescence.rs`) | slot per conversation, tombstones, in-flight flags, pause | try_register, take, cancel, guards on drop | pipeline | guards that act by key, wake-ups dropped | mutual exclusion, every wake-up served |
| Startup (`lib.rs`) | none of its own | mark interrupted, recover queue, jobs, scheduler | all tables | order of the recoveries | nothing stays in flight |
| Event outbox and bus (`runtime_v2/events.rs`, `outbox.rs`) | subscriptions, pending effects, deliveries; the bus in memory | enqueue in the transaction, flush, dispatch, deliver, mark, load | windows, handlers | crash between commit, effect, handler and mark | the bus follows the table, an event is heard by those subscribed at its commit |
| Conversation event log and cursors (`runtime_v2/turn_journal.rs`) | sequences, cursors of clients | append, read since | windows | gaps, reconnects | monotonic sequences |
| Patch scheduler and mounts (`runtime_v2/patch_scheduler.rs`, `mount_registry.rs`) | rows queued / deferred / applied / failed / pending_approval, fresh mounts | schedule, defer, promote, recover, flush, mark | kernel, windows | kernel commit and mark are two transactions, recovery infers from other tables | the row says what happened, nothing commits twice |
| Surfaces and transactions (`runtime_v2/transactions.rs`, `surfaces.rs`) | surfaces, versions, transactions with their snapshots | apply all or none, undo | kernel, outbox | undo after further edits, deletions and re-creations | revisions without gaps, one commit per operation |
| Application kernel (`application_kernel/`) | proposals, policies, plans | apply_change, decide_proposal, plans | scheduler, data | approval of something that changed, consent over indirect ways | what runs is what was approved |
| Registered actions (`application_kernel/registered_actions/`) | approvals, grants, breakers, audit | ask, decide, consume, revoke | automations, generated interfaces | single use, expiry, revocation racing a call | an approval is used once, for the call it froze |
| Automations (`automations/`) | rows, runs, slots; the in-memory set at work | tick, claim, run, finalize, catch up, edit, restore | actions, quiescence | edits under a run, lost finalizations, restores, clock changes | one run at a time, one per slot, the user's word stands |
| Generated data, branches, snapshots, drafts, timelines, ledgers | rows | single transactions | surfaces | little concurrency | unit tests cover it |
| Maintenance, backup, profile bootstrap | journal of a staged restore, files | begin, clear, restore | quiescence | crash during a restore | file I/O |
| Mounts and windows | in-memory leases | acquire, release | patch scheduler | stale leases | no durable state |
| Providers, crawler, research, credentials, media, themes, exports, projects, frontend | external or user data | network, keychain, file I/O | pipeline | time-outs | left to tests |

`PROJECT.json` lists every component with what is modelled of it, and under
`hazards` every place found so far where the code is hard to test, with the
properties that would notice.

## 2. The models and the code

### `AgentQueue`

`status[i]`, `createdAt[i]`, `boundTurn[i]` are columns of row `i`; `existing`
is the `conversations` table, which matters because rows cascade with it and an
INSERT without it is refused. Every function of `queue.rs` is one statement or
one `BEGIN IMMEDIATE` transaction under the mutex, hence one action with the
same name. A call the code refuses changes nothing and is no step. Conversation
and priority never change after the INSERT and are constants of the item. The
journal is what recovery is told of it: `RecoverStaleActive(ts)` takes any
assignment of states to turns. `created_at` is the count of inserts, which
assumes that the wall clock is not set back.

### `TurnJournal`

The rows of one conversation. `attempt[t]` numbers the attempt ids issued for
the turn (UUIDs in the code), `staged[t]` is `operations_json`, `finalized[t]`
is `finalized_at IS NOT NULL`. `Transition` carries the attempt its caller
believes it owns; in `Next` it is any attempt ever issued, so delayed callbacks
of replaced attempts are part of the model. `Continues` is the acceptance test
of a checkpoint as the code has it, including that a list of the same length
that sets `complete` is not compared with the one before (5.bb). Ages are not
kept: which eligible rows retention and compaction take is left open, which
covers every age.

### `TurnPipeline`

One conversation. A *runner* is one call of `send_message_inner`: a send of the
user, a retry of the user, or the drain task, which makes one after another.
`pc[r]` is where the call is; a step is what the code does in one hold of the
database mutex or in one operation on the active-request map.

| label of `pc` | code |
|---|---|
| register, enqueue | `try_register_request`, and the enqueue when busy (2287-2355) |
| admit | provider admission, user message (2356-2605) |
| turn, bind, start | validation, `create_turn` and claim, or `reclaim_recoverable_turn_for_retry`; `bind_queue_item_turn`; retention and `provider_started` (2960-3131) |
| provider | the provider call, streaming, the tool loop, the repair (3133-3877) |
| release | `take_request` after a settled failure |
| apply | between `finalizing` and the reply: plan, patch schedule (3879-4400) |
| commit, publish | the assistant message, then the row's `committed` and `published` (4558-4775) |
| wake, exit | the two guards, in the order they are dropped |
| loop, pick, claimed, busy, settle, leaving | `drain_queued_turns` (1686-1972) |

`slot` is the conversation's entry in `active_requests` with the runner that
registered it. The code keeps only a token there: `ActiveRequestGuard::drop` and
`take_request` remove the entry by key, whoever put it there, and the model does
the same. `pc[Drain] # "idle"` is `queue_drain_inflight`; `wakes` counts drain
tasks spawned and not yet polled. Every `let _ = transition_turn(..)` is
`TryTransitions`: refused, the caller goes on.

`Restart` is the death of the process at any point followed by the startup
recovery in the order of `lib.rs` (journal, line 64, then queue, line 404), before
any command runs. What it forgets is memory; what it keeps is the tables, the
replies and the user messages.

Three histories are observed: `inserted` (user messages inserted per prompt),
`replies` (assistant messages committed, by turn and attempt) and `applied`.

### `SurfaceTransactions`, `ChangeKernel`

`surface[s]` is the row of a surface with the revision numbers that
`surface_versions` holds; revision 0 means there is no row. `log` is the
`operation_transactions` that were applied, with the batch (`app_operations`), the
revisions found and left (the snapshots) and whether it was undone. `Commit` is
`create_transaction` and `apply_transaction_deferred` inside the kernel's `BEGIN
IMMEDIATE`: `Run` applies the batch in its order and all or nothing, and the
primary key of `app_operations` refuses an operation that was committed before.
`Undo` has the pre-flight check of `undo_transaction` and its effect on revisions
and versions: what the transaction created goes, what it found comes back under its
old number, and the restore fails when a surface it needs is gone, be it that the
undo itself has just deleted it as created.

`ApplyChange` is `apply_change` with its four outcomes. Risk decides between a
commit and a proposal, and the source of the change between who can grant what. A
policy may ask for approval of a change whose risk does not (`PolicyAsks`). What contents,
policies, recovery mode and capability packs may refuse is the
outcome "error" or "conflicted", possible at any time. A proposal freezes its
operations and the revisions of its targets (`Frozen`); `Approve` commits exactly
those operations if the revisions did not move. `Close` stands for every end of a
proposal without a commit.

`ChangeLedger` is what these promise together: an operation takes effect for good;
a guarded one only by the one answer to a question that was asked about fixed
operations, with all of them and nothing else; always with what it depends on.
`Ledger` in `PatchScheduler` is the refinement mapping: `committed` is what the log
holds, undone or not, `asked` the proposals, `open` the pending ones.

### `PatchScheduler`

`status[o]` and `defers[o]` are columns of the row of operation `o` in
`patch_scheduler_items`, `line` the order of `sequence_number`, `mounted` the
surfaces with a fresh mount. A command holds the database mutex from its begin to
its end, so there is one at most (`cmd`); its steps are the transactions between
which a crash may fall:

| steps | code |
|---|---|
| `Schedule`, `ScheduleOnly` | `schedule_patches`, readiness of each target, one transaction |
| `ScheduleAndApply`, `BatchApplies`, `BatchMarks` | `schedule_and_apply`: the ready rows as one batch, then a mark per row |
| `FlushBegins` | `flush_scheduler` up to its loop: promotion, `recover_scheduler`, the readiness gate, the fates of dependents |
| `FlushApplies`, `FlushMarks` | its loop: `apply_change` on one row, then the mark |
| `Mount`, `Unmount` | `register_surface_mount_cmd`; unregistering or growing stale |
| `ApproveProposal`, `CloseProposal`, `UndoTransaction` | the user's decisions |

`Readiness` is `resolve_operation_readiness`. Which waiting rows are older than
their time to live is a choice at every promotion, which covers every age. What a
commit does to rows (those of a deleted surface cascade, those of an inline
surface are promoted) happens inside the commit, as in the code.

### `EventOutbox`

`subs`, `alive`, `outbox`, `delivered` are the tables, `known` and `listed` the two
maps of the bus (by id, and the list per surface, whose length the limit counts).
`CommitTransaction` is any of a set of operation sequences with the outbox rows it
leaves, and starts the flush that `apply_change` runs under the same lock. A flush
takes the first `FlushLimit` pending rows, as a set of places in the outbox, and
does them one by one, the lowest first; `Dispatch`
matches against the bus as it is then; `Deliver` is `execute_durable_event_delivery`
up to the commit of the handler, and `MarkDelivered` the statement after it.
`Restart` loads the bus and flushes. `UndoCreation` is the one way rows of
subscriptions go without a row in the outbox.

### `AutomationScheduler`

`db` is one value, because a backup saves it and a restore brings it back: the
rows, the runs with the slot each claimed, and, as a history, what the user last
asked. A worker is a task of the ticker or a call of `run_now`: `Begun` once
`SchedulerHandle::try_begin` let it in, `Claim` is `claim_run`'s transaction,
`Finish` is `finalize_run_or_clear` after the action has run without the lock.
`Finalized` is written as the code computes it, from the row as it is now and the
claim as it was then. `StartScheduler` is `spawn_scheduler` before its loop: the
reconciliation of runs a crash left and the catch-up of missed ones. Times are
ticks; `NextAfter` gives what an interval, a daily time or an unparsable zone
gives.

A restore pauses the ticker and the user's commands (`Paused`, `ProfileOpen`); workers
go on. It is as many steps as it has lock holds and ways to end:

| `restore` | code (`commands/data_cmds.rs`) | ends by |
|---|---|---|
| none | | `BeginRestore` |
| staging | from the pause to the swap (317-570) | `Install`; `AbandonRestore`: a failure here clears the journal and resumes the ticker; `InstallFails`: quarantine, copy or reopen fails (587-628) |
| swapped | the restored database is open, the lock free, the assets still to swap (632-662); `saved` is the quarantined database | `SwapAssets`; `AssetsFail`: the quarantined database comes back |
| installed | the rest (663-703) | `EndRestore`, the guards: maintenance cleared, ticker resumed |
| retained | a failure in or after the swap: `retain_for_recovery` makes the guards skip both (328, 350) | the next start |
| recovery | what that start makes of the journal (`Leftovers`, `lib.rs:414-526`) | a restore, which is open to a profile that is not ready |

`boot` is how far the scheduler of this process is: skipped by a start into Recovery,
spawned, or done with its start-up pass. A restore out of Recovery spawns it.
Faults, each at most once per behaviour: a crash, a clock set back, a finalization
that fails, a restore that fails in or after its swap.

## 3. What the runs check

| run | instance | properties |
|---|---|---|
| `queue` | 3 items of one conversation, one more urgent, 1 of another, bound 2 | `TypeOK`, `AtMostOneActive`, `QueueBounded`, `FirstComeFirstServed` |
| `journal` | 2 turns, 2 attempts, checkpoints of up to 2 of 2 operations, cap 1 | `TypeOK`, `StagingOfCurrentAttempt`, `UnsettledRowsKept`, `RevisedOnlyByCompletion`, `OutcomeStands` |
| `pipeline` | 2 sends, 1 retry, 1 crash, deletion | `TypeOK`, `SlotNotLeaked`, `ActiveItemOwned`, `CompletedMeansReplied`, `CommittedTurnHasReply`, `PromptSentOnce`, `HandedBackUnanswered`, `DeletionFinal` |
| `pipeline_retry` | 1 send, 2 retries, 2 crashes, 1 pause, deletion | `OneReplyPerTurn`, `SettledTurnStays` |
| `pipeline_live` | 2 sends, 1 retry, fairness | `ActiveItemSettles`, `SlotReleased` |
| `scheduler` | a surface that exists and one to be created, 6 operations in two agent batches and a user's, 1 undo, 1 crash | `TypeOK`, `AppliedIsCommitted`, `CommittedOnce`, `ConsentBeforeCommit`, `DependenciesFirst`, `RowsTellTruth`, `VersionsContiguous`, `LedgerKept` |
| `outbox` | 2 surfaces, 3 subscriptions, 4 events (2 of them deletions), 6 transactions, 1 restart | `TypeOK`, `BusInSync`, `HeardInOrder`, `DeliveredToAll`, `MarkedRunsNoMore` |
| `automations` | 2 automations, one edited by the user, 2 commands, 2 faults, fairness | `TypeOK`, `NoOverlap`, `SlotOnce`, `PauseHolds`, `UserScheduleKept`, `DueIsServed` |
| `overlap`, `lost_wakeup`, `startup_order`, `deleted_row` | smallest that shows it | a statement of the repository the code does not keep (section 5) |

What they show:

- **The queue** keeps its order even when an item is handed back by a lost race
  or a crash, because `requeue` leaves `created_at` alone; the bound holds
  although recovery and requeue never count, because an active row was counted.
- **The journal** refuses every late writer: a settled row moves again only under
  a new attempt id and a committed one never; the rows compaction may take are
  exactly the settled ones. What an attempt has staged is only extended, except that
  the checkpoint that completes it may put other operations of the same number in
  its place (5.bb): the property allows that one revision and no other.
- **The pipeline** has no path that keeps the slot or forgets an activated item;
  `completed` and `committed` are never said before the reply is there; a prompt
  goes back in line only when the turn it was running has no reply; nothing of a
  turn is committed into a deleted conversation. A turn is answered twice only
  if the process dies between the reply and the row's commit and the user retries.

- **Changes** keep the ledger: over deferral, promotion, mounts, flushes, crashes
  between commit and mark, second proposals of one operation and undo, nothing an
  agent wants and nothing strong commits but by the decision of its proposal. A
  crash leaves rows that know less than happened, never rows that claim more.
- **Undo** takes revision numbers back together with their versions, so that the
  next edit finds its number free, also after a deletion and a re-creation.
- **Events** reach those subscribed when they were committed, in order, although
  they are matched later, as long as nothing crashes; after a crash the bus still
  agrees with the table once the outbox is empty, and a marked delivery is not run
  again. The exceptions are named in the model (`strays`, `refused`) and are departures
  5.k to 5.n below.
- **Automations** never overlap with themselves, not even when a run outlives the
  age at which its claim counts as stale or a restore brings back its row; a slot
  runs once over catch-up, ticks and a clock set back; an edit or a pause during a run
  survives its finalization, all that also when a restore fails after workers
  have acted on the restored database and is rolled back. A due automation is served,
  also after a restore that completed or failed before its swap. The exceptions are a
  slot that is already taken (5.r), a claim whose finalization was lost (5.t) and a
  profile that awaits Recovery after a restore failed in its swap (5.z).

Every property is also run against a mutant of the code (`PROJECT.json`,
`mutants`): a dropped check, a swapped order, a missing reset that a change to
this code could introduce, which the property must notice.

### Bounds

- *Two sends and the drain* are three callers of the slot, one more than the race
  for it needs; `overlap` takes three sends, because its scenario needs a call that
  ends, one that registered since, and a third. One retry suffices where retries are
  not the subject; `pipeline_retry` has the two that can race.
- *Crashes*: one reaches every recovery from every point; two, in
  `pipeline_retry`, also a crash during the work a first crash caused.
- `MaxQueuedTurns` is 1 or 2 instead of 5 (`limits.rs`) and `MaxKeep` 1: the
  boundary is reached, which larger values would put out of reach.
- `MaxOps = 0` in the pipeline: what a checkpoint holds is decided in
  `TurnJournal`, and only that one is written matters here. `Completions` limits
  its `complete` flag: both values in `pipeline_retry`, one in `pipeline`, none
  in the liveness runs, where staging has no effect on control.
- `Deletable` and `MaxPauses` switch deletion and maintenance on where they are
  the subject.
- `scheduler`: the operations cover every kind of readiness (a missing target, a
  renderer that is not there, an archived or deleted one), a dependency, an
  automatic, a guarded and a strong operation; `MaxQueue` 4 and `MaxDeferredRetries`
  1 instead of 64 and 3 (`limits.rs`) are reached. One crash falls between any two transactions.
  `PolicyAsks` is one automatic operation, which may or may not meet such a policy.
  Operations without a surface (settings) are in the model and the proofs, not in this run.
- `outbox`: 3 subscriptions of 2 surfaces with `MAX_SUBSCRIPTIONS_PER_SURFACE` 1, so
  that the limit is met, transactions of up to 2 operations, a flush that takes 3
  rows of up to 8.
- `automations`: a clock of 0..2 with an interval trigger of one tick and a daily one of two, one
  start per tick instead of two so that the two automations compete, one failure
  until an automation is switched off, stale after one tick. The trigger with an
  unknown time zone is in the model and the proofs but not in the run. A backup is
  restored once and a restore fails in its swap once; the restore that leads out of Recovery is
  outside the bound on commands, so that the profile can always come back.
- Symmetry over sends and retries only in runs of safety properties.

Deadlock is checked for the two tables. In the other models it is not: once every
call has returned and the bounds are used up, the system is at rest.

### Fairness

`FairSpec` assumes weak fairness of every task's own step (`TaskStep(r)`), of the
start of a spawned drain, and of the second half of a deletion. The first two
are tokio's: a task that can go on is polled. For a call at the provider it
is the request time-out of the `ai` module that makes it end. The user,
maintenance and crashes are owed nothing. Where a drain or a call waits it is
never for a lock held across an await, so weak fairness is enough.

In `AutomationScheduler` fairness is weak on the start-up pass together with the stages
of a restore, on the ticker (a loop with a sleep) and on the progress of some worker (a
claim, a refusal or a finish; actions and provider calls have time-outs). The start-up
pass is straight-line code under one lock. A restore is not: it takes the lock several
times, but it is one synchronous command without an await, so that each stage
goes on to the next or fails by itself; that it fails in or after the swap
is a fault and owed nothing. Nothing is assumed of the user, who may leave a profile in
Recovery for ever, nor of the clock.

## 4. What is proved

TLAPS checks these for every value of the constants (any number of items,
messages, retries, crashes, pauses, any bounds), from the assumptions the modules
name (`QueueAssumption`, `JournalAssumption`, `PipelineAssumption`,
`SurfaceAssumption`, `DepsAssumption`, `SchedulerAssumption`, `AutomationAssumption`,
`OutboxAssumption`: finite sets of items, of calls, of automations and of subscriptions,
distinct names, operations that are distinct within a batch, an event of its own for
the deletion of each surface (the code gives every event a new UUID), bounds that are
numbers, fields in their types).

- `AgentQueueProofs`: `TypeCorrect`; `OneActiveTurn` and `ServedInOrder` from the
  inductive `ServiceInv`. Order alone is not inductive: one must also know
  that every stamp lies below the clock (`StampsPast`), so that a new row comes last.
  `StepShape` says once what a step of any function may do to the rows,
  so that the order argument is made once and not per action.
  `QueueStaysBounded` counts: only an INSERT adds a live row, it adds one, and it
  is guarded.
- `TurnJournalProofs`: `JournalTyped`, `StagingNeverStale` and `SettledRowsStamped`
  from `JournalInv`; `OutcomesStand`, `StagingRevisedOnlyByCompletion` and
  `UnsettledRowsStay`, action
  properties, from the same invariant. That the stamp is on the settled rows and no
  other (`FinalizedIffTerminal`) is what makes compaction harmless. The invariant is
  needed: that a stale checkpoint cannot replace
  the staging of an unchanged attempt follows only when staging is known to be the
  current attempt's.
- `TurnPipelineProofs`: `SlotNeverLeaked` from `SlotInv`, with one step lemma
  (`StepShape`): a step takes the slot only on its way into the guarded region and
  leaves that region only by freeing it. `ActiveItemNeverOrphaned` from `ItemInv`:
  calls and the environment are `Harmless` (they activate nothing and leave the
  drain its item), the drain's own steps are taken one by one.
  `PromptsSentOnce` from `PromptInv`, which says who may
  still insert a prompt's message in this life of the process: the send itself as long
  as its item is not in the queue, or the drain with the item once the send has
  returned. On top of it `OwnerInv`: from `create_turn` or the reclaim to the
  published row a call holds the current attempt of its turn, alone, and finds the row
  in the state it left it in, unless the conversation is gone (`OwnInv`). That is what
  the slot cannot give, since calls may overlap (5.1): it comes from turn ids of
  one message each and from the attempt ids.
- `TurnPipelineReplyProofs`: `GivenInv` (the owner of a row has given its reply exactly
  when it comes to publish; a committed row has the reply of its last attempt) gives
  `CommittedTurnsHaveReplies`; `DoneInv` (the drain's word of success and the binding
  of an item are about that item) `CompletedItemsAreReplied`; `CountInv` (every reply
  beyond the first costs a crash, and a turn that has had its share is settled or about
  to be) `OneReplyEach`; `HandInv` (an active item is bound to the turn the drain
  works on) `HandedBackHasNoReply`. `SettledTurnsStay`, `DeletionIsFinal` and
  `PipelineTypeCorrect` follow from the same invariants. `PipelineImplementsQueue`: every
  step of the pipeline, a crash with its recovery and a deletion included, is a step
  of `AgentQueue` or leaves its table alone; `PipelineQueueServes` carries over what
  `AgentQueueProofs` proved of it.
- `PatchSchedulerProofs`, in three layers.
  *Log and proposals*: `NothingCommitsTwice`, `NothingCommitsUnasked`,
  `DependenciesCommitFirst` from `IInv`, which speaks of the log and the proposals only
  (their shape, the references inside each, the consent behind each direct
  commit). The argument is in `JointStep`: whatever a step does to rows, mounts and
  surfaces, to log and proposals it does one of five things. `LedgerImplemented`
  reads the same five as steps of `ChangeLedger`: the refinement for any operations,
  batches, windows and bounds.
  *Rows*: `AppliedMeansCommitted` and `RowsAreTruthful` from `RowInv`. A row alone does
  not tell enough: between the kernel's commit and the mark it says `queued` of an
  operation that is committed. So the invariant divides what the command has in hand into
  what is done, what is still to come and what was not asked yet (`CmdInv`), says that
  the line holds each operation once and only operations with a row (`LineInv`), and
  relates the rows to log and proposals outside of the command's hand (`BookInv`). A crash
  drops the hand, which is why the second half of `RowsTellTruth` is about `crashes = 0`.
  *Surfaces*: `VersionsStayContiguous` and `SchedulerTyped` from `KernelInv`: rows are
  contiguous and no snapshot's revision is above the one undo must find, so what an
  undo keeps is an initial part of what is there. That a batch of any length keeps
  rows contiguous is induction along its fold.
- `AutomationSchedulerProofs`: `RunsDoNotOverlap`, `SlotsRunOnce`, `PausesHold` from
  `IInv`, which is `AtWork` (one worker per automation, and it is in the in-memory set) and
  `DbGood`. The latter must hold of the backup too, or a restore would break it,
  which is why it is a predicate `Good(d)` of one database value applied to both. The
  same holds of the way back: the quarantined database takes the backup's place until
  the restore has ended, so `Install` and `AssetsFail` are one exchange.
  `SchedulerTypeCorrect` from `TypedInv`: the one hard part is that fewer failures are
  counted than runs were made while a run is pending, in the database and in the backup.
  `UserSchedulesStay` from `BookInv`: a claim that a worker carries knows of its row what it
  changed (`ClaimSound`), so the finalization either finds the user's schedule as it was at
  the claim or leaves it alone; with a restore the claim meets an older row, so the
  invariant is about a database together with the workers whose run it knows.
- `EventOutboxProofs`: the five properties from `OutboxInv`, whose centre is `ValueAt`: what
  the bus will have of a subscription when it comes to a row, by the last pending row
  before it that changes the subscription, or by what it has now.
  *The bus follows the table* (`SyncOk`): by all pending rows the bus will have what the
  table has. That alone is not inductive. After a crash the bus is loaded from a newer
  table than the rows that are still pending, and an `enable` or `disable` does nothing
  to a subscription the bus does not have. So the invariant says it twice, once with all
  rows and once with only those that add or remove (the value is "none" exactly when the
  table's is). `OutboxBusInSync` is the case without pending rows.
  *Events are heard in order* (`EarlyOk`, until the first crash): every pending
  dispatch row will find on the bus those and only those that were on at its commit
  (`OrderOk`); it comes to its row with nothing left before it (`NoneComing`), because a
  flush takes the first rows (`TakenFirst`) and what it passes over is refused or a stray
  (`FlushOk`). While the event is under way `UnderWayOk` divides its hearers into
  those who heard it and those left. That each handler runs once per life of the process
  (`RanOk`) needs that events have one row each, which `RowsOk` says with what a
  deleted surface leaves behind.
  A transaction is a sequence of any length: `StoryOk` is what each of its operations keeps
  (`DoneKeeps`, one case per arm of `apply_one`), `RunAllKeeps` goes along the fold.
  *The limit of the bus* (`ListsWithinLimit`, for `OutboxTypeCorrect`): the length of a
  surface's list is a fold over a set in an unknown order. `SumsExist` shows that the sum
  is there for every finite set; that a smaller list has a smaller sum, one entry more
  is one more, and a freshly loaded list counts what it kept follows by `SubsetInduction`.
- `FoldLemmas`: what the outbox, the layer *Surfaces* and the order in `PatchScheduler` rest on. The
  library's induction theorems take an operator as a parameter, which the provers
  cannot instantiate; here induction is over the members of a set (`SetInduction`,
  `BoundedInduction`, from the well-foundedness of `<`), and `FoldGoesLeft` derives from the
  definition of the folds that `FoldLeft` over values of one set goes through the
  sequence from the left, for sequences of any length.

With these every safety property that a passing run checks is a theorem about every
value of the constants, and so are both refinements. Each strengthened invariant was
checked by TLC on the instance of its run before it was proved.

Only model-checked: liveness (`ActiveItemSettles`, `SlotReleased`, `DueIsServed`), because
its proof needs ENABLED, which the prover does not handle. No `RECURSIVE` operator is used.

## 5. Where the code departs from what it says

1. `overlap`. "If a turn is already active for this chat, enqueue instead of
   overlapping" (`commands/message_cmds.rs:2287`). A call gives its slot up before
   it ends; its guard then removes the entry of the call that has registered
   meanwhile, and a third call starts beside that one.
2. `lost_wakeup`. "It will run when the current reply finishes"
   (`commands/message_cmds.rs:2344`). A call that fails before its turn row exists
   frees the slot without scheduling a drain, and the message queued behind it
   waits for the next thing that does.
3. `startup_order`. "if turn was only created/claimed: requeue"
   (`runtime_v2/queue.rs:260`, `docs/SECURE_PARTIAL_UPDATE_ARCHITECTURE_2026_09_19.md:168`).
   Startup has rewritten those states before the queue's recovery looks for them,
   so the prompt is failed.
4. `deleted_row`. The tombstone is there "to prevent late-arriving provider turns from
   resurrecting rows" (`commands/conversation_cmds.rs:42`). `create_turn` does not
   look at it and `turn_journal` has no foreign key.

The following are in the models as the code has them. They are no separate runs,
because no document, comment or test of the repository promises otherwise, or because the
property that holds names the exception; where a comment says otherwise it is quoted.

Changes:

- a. The flush hands a row to `apply_change` alone; a row with `depends_on` then fails
  `validate_dependency_refs` and the error ends the flush, so the row stays in front
  of all later ones. The flush keeps dependents queued "so a later flush can run it after
  promotion" (`runtime_v2/patch_scheduler.rs:1030`), which is that path.
- b. `recover_scheduler` runs in every flush: a promoted row whose turn has any applied
  transaction is failed as `crash_recovered` without a crash.
- c. A row waiting for its renderer for more than 60 seconds is failed when the
  renderer mounts.
- d. Undo sets a revision back, so a proposal made against that number passes the
  equality check of `decide_proposal` again.
- e. Undo restores what the transaction found and checks revisions only: later changes
  of state, which raise none, are lost. A transaction that deletes a surface and creates
  it again cannot be undone: the undo deletes it as created, then fails to restore it.
  One that created and deleted a surface recorded no revision for it, so its undo
  deletes whatever has that id by then.
- f. `enforce_queue_limits` counts queued rows and not deferred ones.
- g. A row that says `pending_approval` is not updated when its proposal is decided.
- h. A crash between the proposal and the mark of its row leads to a second proposal
  of the operation; only the first approval commits.
- i. `surface.restore` is refused by the scheduler because its target is archived;
  a ready row that depends on a waiting one of the same call fails.

Events:

- j. A dispatch whose handler fails is marked `failed` and never tried again. The
  comment says it is left "pending/failed for retry" (`runtime_v2/outbox.rs:146`), a
  test that "failed rows are terminal" (`runtime_v2/outbox.rs:514`); the model follows
  the code and the test.
- k. Undo of a creation, like the deletion of a conversation, removes subscriptions
  without telling the bus.
- l. A delivery inserts the subscription it refers to, which brings one back that
  was removed meanwhile (`events.rs:756`).
- m. A subscription over the bus' limit stays pending; a removal delivered after
  it makes it a subscription of the bus only. The table knows no limit.
- n. A row refused for good stays pending and takes one of the 200 places of each flush.
- o. A pending `add` replayed after a start, which loaded it already, lists it twice.
- p. The handler's effect and the mark are two transactions: a crash between runs the
  handler again.
- q. Handlers run in the order of the bus, and the first failure leaves the rest out.

Automations:

- r. `claim_run` does not look whether a scheduled run is still due: rescheduled between
  the ticker's list and the claim, it takes a slot of the future, which is then
  refused when due. A daily automation stays on that slot until it is edited or
  run by hand (`Stranded`), though "scheduled/catch-up runs always advance next_run_at to
  the subsequent cycle" (`automations/scheduler.rs:276`). A clock set back does the same.
- s. A refused claim counts against the two starts of a tick; the limit is per tick,
  not on runs at work.
- t. When finalizing and clearing both fail the row says `running` until it is stale.
- u. A claim that found no next time switches the automation off when it finishes,
  even if the user has mended the trigger meanwhile.
- v. Deleting or pausing does not stop a run under way, nor does a restore.
- w. Enabling an automation that failures switched off keeps its count: the next
  failure switches it off again.
- x. A panic in a worker leaves the automation marked as at work until the next start.
- y. An edit to a time zone nobody knows leaves the old next time in the row; a run that
  was claimed on that time and an equally unknown zone takes it for its own and clears it
  when it finishes (`Computable` in `UserScheduleKept`).
- z. A restore that fails in or after its swap (`commands/data_cmds.rs:587-662`) gets the
  old database back but keeps the ticker and the commands paused until the process is
  restarted, and that start enters Recovery without a scheduler (`lib.rs:524`) until a
  later restore succeeds, or fails early and is followed by one more restart: nothing due is served
  (`AwaitsRecovery` in `DueIsServed`). The
  comment's "a failed restore cannot leave automations paused" (`commands/data_cmds.rs:341`)
  speaks of failures before the swap only, and 339 names the exception.
- aa. Between the reopened database and the swap of the assets the lock is free and workers
  go on. When the assets fail, what workers wrote in between is lost with the database they
  wrote it to: a slot that was run there is free again.

Turns:

- bb. The checkpoint that sets `complete` is accepted with any operations of the same number
  as those staged (`runtime_v2/turn_journal.rs:261-274`: a promotion skips the comparison),
  although the code says "Append-only prefix continuity for the same attempt" (232) and
  "Idempotent only when ops+complete match; diverge → conflict" (264). The model and
  `RevisedOnlyByCompletion` follow the code and name the exception.

## 6. What is not modelled, and why

- Structured form submissions: their turn has a key of its own that can already
  have a row, and the check that it is free is made before the slot is taken
  (`commands/message_cmds.rs:2133`). Planned, see below. `CreateTurn` says what it
  assumes.
- Failures of single statements (a full disk, a busy database) except where they
  decide control: the provider, the parse, the compile and the commit of the reply
  fail in the model. A failing `bind_queue_item_turn` and a failing deletion
  transaction do not; both are listed as hazards.
- The content of messages, prompts, plans and documents. What the patch scheduler
  does with a turn's operations is one step in the pipeline (`Apply`).
- Of the patch scheduler: the preview lane and its supersession, the byte limit and
  priorities, and the breadth-first order among dependents of one flush (each row is applied
  alone and fails on its references wherever it stands). Of the kernel: what a policy
  looks at (that one refuses, or asks for approval, is in the model), and recovery mode,
  capability packs, idempotency keys and plans, which can only refuse or repeat, and
  refusal is always possible.
- Of the bus: the loop, depth and rate limits behind a refusal, and events that a
  handler submits. Of automations: the actions, approvals they park, pruning.
- Of a restore: the files, the recovery shell it opens when the live database cannot be
  opened again, and a death between the moves of the quarantine, which leaves no database
  under its name.
- A panic inside a worker of the automations (5.x): it would make `DueIsServed` false
  in the way the departure says.
- Registered actions (approvals, grants, breakers): the consumption of an approval is one
  transaction with tests for its races; planned next.
- Other conversations: the tables and the slot are per conversation and nothing
  in the pipeline crosses, except the pause.
- Everything marked `not_modelled` in `PROJECT.json`, with the reason there.

## 7. Plan

Modules are written to be proved about: constants with named assumptions, one action
per operation, no `RECURSIVE`.

1. Done: `AgentQueue`, `TurnJournal`, `TurnPipeline`, `SurfaceTransactions`, `ChangeKernel`,
   `ChangeLedger`, `PatchScheduler`, `EventOutbox`, `AutomationScheduler`, their runs, the
   proofs of every safety property, the refinement of `ChangeLedger` and that of
   `AgentQueue` by the pipeline.
2. After a crash `HeardInOrder` and `DeliveredToAll` promise nothing. What still holds then
   of the order, given a bus loaded from a newer table, is to be stated and checked.
3. `TurnPipeline`: structured forms, a second kind of send with a key of its own;
   two submissions of one form may answer under one attempt, to be stated as what the
   code does.
4. `ActionGateway` (`application_kernel/registered_actions/`): approvals that freeze a
call, are decided
   and consumed once and expire, grants and their revocation, the replay after a
   decision; with `ChangeLedger` as its abstract specification as well.
5. The composition of `EventOutbox` with `PatchScheduler`: handlers that submit changes.
