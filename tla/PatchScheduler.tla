--------------------------- MODULE PatchScheduler ---------------------------
(***************************************************************************)
(* The patch scheduler (runtime_v2/patch_scheduler.rs) of one conversation *)
(* with the renderers that mount its surfaces (mount_registry.rs).  A      *)
(* batch is written as rows of patch_scheduler_items, applied at once or   *)
(* left for a flush; rows whose target is not there yet wait.  The kernel  *)
(* commits or proposes in a transaction of its own and the row is marked   *)
(* afterwards: a crash may fall between.  A command holds the database     *)
(* lock, so commands do not overlap.                                       *)
(*                                                                         *)
(* Left out: priorities and preview supersession (the commands refuse the  *)
(* preview lane), the byte limit, deletion of the conversation.            *)
(***************************************************************************)
EXTENDS ChangeKernel

CONSTANTS
  Batches,
  Members,             \* Members[b]: its operations, dependencies first, ids distinct
  Agent,               \* the batches an agent sends; the others are a user's
  MaxQueue,            \* MAX_PATCH_QUEUE
  MaxDeferredRetries,  \* MAX_DEFERRED_PATCH_RETRIES
  Views,               \* bound: the surfaces some window shows
  MaxUndos,            \* bound
  MaxCrashes           \* bound

ASSUME SchedulerAssumption ==
  /\ Members \in [Batches -> Seq(Ops)]
  /\ \A b \in Batches : Members[b] # << >> /\ IsInjective(Members[b])
  /\ Agent \subseteq Batches
  /\ Views \subseteq Surfaces
  /\ {MaxQueue, MaxDeferredRetries, MaxUndos, MaxCrashes} \subseteq Nat

VARIABLES
  status,    \* status[o]: of its row; "gone" once the row is deleted
  defers,    \* defers[o]: defer_count
  line,      \* operations in the order of sequence_number
  mounted,   \* surfaces with a fresh mount
  cmd,       \* the command that holds the database
  crashes

tables == <<surface, log, proposals>>
rows == <<status, defers, line>>
vars == <<tables, rows, mounted, cmd, crashes>>

Statuses ==
  {"absent", "queued", "deferred", "applied", "failed", "pending_approval", "gone"}
Idle == [kind |-> "idle", todo |-> << >>, outcome |-> "none"]

FromAgent(o) == \E b \in Agent : o \in OpsOf(Members[b])
RowsAre(value) == {o \in Ops : status[o] = value}
\* The operations of `seq` that are `chosen`, in its order.
Picked(seq, chosen) ==
  FoldLeft(LAMBDA picked, o : IF o \in chosen THEN Append(picked, o) ELSE picked, << >>, seq)

-----------------------------------------------------------------------------
(* Readiness of a target *)

\* resolve_operation_readiness on the surfaces `at` and the mounts `on`.
Readiness(o, at, on) ==
  LET row == at[Target[o]]
  IN  IF Kind[o] \in Creations \cup {"setting"} THEN "ready"
      ELSE IF row.revision = 0 THEN "missing"
      ELSE IF row.archived THEN "rejected"
      ELSE IF row.revision < Base[o] THEN "missing"
      ELSE IF Kind[o] = "navigate" /\ Target[o] \notin on THEN "renderer"
      ELSE "ready"

\* Mutant: no limit in time or number.
NeverGivenUp(o, ready, late) == ready = "rejected"
\* `late` are the rows created more than DEFERRED_PATCH_TTL_SECS ago.
GivenUp(o, ready, late) ==
  \/ ready = "rejected"
  \/ ready # "renderer" /\ (o \in late \/ defers[o] > MaxDeferredRetries)

\* The rows of `targets` in the table `st` after a promotion.
Promoted(st, targets, at, on, late) ==
  [o \in Ops |->
    LET ready == Readiness(o, at, on)
    IN  IF st[o] # "deferred" \/ Target[o] \notin targets THEN st[o]
        ELSE IF GivenUp(o, ready, late) THEN "failed"
        ELSE IF ready = "ready" THEN "queued"
        ELSE "deferred"]

PromotedDefers(st, targets, at, on, late) ==
  [o \in Ops |->
    IF /\ Promoted(st, targets, at, on, late)[o] = "deferred"
       /\ Target[o] \in targets
       /\ Readiness(o, at, on) = "missing"
    THEN defers[o] + 1
    ELSE defers[o]]

Everywhere == Surfaces \cup {NoSurface}

\* promote_deferred_patches, whatever the time.
Promote(st, targets, at, on) ==
  \E late \in SUBSET RowsAre("deferred") :
    /\ status' = Promoted(st, targets, at, on, late)
    /\ defers' = PromotedDefers(st, targets, at, on, late)

\* What a commit of `batch` does to the rows, inside its transaction: those of
\* a deleted surface go, those of an inline surface are promoted.
Inlined(batch) == {Target[o] : o \in {p \in OpsOf(batch) : Kind[p] = "inline"}}
WithoutDeleted(deleted) ==
  [o \in Ops |-> IF status[o] # "absent" /\ Target[o] \in deleted THEN "gone" ELSE status[o]]
RowsFollow(batch) ==
  Promote(WithoutDeleted(DeletedBy(batch)), Inlined(batch), surface', {})

-----------------------------------------------------------------------------
(* Scheduling *)

\* schedule_patches: all rows or none.
Schedule(b) ==
  LET ops == OpsOf(Members[b])
      ready == [o \in ops |-> Readiness(o, surface, mounted)]
  IN  /\ cmd = Idle
      /\ \A o \in ops : status[o] = "absent" /\ ready[o] # "rejected"
      /\ Cardinality(RowsAre("queued")) + Len(Members[b]) <= MaxQueue
      /\ status' = [o \in Ops |-> IF o \notin ops THEN status[o]
                                  ELSE IF ready[o] = "ready" THEN "queued" ELSE "deferred"]
      /\ defers' = [o \in Ops |-> IF o \in ops /\ ready[o] # "ready" THEN 1 ELSE defers[o]]
      /\ line' = line \o Members[b]
      /\ UNCHANGED <<tables, mounted, crashes>>

\* schedule_patches_cmd without apply_immediately.
ScheduleOnly(b) ==
  /\ b \notin Agent
  /\ Schedule(b)
  /\ UNCHANGED cmd

\* schedule_and_apply up to the call of apply_change: what is ready goes as
\* one batch.
ScheduleAndApply(b) ==
  /\ RefsOk(Members[b])
  /\ Schedule(b)
  /\ LET ready == Picked(Members[b], RowsAre("queued")')
     IN  cmd' = IF ready = << >> THEN Idle
                ELSE [kind |-> "batch", todo |-> ready, outcome |-> "none"]

\* The user's command grants what is not strong.
BatchApplies(result) ==
  /\ cmd.kind = "batch"
  /\ cmd.outcome = "none"
  /\ LET agent == \E o \in OpsOf(cmd.todo) : FromAgent(o)
     IN  ApplyChange(cmd.todo, agent, ~ agent /\ ~ IsStrong(cmd.todo), result)
  /\ IF result = "committed" THEN RowsFollow(cmd.todo) ELSE UNCHANGED <<status, defers>>
  /\ cmd' = [cmd EXCEPT !.outcome = result]
  /\ UNCHANGED <<line, mounted, crashes>>

\* Mutant: a change that was put to the user goes back to the queue.
QueuedAgain(outcome) ==
  CASE outcome = "committed" -> "applied"
    [] outcome = "proposal" -> "queued"
    [] OTHER -> "failed"
\* The status of a row after the kernel's answer.
Marked(outcome) ==
  CASE outcome = "committed" -> "applied"
    [] outcome = "proposal" -> "pending_approval"
    [] OTHER -> "failed"

WithMark(o) ==
  [status EXCEPT ![o] = IF @ = "gone" THEN @ ELSE Marked(cmd.outcome)]

\* The loop over the batch's rows; after a commit what waits is promoted.
BatchMarks ==
  /\ cmd.kind = "batch"
  /\ cmd.outcome # "none"
  /\ LET last == Len(cmd.todo) = 1
         marked == WithMark(Head(cmd.todo))
     IN  /\ cmd' = IF last THEN Idle ELSE [cmd EXCEPT !.todo = Tail(@)]
         /\ IF last /\ cmd.outcome = "committed"
            THEN Promote(marked, Everywhere, surface, mounted)
            ELSE /\ status' = marked
                 /\ UNCHANGED defers
  /\ UNCHANGED <<tables, line, mounted, crashes>>

-----------------------------------------------------------------------------
(* Flush *)

\* Mutant: what the turn committed stands for each of its operations.
RecoveredByTurn(st) ==
  [o \in Ops |->
    IF /\ st[o] = "queued"
       /\ \E b \in Agent : /\ o \in OpsOf(Members[b])
                           /\ OpsOf(Members[b]) \cap Committed # {}
    THEN "applied" ELSE st[o]]

TurnCommitted(o) ==
  \E b \in Agent, i \in DOMAIN log :
    /\ o \in OpsOf(Members[b])
    /\ ~ log[i].undone
    /\ OpsOf(log[i].batch) \cap OpsOf(Members[b]) # {}

\* recover_scheduler: a row a crash left queued after its commit is applied;
\* one whose turn committed without it is failed.
Recovered(st) ==
  [o \in Ops |-> IF st[o] # "queued" THEN st[o]
                 ELSE IF o \in Committed THEN "applied"
                 ELSE IF TurnCommitted(o) THEN "failed"
                 ELSE "queued"]

\* The check right before the apply: a mount may have gone meanwhile.
Gated(st) ==
  [o \in Ops |->
    LET ready == Readiness(o, surface, mounted)
    IN  IF st[o] # "queued" \/ ready = "ready" THEN st[o]
        ELSE IF ready = "rejected" THEN "failed"
        ELSE "deferred"]

\* The rows of `executable` that `seed` reaches over dependents outside `not`.
Downstream(executable, seed, not) ==
  {o \in executable :
     \A reach \in SUBSET executable :
       (/\ seed \subseteq reach
        /\ \A p \in executable \ not : Deps[p] \cap reach # {} => p \in reach)
       => o \in reach}

\* The three fates of a queued row whose dependencies are not queued themselves.
Missing(st, executable) ==
  {o \in executable : \E d \in Deps[o] \ executable : st[d] \notin {"applied", "deferred"}}
Waiting(st, executable) ==
  Downstream(executable,
             {o \in executable : \E d \in Deps[o] \ executable : st[d] = "deferred"},
             Missing(st, executable))
Doomed(st, executable) ==
  LET missing == Missing(st, executable)
  IN  missing \cup (Downstream(executable, missing, missing \cup Waiting(st, executable))
                      \ Waiting(st, executable))

\* Dependents come after the rows that wait for nothing.  (The breadth-first order
\* among dependents is left out: each is applied alone and fails on its references.)
InOrder(chosen) ==
  LET roots == {o \in chosen : Deps[o] \cap chosen = {}}
  IN  Picked(line, roots) \o Picked(line, chosen \ roots)

\* flush_scheduler up to the loop, by the window that mounts s.
FlushBegins(s) ==
  /\ cmd = Idle
  /\ s \in mounted
  /\ surface[s].revision > 0
  /\ \E late \in SUBSET RowsAre("deferred") :
       LET st == Gated(Recovered(Promoted(status, Everywhere, surface, mounted, late)))
           executable == {o \in Ops : st[o] = "queued"}
           doomed == Doomed(st, executable)
           todo == InOrder(executable \ (doomed \cup Waiting(st, executable)))
       IN  /\ status' = [o \in Ops |-> IF o \in doomed THEN "failed" ELSE st[o]]
           /\ defers' = PromotedDefers(status, Everywhere, surface, mounted, late)
           /\ cmd' = IF todo = << >> THEN Idle
                     ELSE [kind |-> "flush", todo |-> todo, outcome |-> "none"]
  /\ UNCHANGED <<tables, line, mounted, crashes>>

\* Mutant: what a user queued is granted, whatever its risk.
GrantedToUsers(o) == ~ FromAgent(o)
\* A mount is no consent: a strong operation stays with the user.
FlushGrants(o) == ~ FromAgent(o) /\ ~ IsStrong(<<o>>)

\* apply_change on the next row; an error ends the flush and leaves the rows.
FlushApplies(result) ==
  /\ cmd.kind = "flush"
  /\ cmd.outcome = "none"
  /\ LET o == Head(cmd.todo)
     IN  /\ ApplyChange(<<o>>, FromAgent(o), FlushGrants(o), result)
         /\ IF result = "committed" THEN RowsFollow(<<o>>) ELSE UNCHANGED <<status, defers>>
  /\ cmd' = IF result = "error" THEN Idle ELSE [cmd EXCEPT !.outcome = result]
  /\ UNCHANGED <<line, mounted, crashes>>

FlushMarks ==
  /\ cmd.kind = "flush"
  /\ cmd.outcome # "none"
  /\ status' = WithMark(Head(cmd.todo))
  /\ cmd' = IF Len(cmd.todo) = 1 THEN Idle
            ELSE [cmd EXCEPT !.todo = Tail(@), !.outcome = "none"]
  /\ UNCHANGED <<tables, defers, line, mounted, crashes>>

-----------------------------------------------------------------------------
(* Renderers, decisions, undo and crashes *)

\* register_surface_mount_cmd.
Mount(s) ==
  /\ cmd = Idle
  /\ s \notin mounted
  /\ surface[s].revision > 0
  /\ mounted' = mounted \cup {s}
  /\ Promote(status, {s}, surface, mounted')
  /\ UNCHANGED <<tables, line, cmd, crashes>>

\* unregister_surface_mount_cmd, or MOUNT_STALE_TTL without a sign of life.
Unmount(s) ==
  /\ s \in mounted
  /\ mounted' = mounted \ {s}
  /\ UNCHANGED <<tables, rows, cmd, crashes>>

ApproveProposal(i) ==
  /\ cmd = Idle
  /\ Approve(i)
  /\ RowsFollow(proposals[i].batch)
  /\ UNCHANGED <<line, mounted, cmd, crashes>>

CloseProposal(i) ==
  /\ cmd = Idle
  /\ Close(i)
  /\ UNCHANGED <<rows, mounted, cmd, crashes>>

\* A surface the undo deletes takes its rows with it.
UndoTransaction(i) ==
  /\ cmd = Idle
  /\ Cardinality({j \in DOMAIN log : log[j].undone}) < MaxUndos
  /\ Undo(i)
  /\ status' = WithoutDeleted({s \in Surfaces : surface[s].revision > 0
                                                /\ surface'[s].revision = 0})
  /\ UNCHANGED <<proposals, defers, line, mounted, cmd, crashes>>

\* The process dies; the registry of mounts is in memory.
Crash ==
  /\ crashes < MaxCrashes
  /\ crashes' = crashes + 1
  /\ cmd' = Idle
  /\ mounted' = {}
  /\ UNCHANGED <<tables, rows>>

Init ==
  /\ KernelInit
  /\ status = [o \in Ops |-> "absent"]
  /\ defers = [o \in Ops |-> 0]
  /\ line = << >>
  /\ mounted = {}
  /\ cmd = Idle
  /\ crashes = 0

Results == {"committed", "proposal", "conflicted", "error"}

Next ==
  \/ \E b \in Batches : ScheduleOnly(b) \/ ScheduleAndApply(b)
  \/ \E result \in Results : BatchApplies(result) \/ FlushApplies(result)
  \/ BatchMarks
  \/ FlushMarks
  \/ \E s \in Views : FlushBegins(s) \/ Mount(s) \/ Unmount(s)
  \/ \E i \in DOMAIN proposals : ApproveProposal(i) \/ CloseProposal(i)
  \/ \E i \in DOMAIN log : UndoTransaction(i)
  \/ Crash

Spec == Init /\ [][Next]_vars

-----------------------------------------------------------------------------
(* Properties *)

Direct == UNION {OpsOf(log[i].batch) : i \in {j \in DOMAIN log : log[j].via = "direct"}}
Proposed == UNION {OpsOf(proposals[i].batch) : i \in DOMAIN proposals}

TypeOK ==
  /\ surface \in [Surfaces -> Row]
  /\ \A i \in DOMAIN log : log[i].batch \in Seq(Ops) /\ log[i].via \in {"direct", "proposal"}
  /\ \A i \in DOMAIN proposals :
       proposals[i].status \in {"pending", "applied", "closed"}
  /\ status \in [Ops -> Statuses]
  /\ defers \in [Ops -> 0..MaxDeferredRetries + 1]
  /\ line \in Seq(Ops)
  /\ mounted \subseteq Surfaces
  /\ cmd.kind \in {"idle", "batch", "flush"} /\ cmd.todo \in Seq(Ops)
  /\ crashes \in 0..MaxCrashes

\* A row says "applied" only of an operation that a transaction committed, also
\* when the row was settled by recovery after a crash, when its turn has other
\* operations (recover_scheduler's "never infer operation commit from a
\* turn-level transaction").
AppliedIsCommitted == RowsAre("applied") \subseteq Committed

\* No operation takes effect twice, although a crash between the kernel's
\* commit or proposal and the row's mark leaves the row to be run again and a
\* second proposal of the same operation may be approved.
CommittedOnce ==
  \A i, j \in DOMAIN log : OpsOf(log[i].batch) \cap OpsOf(log[j].batch) # {} => i = j

\* What commits without a proposal is automatic, or a user's own operation that
\* is not strong: neither a deferral, nor a promotion, nor a renderer's mount
\* stands in for consent.
ConsentBeforeCommit ==
  \A o \in Direct : Kind[o] \in Automatic \/ (~ FromAgent(o) /\ Kind[o] \notin Strong)

\* An operation commits with what it depends on or after it, though one of
\* them waits for its target and the other is ready.
DependenciesFirst ==
  \A i \in DOMAIN log :
    \A o \in OpsOf(log[i].batch) :
      Deps[o] \subseteq UNION {OpsOf(log[j].batch) : j \in 1..i}

\* A row that is failed or waits was not committed behind its back, and as
\* long as nothing crashed a row that may still run, or failed, is in no
\* proposal either.
RowsTellTruth ==
  /\ (RowsAre("failed") \cup RowsAre("deferred")) \cap Direct = {}
  /\ crashes = 0 =>
       (RowsAre("queued") \cup RowsAre("deferred") \cup RowsAre("failed"))
         \cap (Committed \cup Proposed) \subseteq OpsOf(cmd.todo)

\* The versions of a surface are those up to its revision, whatever was
\* edited, deleted, created again and undone: the next edit finds its number free.
VersionsContiguous ==
  \A s \in Surfaces : surface[s].versions = 1..surface[s].revision

\* The scheduler, the kernel and the transactions together keep the ledger:
\* however patches wait, crash, are put to the user twice or undone, a guarded
\* operation commits only by the decision of a pending proposal, with all that
\* the proposal froze and nothing else, and a proposal is decided once.
Ledger == INSTANCE ChangeLedger WITH
  committed <- Committed,
  asked <- [i \in DOMAIN proposals |-> OpsOf(proposals[i].batch)],
  open <- {i \in DOMAIN proposals : proposals[i].status = "pending"},
  Guarded <- {o \in Ops : Kind[o] \notin Automatic /\ (FromAgent(o) \/ Kind[o] \in Strong)}

LedgerKept == Ledger!Spec
=============================================================================
