------------------------ MODULE SurfaceTransactions -------------------------
(***************************************************************************)
(* Surfaces and the operation transactions that change them:               *)
(* runtime_v2/transactions.rs and the parts of runtime_v2/surfaces.rs it   *)
(* calls.  A transaction applies a batch of operations, all or none, and   *)
(* remembers the rows it found so that it can be undone.                   *)
(*                                                                         *)
(* A definition is its revision number; its contents and the surface's     *)
(* state are left out, and so are the checks on payloads: that an          *)
(* operation may be refused for them is a choice of the caller.            *)
(***************************************************************************)
EXTENDS Integers, Sequences, FiniteSets, SequencesExt

CONSTANTS
  Surfaces,   \* surface ids
  Existing,   \* those that exist at the start
  NoSurface,  \* target of an operation that names no surface
  Ops,        \* operations; their ids are primary keys of app_operations
  Kind,       \* Kind[o]: the operation's type
  Target,     \* Target[o]: the surface it names
  Base        \* Base[o]: its base_revision, 0 when it has none

Kinds ==
  {"inline", "create", "edit", "state", "navigate", "archive", "delete", "setting"}
Creations == {"inline", "create"}

ASSUME SurfaceAssumption ==
  /\ Existing \subseteq Surfaces
  /\ NoSurface \notin Surfaces
  /\ Kind \in [Ops -> Kinds]
  /\ Target \in [Ops -> Surfaces \cup {NoSurface}]
  /\ \A o \in Ops : Target[o] = NoSurface <=> Kind[o] = "setting"
  /\ Base \in [Ops -> Nat]

VARIABLES
  surface,   \* surface[s]: its row and the revisions surface_versions holds
  log        \* the applied transactions, in the order of their commits

\* revision 0: there is no row.
Absent == [revision |-> 0, archived |-> FALSE, versions |-> {}]
Fresh == [revision |-> 1, archived |-> FALSE, versions |-> {1}]

\* What a row may hold.
Row == [revision : Nat, archived : BOOLEAN, versions : SUBSET Nat]

OpsOf(batch) == {batch[k] : k \in DOMAIN batch}
Committed == UNION {OpsOf(log[i].batch) : i \in DOMAIN log}

-----------------------------------------------------------------------------

\* The base revision of o against revision r of its surface, which was at
\* `start` when the transaction began.
BaseHolds(o, r, start) == Base[o] \in {0, start, r}

\* May o be applied to the surfaces `at`, in a transaction that found `start`?
Applicable(o, at, start) ==
  LET s == Target[o]
  IN  \/ Kind[o] = "setting"
      \/ Kind[o] \in Creations /\ at[s].revision = 0
      \/ /\ Kind[o] \notin Creations \cup {"setting"}
         /\ at[s].revision > 0
         /\ Kind[o] = "edit" =>
              /\ BaseHolds(o, at[s].revision, start[s].revision)
              /\ at[s].revision + 1 \notin at[s].versions

Edited(row) ==
  [row EXCEPT !.revision = @ + 1, !.versions = @ \cup {row.revision + 1}]

\* The surfaces after o.
Applied(o, at) ==
  LET s == Target[o]
  IN  CASE Kind[o] \in Creations -> [at EXCEPT ![s] = Fresh]
        [] Kind[o] = "edit" -> [at EXCEPT ![s] = Edited(@)]
        [] Kind[o] = "archive" -> [at EXCEPT ![s].archived = TRUE]
        [] Kind[o] = "delete" -> [at EXCEPT ![s] = Absent]
        [] OTHER -> at

\* The batch in its order; once an operation is refused the rest is not tried.
Run(batch) ==
  LET Step(done, o) ==
        IF done.ok /\ Applicable(o, done.at, surface)
        THEN [ok |-> TRUE, at |-> Applied(o, done.at)]
        ELSE [done EXCEPT !.ok = FALSE]
  IN  FoldLeft(Step, [ok |-> TRUE, at |-> surface], batch)

CreatedBy(batch) == {Target[o] : o \in {p \in OpsOf(batch) : Kind[p] \in Creations}}
\* A surface is created once in a transaction, also when it was deleted since.
CreatesOnce(batch) ==
  \A j, k \in DOMAIN batch :
    /\ {Kind[batch[j]], Kind[batch[k]]} \subseteq Creations
    /\ Target[batch[j]] = Target[batch[k]]
    => j = k
DeletedBy(batch) == {Target[o] : o \in {p \in OpsOf(batch) : Kind[p] = "delete"}}
\* The surfaces the snapshot covers: those named that exist.
Touched(batch) ==
  {s \in Surfaces : surface[s].revision > 0 /\ \E o \in OpsOf(batch) : Target[o] = s}

\* The revision undo must find: that of the end, or one above the first when
\* there is no row at the end.  What the batch both created and deleted has none.
PostRevisions(batch, at) ==
  [s \in Touched(batch) \cup {c \in CreatedBy(batch) : at[c].revision > 0} |->
     IF at[s].revision > 0 THEN at[s].revision ELSE surface[s].revision + 1]

\* The row of the transaction with its snapshot.
Entry(batch, via, at) ==
  [batch |-> batch, via |-> via, undone |-> FALSE,
   before |-> [s \in Touched(batch) |-> surface[s].revision],
   post |-> PostRevisions(batch, at)]

\* Mutant: app_operations is keyed by transaction, so an operation may come back.
CommitAgain(batch, via) ==
  /\ CreatesOnce(batch)
  /\ Run(batch).ok
  /\ surface' = Run(batch).at
  /\ log' = Append(log, Entry(batch, via, Run(batch).at))

\* create_transaction and apply_transaction_deferred, inside the caller's BEGIN.
\* The insert refuses an operation that was committed before.
Commit(batch, via) ==
  /\ OpsOf(batch) \cap Committed = {}
  /\ CreatesOnce(batch)
  /\ Run(batch).ok
  /\ surface' = Run(batch).at
  /\ log' = Append(log, Entry(batch, via, Run(batch).at))

\* The pre-flight check, and what makes the restore itself fail: a surface that
\* is gone, also one that the undo has just deleted as created.
Undoable(i) ==
  LET created == CreatedBy(log[i].batch)
  IN  /\ ~ log[i].undone
      /\ \A s \in DOMAIN log[i].before \cup created : surface[s].revision > 0
      /\ \A s \in DOMAIN log[i].post : surface[s].revision = log[i].post[s]
      /\ DOMAIN log[i].before \cap created = {}

\* Mutant: the revision goes back, the versions above it stay.
UndoKeepingVersions(i) ==
  /\ Undoable(i)
  /\ surface' = [s \in Surfaces |->
       IF s \in DOMAIN log[i].before
       THEN [surface[s] EXCEPT !.revision = log[i].before[s]]
       ELSE IF s \in CreatedBy(log[i].batch) THEN Absent ELSE surface[s]]
  /\ log' = [log EXCEPT ![i].undone = TRUE]

\* undo_transaction: what it created goes, what it found comes back under the
\* old revision number.
Undo(i) ==
  /\ Undoable(i)
  /\ surface' = [s \in Surfaces |->
       IF s \in DOMAIN log[i].before
       THEN [surface[s] EXCEPT
               !.revision = log[i].before[s],
               !.versions = {v \in @ : v <= log[i].before[s]}]
       ELSE IF s \in CreatedBy(log[i].batch) THEN Absent ELSE surface[s]]
  /\ log' = [log EXCEPT ![i].undone = TRUE]

SurfaceInit ==
  /\ surface = [s \in Surfaces |-> IF s \in Existing THEN Fresh ELSE Absent]
  /\ log = << >>
=============================================================================
