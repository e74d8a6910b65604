------------------------ MODULE AutomationScheduler -------------------------
(***************************************************************************)
(* The automation scheduler (automations/scheduler.rs): a ticker and the   *)
(* user's "run now" start workers; each claims a run in one transaction,   *)
(* works without the database lock and finalizes in another.  The user     *)
(* edits, pauses and deletes meanwhile; the process may die; a backup may  *)
(* be restored under a run, in full, not at all, or up to a failure in the *)
(* middle of the swap; the wall clock may be set back.                     *)
(*                                                                         *)
(* Left out: what an action does, the status of a run's history row (no    *)
(* decision reads it), the pruning of history and of slots beyond the last *)
(* 100 runs (fewer happen here), so that the slots claimed are the slots   *)
(* of the runs; the recovery shell a failed restore opens when it cannot   *)
(* open the live database again.                                           *)
(***************************************************************************)
EXTENDS Integers, Sequences, FiniteSets, Functions

CONSTANTS
  Automations,
  Triggers,      \* [kind |-> "interval" | "daily" | "unknown_zone", every |-> n]
  Trigger,       \* Trigger[a]: how a is created
  Skips,         \* the automations with policy skip
  StaleAfter,    \* STALE_RUNNING_SECS in ticks
  MaxPerTick,    \* MAX_CONCURRENT_RUNS
  MaxFailures,   \* MAX_CONSECUTIVE_FAILURES
  MaxTime,       \* bound on the clock
  Edited,        \* bound: the automations the user commands
  MaxCommands,   \* bound
  MaxFaults      \* bound

Faults == {"crash", "setback", "lost", "swap"}
Never == -1

ASSUME AutomationAssumption ==
  /\ IsFiniteSet(Automations)
  /\ \A tr \in Triggers : tr.kind \in {"interval", "daily", "unknown_zone"} /\ tr.every \in Nat \ {0}
  /\ Trigger \in [Automations -> Triggers]
  /\ Skips \subseteq Automations /\ Edited \subseteq Automations
  /\ {StaleAfter, MaxPerTick, MaxFailures, MaxTime, MaxCommands, MaxFaults} \subseteq Nat
  /\ MaxPerTick > 0

VARIABLES
  db,         \* rows, runs, and what the user last asked of each automation
  saved,      \* a backup of db, or << >>; between Install and the end of the
              \* restore the database that was quarantined
  now,
  workers,    \* the tasks and calls under way
  running,    \* SchedulerHandle.running
  boot,       \* the scheduler of this process: "skipped" by a start into Recovery,
              \* "spawned", or "done" with its start-up pass
  restore,    \* "none", the stage of a restore, or what is left of a failed one:
              \* "retained" by the process it failed in, "recovery" after a restart
  commands,   \* how many commands the user gave
  faults      \* the faults that struck, each at most once

handle == <<running, boot, restore>>
vars == <<db, saved, now, workers, handle, commands, faults>>

\* require_profile: no maintenance, and the profile was opened.
ProfileOpen == restore = "none" /\ boot # "skipped"
\* SchedulerHandle.paused.
Paused == restore \in {"staging", "swapped", "installed", "retained"}

Command ==
  /\ ProfileOpen
  /\ commands < MaxCommands
  /\ commands' = commands + 1
  /\ UNCHANGED faults
Fault(f) ==
  /\ f \notin faults
  /\ Cardinality(faults) < MaxFaults
  /\ faults' = faults \cup {f}
  /\ UNCHANGED commands

NoWish == [paused |-> FALSE, next |-> Never]

\* compute_next_after.
NextAfter(tr, t) ==
  CASE tr.kind = "interval" -> t + tr.every
    [] tr.kind = "daily" -> (t \div tr.every + 1) * tr.every
    [] tr.kind = "unknown_zone" -> Never

\* list_due_automations.
Due(d) == {a \in DOMAIN d.rows : d.rows[a].enabled /\ d.rows[a].next \in 0..now}

-----------------------------------------------------------------------------
(* claim_run and finalize_run on a database d *)

Held(r) == r.running /\ r.last > now - StaleAfter

\* Mutant: automation_scheduled_slots is not consulted.
AnySlot(d, a, slot) == TRUE
SlotFree(d, a, slot) == slot = Never \/ \A run \in d.runs : run.of = a => run.slot # slot

\* A manual run takes no slot.
SlotOf(origin, r) == IF origin = "manual" THEN Never ELSE r.next
\* ... and keeps a schedule that is not due.
NextOf(origin, r) ==
  IF origin = "manual" /\ r.next \notin 0..now THEN r.next ELSE NextAfter(r.trigger, now)

Claimable(d, a, origin) ==
  /\ a \in DOMAIN d.rows
  /\ d.rows[a].enabled
  /\ ~ Held(d.rows[a])
  /\ SlotFree(d, a, SlotOf(origin, d.rows[a]))

\* An id no run of a has, in d, in the backup or in a worker's hands.
FreshRun(d, a) ==
  LET runs == UNION {data.runs : data \in {d} \cup Range(saved)}
      taken == {run.id : run \in {x \in runs : x.of = a}}
                 \cup {w.claim.run : w \in {v \in workers : v.of = a /\ v.stage = "claimed"}}
  IN  CHOOSE id \in 1..(Cardinality(taken) + 1) : id \notin taken

ClaimOf(d, a, origin) ==
  LET r == d.rows[a]
  IN  [run |-> FreshRun(d, a), slot |-> SlotOf(origin, r), trigger |-> r.trigger, was |-> r.next,
       next |-> NextOf(origin, r), started |-> now,
       schedulable |-> origin = "manual" \/ NextOf(origin, r) # Never]

Claimed(d, a, c) ==
  [rows |-> [d.rows EXCEPT ![a] = [@ EXCEPT !.enabled = c.schedulable, !.next = c.next,
                                            !.last = now, !.running = TRUE]],
   runs |-> d.runs \cup {[id |-> c.run, of |-> a, slot |-> c.slot]},
   asked |-> [d.asked EXCEPT ![a].next = IF c.next = c.was THEN @ ELSE Never]]

Failures(r, outcome) ==
  CASE outcome = "failure" -> r.failures + 1
    [] outcome = "success" -> 0
    [] outcome = "parked" -> r.failures

\* Mutant: the row as it was claimed decides.
OnFromClaim(r, c, outcome) == c.schedulable /\ (outcome = "failure" => Failures(r, outcome) < MaxFailures)
\* final_enabled: whoever paused it during the run has the last word.
StaysOn(r, c, outcome) ==
  /\ r.enabled
  /\ c.schedulable
  /\ outcome = "failure" => Failures(r, outcome) < MaxFailures

\* Mutant: the schedule computed at the claim.
NextFromClaim(r, c) == c.next
\* final_next: an edit made during the run stays.
NextKept(r, c) ==
  IF r.trigger # c.trigger \/ r.next \notin {c.next, c.was} THEN r.next ELSE c.next

Finalized(d, a, c, outcome) ==
  LET r == d.rows[a]
      newer == r.last > c.started
  IN  [d EXCEPT !.rows[a] =
         [r EXCEPT !.enabled = StaysOn(r, c, outcome),
                   !.next = NextKept(r, c),
                   !.last = IF newer THEN @ ELSE now,
                   !.running = IF newer THEN @ ELSE FALSE,
                   !.failures = Failures(r, outcome)]]

\* clear_stuck_running_claim, once finalize_run has failed.
Cleared(d, a) == IF a \in DOMAIN d.rows THEN [d EXCEPT !.rows[a].running = FALSE] ELSE d

\* finalize_run_or_clear: a deleted automation is left alone; a run the
\* database does not hold, as after a restore, is an error.
Settled(d, a, c, outcome) ==
  IF a \in DOMAIN d.rows /\ \E run \in d.runs : run.of = a /\ run.id = c.run
  THEN Finalized(d, a, c, outcome)
  ELSE Cleared(d, a)

-----------------------------------------------------------------------------
(* Workers *)

\* Mutant: try_begin does not look.
AlwaysBegins(a) == TRUE
\* SchedulerHandle::try_begin.
MayBegin(a) == a \notin running

Begun(a, origin) == [of |-> a, origin |-> origin, stage |-> "begun", claim |-> << >>]

\* SchedulerHandle::end.
Leave(w) ==
  /\ workers' = workers \ {w}
  /\ running' = running \ {w.of}

\* The first MaxPerTick of what is ready.
Batches(ready) ==
  {batch \in SUBSET ready \ {{}} :
     /\ Cardinality(batch) = MaxPerTick \/ (Cardinality(batch) < MaxPerTick /\ batch = ready)
     /\ \A a \in batch, b \in ready \ batch : db.rows[a].next <= db.rows[b].next}

\* One pass of the ticker over what is due and not at work.
Tick ==
  /\ boot = "done"
  /\ ~ Paused
  /\ \E batch \in Batches({a \in Due(db) : MayBegin(a)}) :
       /\ running' = running \cup batch
       /\ workers' = workers \cup {Begun(a, "scheduled") : a \in batch}
  /\ UNCHANGED <<db, saved, now, boot, restore, commands, faults>>

\* run_now; what is at work answers "busy".
RunNow(a) ==
  /\ MayBegin(a)
  /\ Command
  /\ running' = running \cup {a}
  /\ workers' = workers \cup {Begun(a, "manual")}
  /\ UNCHANGED <<db, saved, now, boot, restore>>

Claim(w) ==
  /\ w.stage = "begun"
  /\ Claimable(db, w.of, w.origin)
  /\ \E c \in {ClaimOf(db, w.of, w.origin)} :
       /\ db' = Claimed(db, w.of, c)
       /\ workers' = (workers \ {w}) \cup {[w EXCEPT !.stage = "claimed", !.claim = c]}
  /\ UNCHANGED <<saved, now, handle, commands, faults>>

\* Mutant: the early return forgets handle.end.
RefuseAndStay(w) ==
  /\ w.stage = "begun"
  /\ ~ Claimable(db, w.of, w.origin)
  /\ workers' = workers \ {w}
  /\ UNCHANGED <<db, saved, now, handle, commands, faults>>
\* claim_run returns None: disabled, deleted, running, or its slot taken.
Refuse(w) ==
  /\ w.stage = "begun"
  /\ ~ Claimable(db, w.of, w.origin)
  /\ Leave(w)
  /\ UNCHANGED <<db, saved, now, boot, restore, commands, faults>>

Finish(w) ==
  /\ w.stage = "claimed"
  /\ \E outcome \in {"success", "failure", "parked"} : db' = Settled(db, w.of, w.claim, outcome)
  /\ Leave(w)
  /\ UNCHANGED <<saved, now, boot, restore, commands, faults>>

\* The finalizing transaction fails; clearing the claim may fail as well.
FinishFails(w) ==
  /\ w.stage = "claimed"
  /\ Fault("lost")
  /\ db' \in {db, Cleared(db, w.of)}
  /\ Leave(w)
  /\ UNCHANGED <<saved, now, boot, restore>>

-----------------------------------------------------------------------------
(* Start-up *)

Reconciled(d) == [d EXCEPT !.rows = [a \in DOMAIN @ |-> [@[a] EXCEPT !.running = FALSE]]]

Skipped(d, a) ==
  LET next == NextAfter(d.rows[a].trigger, now)
  IN  IF next = Never THEN d
      ELSE [rows |-> [d.rows EXCEPT ![a] = [@ EXCEPT !.next = next, !.running = FALSE]],
            runs |-> d.runs,
            asked |-> [d.asked EXCEPT ![a].next = Never]]

\* catch_up_missed for one overdue automation.
CaughtUp(d, a, outcome) ==
  LET c == ClaimOf(d, a, "catch_up")
  IN  CASE a \in Skips -> Skipped(d, a)
        [] a \notin Skips /\ MayBegin(a) /\ Claimable(d, a, "catch_up") ->
             Settled(Claimed(d, a, c), a, c, outcome)
        [] OTHER -> d

\* One after the other: each touches its own row and runs only.
EachCaughtUp(d, overdue, outcome) ==
  LET after == [a \in overdue |-> CaughtUp(d, a, outcome)]
  IN  [rows |-> [a \in DOMAIN d.rows |-> IF a \in overdue THEN after[a].rows[a] ELSE d.rows[a]],
       runs |-> d.runs \cup UNION {after[a].runs : a \in overdue},
       asked |-> [a \in DOMAIN d.asked |-> IF a \in overdue THEN after[a].asked[a] ELSE d.asked[a]]]

\* spawn_scheduler before its loop, under one lock.  AI prompts are left to
\* the ticker; the user's edits make any automation one.
StartScheduler ==
  /\ boot = "spawned"
  /\ boot' = "done"
  /\ \/ Paused /\ db' = Reconciled(db)
     \/ /\ ~ Paused
        /\ \E outcome \in {"success", "failure"}, prompts \in SUBSET (Automations \ Skips) :
             db' = EachCaughtUp(Reconciled(db), Due(db) \ prompts, outcome)
  /\ UNCHANGED <<saved, now, workers, running, restore, commands, faults>>

\* What the next start makes of the maintenance journal: before the swap and
\* after the last stage it clears it, in between it enters Recovery.
Leftovers ==
  CASE restore = "none" -> {"none"}
    [] restore \in {"staging", "installed"} -> {"none", "recovery"}
    [] restore \in {"swapped", "retained", "recovery"} -> {"recovery"}

\* The process dies, in the middle of Install as well, and is started again.
Crash ==
  /\ Fault("crash")
  /\ workers' = {}
  /\ running' = {}
  /\ restore' \in Leftovers
  /\ boot' = IF restore' = "none" THEN "spawned" ELSE "skipped"
  /\ \/ db' = db
     \/ restore = "staging" /\ restore' = "recovery" /\ db' = saved[1]
  /\ saved' = IF restore = "swapped" THEN << >> ELSE saved
  /\ UNCHANGED now

-----------------------------------------------------------------------------
(* The user, the backup, the clock *)

NewRow(tr) == [enabled |-> TRUE, trigger |-> tr, next |-> NextAfter(tr, now), last |-> Never,
               running |-> FALSE, failures |-> 0]

\* upsert_automation; what the row says of its runs is carried over.
Upsert(a, tr, on) ==
  /\ Command
  /\ LET old == IF a \in DOMAIN db.rows THEN db.rows[a] ELSE NewRow(tr)
         next == IF NextAfter(tr, now) = Never THEN old.next ELSE NextAfter(tr, now)
         row == [old EXCEPT !.enabled = on, !.trigger = tr, !.next = next]
     IN  db' = [rows |-> [b \in DOMAIN db.rows \cup {a} |-> IF b = a THEN row ELSE db.rows[b]],
                runs |-> db.runs,
                asked |-> [db.asked EXCEPT ![a] = [paused |-> ~ on, next |-> next]]]
  /\ UNCHANGED <<saved, now, workers, handle>>

\* set_automation_enabled.
SetEnabled(a, on) ==
  /\ Command
  /\ a \in DOMAIN db.rows
  /\ LET r == db.rows[a]
         next == IF on /\ r.next = Never THEN NextAfter(r.trigger, now) ELSE r.next
     IN  db' = [rows |-> [db.rows EXCEPT ![a] = [r EXCEPT !.enabled = on, !.next = next]],
                runs |-> db.runs,
                asked |-> [db.asked EXCEPT ![a].paused = ~ on]]
  /\ UNCHANGED <<saved, now, workers, handle>>

\* delete_automation; the runs and their slots go with it.
Delete(a) ==
  /\ Command
  /\ a \in DOMAIN db.rows
  /\ db' = [rows |-> Restrict(db.rows, DOMAIN db.rows \ {a}),
            runs |-> {run \in db.runs : run.of # a},
            asked |-> [db.asked EXCEPT ![a] = NoWish]]
  /\ UNCHANGED <<saved, now, workers, handle>>

Backup ==
  /\ Command
  /\ saved' = <<db>>
  /\ UNCHANGED <<db, now, workers, handle>>

\* restore_profile_backup pauses the ticker; workers go on.  It is also the way
\* out of Recovery, where it stands outside the bound on commands.
BeginRestore ==
  /\ saved # << >>
  /\ \/ Command
     \/ boot = "skipped" /\ restore \in {"none", "recovery"} /\ UNCHANGED <<commands, faults>>
  /\ restore' = "staging"
  /\ UNCHANGED <<db, saved, now, workers, running, boot>>

\* A failure before the swap: the journal is cleared and the ticker resumed.
AbandonRestore ==
  /\ restore = "staging"
  /\ restore' = "none"
  /\ UNCHANGED <<db, saved, now, workers, running, boot, commands, faults>>

\* Under one lock: the live database is quarantined, the restored one opened.
Install ==
  /\ restore = "staging"
  /\ restore' = "swapped"
  /\ db' = saved[1]
  /\ saved' = <<db>>
  /\ UNCHANGED <<now, workers, running, boot, commands, faults>>

\* It fails in there: the live database is back, the journal and the pause stay.
InstallFails ==
  /\ restore = "staging"
  /\ Fault("swap")
  /\ restore' = "retained"
  /\ UNCHANGED <<db, saved, now, workers, running, boot>>

\* The files of the attachments follow, without the lock; a process that started
\* into Recovery then spawns its scheduler.  (Bound: a backup is restored once.)
SwapAssets ==
  /\ restore = "swapped"
  /\ restore' = "installed"
  /\ boot' = IF boot = "skipped" THEN "spawned" ELSE boot
  /\ saved' = << >>
  /\ UNCHANGED <<db, now, workers, running, commands, faults>>

\* They do not: the quarantined database comes back, over what workers wrote
\* since Install.
AssetsFail ==
  /\ restore = "swapped"
  /\ Fault("swap")
  /\ restore' = "retained"
  /\ db' = saved[1]
  /\ saved' = << >>
  /\ UNCHANGED <<now, workers, running, boot>>

EndRestore ==
  /\ restore = "installed"
  /\ restore' = "none"
  /\ UNCHANGED <<db, saved, now, workers, running, boot, commands, faults>>

Clock ==
  /\ now < MaxTime
  /\ now' = now + 1
  /\ UNCHANGED <<db, saved, workers, handle, commands, faults>>

SetBack ==
  /\ now > 0
  /\ Fault("setback")
  /\ now' = now - 1
  /\ UNCHANGED <<db, saved, workers, handle>>

-----------------------------------------------------------------------------
Init ==
  /\ now = 0
  /\ db = [rows |-> [a \in Automations |-> NewRow(Trigger[a])], runs |-> {},
           asked |-> [a \in Automations |-> NoWish]]
  /\ saved = << >>
  /\ workers = {}
  /\ running = {}
  /\ boot = "spawned"
  /\ restore = "none"
  /\ commands = 0
  /\ faults = {}

Next ==
  \/ Tick
  \/ \E w \in workers : Claim(w) \/ Refuse(w) \/ Finish(w) \/ FinishFails(w)
  \/ StartScheduler
  \/ Crash
  \/ \E a \in Edited :
       \/ RunNow(a)
       \/ Delete(a)
       \/ \E on \in BOOLEAN : SetEnabled(a, on) \/ \E tr \in Triggers : Upsert(a, tr, on)
  \/ Backup
  \/ BeginRestore
  \/ AbandonRestore \/ Install \/ InstallFails \/ SwapAssets \/ AssetsFail \/ EndRestore
  \/ Clock
  \/ SetBack

Work == \E w \in workers : Claim(w) \/ Refuse(w) \/ Finish(w)

RestoreStep == AbandonRestore \/ Install \/ SwapAssets \/ EndRestore

\* The ticker ticks, some worker goes on (provider calls time out), and start-up
\* and each stage of a restore end.  Nothing is assumed of the user, who may
\* leave Recovery as it is, of the clock or of faults.
Fairness == WF_vars(StartScheduler \/ RestoreStep) /\ WF_vars(Tick) /\ WF_vars(Work)

Spec == Init /\ [][Next]_vars /\ Fairness

-----------------------------------------------------------------------------
(* Properties *)

TypeOK ==
  /\ DOMAIN db.rows \subseteq Automations
  /\ \A a \in DOMAIN db.rows :
       /\ db.rows[a].trigger \in Triggers
       /\ {db.rows[a].next, db.rows[a].last} \subseteq Nat \cup {Never}
       /\ db.rows[a].failures \in 0..Cardinality(db.runs)
  /\ db.asked \in [Automations -> [paused : BOOLEAN, next : Nat \cup {Never}]]
  /\ Len(saved) <= 1
  /\ running \subseteq Automations
  /\ {w.of : w \in workers} = running
  /\ {w.stage : w \in workers} \subseteq {"begun", "claimed"}
  /\ commands \in 0..MaxCommands
  /\ now \in 0..MaxTime

\* No automation is executed by two runs at a time, however long one takes
\* (past the age at which its claim counts as stale), over ticks, "run now",
\* the start-up pass, and a restore that brings back a row of before.
NoOverlap == \A v, w \in workers : v.of = w.of => v = w

\* A scheduled slot is run once, though catch-up, ticker and a clock that was
\* set back can come upon it twice.
SlotOnce ==
  \A x, y \in db.runs : x.of = y.of /\ x.slot = y.slot /\ x.slot # Never => x = y

\* What the user paused stays paused, though runs claimed before finalize later.
PauseHolds ==
  \A a \in DOMAIN db.rows : db.asked[a].paused => ~ db.rows[a].enabled

\* A schedule computed from the trigger alone.
Computable(tr) == tr.kind # "unknown_zone"

\* The schedule the user last set stays until a run is claimed on it: a run
\* claimed before the edit does not put its own schedule over it.  Exception: an
\* edit to a zone nobody knows leaves the old time standing, which a run that
\* was claimed on the same time and zone takes for its own and clears.
UserScheduleKept ==
  "setback" \notin faults =>
    \A a \in DOMAIN db.rows :
      Computable(db.rows[a].trigger) /\ db.asked[a].next # Never =>
        db.rows[a].next = db.asked[a].next

\* A claim whose worker is gone: it blocks until it is stale, and the clock of
\* the model ends.
Orphaned ==
  /\ boot = "done"
  /\ \E a \in DOMAIN db.rows : db.rows[a].running /\ \A w \in workers : w.of # a

\* A schedule whose slot was run before.  Every claim of it is refused and none
\* moves it on: the code leaves it until the user does.
Stranded == \E a \in DOMAIN db.rows : ~ SlotFree(db, a, db.rows[a].next)

\* A restore failed in the middle of the swap: the ticker stays paused until the
\* restart, and from there on is not spawned, until a later restore succeeds or
\* fails early and is followed by one more restart.
AwaitsRecovery == restore = "retained" \/ boot = "skipped"

\* What is due is run, rescheduled or switched off, unless something is orphaned
\* or stranded (which also takes the starts of others) or the profile awaits
\* recovery: the cap on starts per tick starves nobody, no refused claim leaves
\* its automation marked as at work, and a restore that succeeds or fails before
\* the swap leaves the ticker running (data_cmds.rs:342).
DueIsServed ==
  \A a \in Automations :
    a \in Due(db) ~> (a \notin Due(db) \/ Orphaned \/ Stranded \/ AwaitsRecovery)
=============================================================================
