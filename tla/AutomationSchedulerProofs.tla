--------------------- MODULE AutomationSchedulerProofs ----------------------
(***************************************************************************)
(* What holds of the runs of any automations, under any bounds and faults: *)
(* no two at a time, no slot twice, nothing that was paused.  The first is *)
(* an argument about workers and the set `running`; the others are about   *)
(* one database value, which a claim, a finalization, the start-up pass    *)
(* and a command each turn into a good one, so that a restored backup is   *)
(* as good as the database it replaces.                                    *)
(*                                                                         *)
(* The second half (from Rows on) adds types, the count of failures and    *)
(* the user's schedule.  These relate a database to the runs under way, so *)
(* a database is taken together with the workers whose run it knows.       *)
(***************************************************************************)
EXTENDS AutomationScheduler, FiniteSetTheorems, TLAPS

\* A worker holds its automation in `running`, alone.
AtWork ==
  /\ NoOverlap
  /\ \A w \in workers : "of" \in DOMAIN w /\ w.of \in running

SlotsOnce(runs) ==
  \A x, y \in runs : x.of = y.of /\ x.slot = y.slot /\ x.slot # Never => x = y

\* What is paused is off.
RowsGood(rows, asked) ==
  /\ DOMAIN asked = Automations
  /\ \A a \in Automations : "paused" \in DOMAIN asked[a]
  /\ DOMAIN rows \subseteq Automations
  /\ \A a \in DOMAIN rows : /\ "enabled" \in DOMAIN rows[a]
                            /\ asked[a].paused => ~ rows[a].enabled

Good(d) ==
  /\ {"rows", "runs", "asked"} \subseteq DOMAIN d
  /\ RowsGood(d.rows, d.asked)
  /\ SlotsOnce(d.runs)

\* A restore that is not over has a second database at hand.
Restorable ==
  /\ restore \in {"none", "staging", "swapped", "installed", "retained", "recovery"}
  /\ restore \in {"staging", "swapped"} => saved # << >>

GoodBackup ==
  /\ saved = << >> \/ Good(saved[1])
  /\ Restorable

DbGood == Good(db) /\ GoodBackup

IInv == AtWork /\ DbGood

-----------------------------------------------------------------------------
(* Workers *)

\* What starts was not at work.
LEMMA StartKeeps ==
  ASSUME AtWork, NEW S, NEW origin, \A a \in S : MayBegin(a),
         running' = running \cup S,
         workers' = workers \cup {Begun(a, origin) : a \in S}
  PROVE  AtWork'
<1>1. \A w \in workers' \ workers : "of" \in DOMAIN w /\ w.of \in S
  BY DEF Begun
<1>2. \A v, w \in workers' \ workers : v.of = w.of => v = w
  BY DEF Begun
<1>3. \A v \in workers, w \in workers' \ workers : v.of # w.of
  BY <1>1 DEF AtWork, MayBegin
<1>4. NoOverlap'
  BY <1>2, <1>3 DEF AtWork, NoOverlap
<1>5. \A w \in workers' : "of" \in DOMAIN w /\ w.of \in running'
  BY <1>1 DEF AtWork
<1> QED BY <1>4, <1>5 DEF AtWork

\* A worker that leaves takes no other's mark along.
LEMMA LeaveKeeps ==
  ASSUME AtWork, NEW w \in workers, Leave(w)
  PROVE  AtWork'
<1>1. workers' = workers \ {w} /\ running' = running \ {w.of}
  BY DEF Leave
<1>2. \A v \in workers' : v.of # w.of
  BY <1>1 DEF AtWork, NoOverlap
<1> QED BY <1>1, <1>2 DEF AtWork, NoOverlap

LEMMA ClaimKeeps ==
  ASSUME AtWork, NEW w \in workers, Claim(w)
  PROVE  AtWork'
<1>1. PICK c : workers' = (workers \ {w}) \cup {[w EXCEPT !.stage = "claimed", !.claim = c]}
  BY DEF Claim
<1> DEFINE x == [w EXCEPT !.stage = "claimed", !.claim = c]
<1>2. "of" \in DOMAIN x /\ x.of = w.of
  BY DEF AtWork
<1>3. workers' = (workers \ {w}) \cup {x} /\ running' = running
  BY <1>1 DEF Claim, handle
<1> HIDE DEF x
<1>4. \A v \in workers \ {w} : v.of # x.of
  BY <1>2 DEF AtWork, NoOverlap
<1>5. NoOverlap'
  BY <1>3, <1>4 DEF AtWork, NoOverlap
<1>6. \A v \in workers' : "of" \in DOMAIN v /\ v.of \in running'
  BY <1>2, <1>3 DEF AtWork
<1> QED BY <1>5, <1>6 DEF AtWork

LEMMA WorkersStep == AtWork /\ [Next]_vars => AtWork'
<1> SUFFICES ASSUME AtWork, [Next]_vars PROVE AtWork'
  OBVIOUS
<1>1. CASE UNCHANGED <<workers, running>>
  BY <1>1 DEF AtWork, NoOverlap
<1>2. CASE Tick
  <2>1. PICK batch \in Batches({a \in Due(db) : MayBegin(a)}) :
          /\ running' = running \cup batch
          /\ workers' = workers \cup {Begun(a, "scheduled") : a \in batch}
    BY <1>2 DEF Tick
  <2>2. \A a \in batch : MayBegin(a)
    BY DEF Batches
  <2> QED BY <2>1, <2>2, StartKeeps
<1>3. ASSUME NEW a, RunNow(a) PROVE AtWork'
  <2> DEFINE S == {a}
  <2>1. /\ running' = running \cup S
        /\ workers' = workers \cup {Begun(b, "manual") : b \in S}
        /\ \A b \in S : MayBegin(b)
    BY <1>3 DEF RunNow
  <2> HIDE DEF S
  <2> QED BY <2>1, StartKeeps
<1>4. ASSUME NEW w \in workers, Claim(w) \/ Refuse(w) \/ Finish(w) \/ FinishFails(w)
      PROVE  AtWork'
  BY <1>4, ClaimKeeps, LeaveKeeps DEF Refuse, Finish, FinishFails
<1>5. CASE Crash
  BY <1>5 DEF Crash, AtWork, NoOverlap
<1>6. ASSUME NEW a, NEW tr, NEW on, Delete(a) \/ SetEnabled(a, on) \/ Upsert(a, tr, on)
      PROVE  AtWork'
  BY <1>1, <1>6 DEF Delete, SetEnabled, Upsert, handle
<1>7. CASE StartScheduler \/ Backup \/ BeginRestore \/ EndRestore \/ Clock \/ SetBack
  BY <1>1, <1>7 DEF StartScheduler, Backup, BeginRestore, EndRestore, Clock, SetBack, handle
<1>9. CASE AbandonRestore \/ Install \/ InstallFails \/ SwapAssets \/ AssetsFail
  BY <1>1, <1>9 DEF AbandonRestore, Install, InstallFails, SwapAssets, AssetsFail
<1>8. CASE UNCHANGED vars
  BY <1>1, <1>8 DEF vars, handle
<1> QED BY <1>2, <1>3, <1>4, <1>5, <1>6, <1>7, <1>8, <1>9 DEF Next

-----------------------------------------------------------------------------
(* One database *)

\* A row may change as long as it is not switched on.
LEMMA RowChange ==
  ASSUME NEW rows, NEW asked, RowsGood(rows, asked), NEW a \in DOMAIN rows, NEW r,
         "enabled" \in DOMAIN r, r.enabled => rows[a].enabled
  PROVE  RowsGood([rows EXCEPT ![a] = r], asked)
BY DEF RowsGood

LEMMA ScheduleAsked ==
  ASSUME NEW rows, NEW asked, RowsGood(rows, asked), NEW a, NEW next,
         NEW asked1, asked1 = [asked EXCEPT ![a].next = next]
  PROVE  RowsGood(rows, asked1)
BY DEF RowsGood

\* A claim takes a free slot and an enabled automation.
LEMMA ClaimedKeeps ==
  ASSUME NEW d, Good(d), NEW a, NEW origin, Claimable(d, a, origin), NEW c,
         c.slot = SlotOf(origin, d.rows[a])
  PROVE  Good(Claimed(d, a, c))
<1> DEFINE r == [d.rows[a] EXCEPT !.enabled = c.schedulable, !.next = c.next,
                                  !.last = now, !.running = TRUE]
           run == [id |-> c.run, of |-> a, slot |-> c.slot]
           next == IF c.next = c.was THEN d.asked[a].next ELSE Never
           e == Claimed(d, a, c)
<1>1. a \in DOMAIN d.rows /\ d.rows[a].enabled
  BY DEF Claimable
<1>2. "enabled" \in DOMAIN r
  BY <1>1 DEF Good, RowsGood
<1>3. /\ {"rows", "runs", "asked"} \subseteq DOMAIN e
      /\ e.rows = [d.rows EXCEPT ![a] = r]
      /\ e.runs = d.runs \cup {run}
      /\ e.asked = [d.asked EXCEPT ![a].next = next]
  BY DEF Claimed
<1> HIDE DEF r, e, next
<1>4. RowsGood(e.rows, e.asked)
  <2>1. RowsGood([d.rows EXCEPT ![a] = r], d.asked)
    BY <1>1, <1>2, RowChange DEF Good
  <2>2. RowsGood(e.rows, d.asked)
    BY <1>3, <2>1
  <2> QED BY <1>3, <2>2 DEF RowsGood
<1>5. SlotsOnce(e.runs)
  <2>1. \A x \in d.runs : x.of = a /\ c.slot # Never => x.slot # c.slot
    BY DEF Claimable, SlotFree
  <2>2. run.of = a /\ run.slot = c.slot
    OBVIOUS
  <2> HIDE DEF run
  <2> QED BY <1>3, <2>1, <2>2 DEF SlotsOnce, Good
<1> QED BY <1>3, <1>4, <1>5 DEF Good, e

\* The end of a run switches nothing on.
Kept(d, e) == Good(e) /\ e.runs = d.runs /\ DOMAIN e.rows = DOMAIN d.rows

LEMMA SettledKeeps ==
  ASSUME NEW d, Good(d), NEW a, NEW c, NEW outcome
  PROVE  Kept(d, Settled(d, a, c, outcome)) /\ Kept(d, Cleared(d, a))
<1>1. ASSUME NEW r, NEW e, e = [d EXCEPT !.rows[a] = r], a \in DOMAIN d.rows,
             "enabled" \in DOMAIN r, r.enabled => d.rows[a].enabled
      PROVE  Kept(d, e)
  <2>1. /\ {"rows", "runs", "asked"} \subseteq DOMAIN e
        /\ e.rows = [d.rows EXCEPT ![a] = r]
        /\ e.runs = d.runs
        /\ e.asked = d.asked
    BY <1>1 DEF Good
  <2>2. RowsGood([d.rows EXCEPT ![a] = r], d.asked)
    BY <1>1, RowChange DEF Good
  <2>3. DOMAIN e.rows = DOMAIN d.rows
    BY <2>1
  <2> QED BY <2>1, <2>2, <2>3 DEF Good, Kept
<1>2. Kept(d, Cleared(d, a))
  <2>1. CASE a \in DOMAIN d.rows
    <3> DEFINE r == [d.rows[a] EXCEPT !.running = FALSE]
    <3>1. "enabled" \in DOMAIN r /\ (r.enabled => d.rows[a].enabled)
      BY <2>1 DEF Good, RowsGood
    <3>2. Cleared(d, a) = [d EXCEPT !.rows[a] = r]
      BY <2>1 DEF Cleared
    <3> HIDE DEF r
    <3> QED BY <1>1, <2>1, <3>1, <3>2
  <2> QED BY <2>1 DEF Cleared, Kept
<1>3. ASSUME a \in DOMAIN d.rows PROVE Kept(d, Finalized(d, a, c, outcome))
  <2> DEFINE old == d.rows[a]
             on == StaysOn(old, c, outcome)
             newer == old.last > c.started
             r == [old EXCEPT !.enabled = on,
                              !.next = NextKept(old, c),
                              !.last = IF newer THEN @ ELSE now,
                              !.running = IF newer THEN @ ELSE FALSE,
                              !.failures = Failures(old, outcome)]
  <2>1. "enabled" \in DOMAIN old
    BY <1>3 DEF Good, RowsGood
  <2>2. on => old.enabled
    BY DEF StaysOn
  <2>3. "enabled" \in DOMAIN r /\ r.enabled = on
    BY <2>1
  <2>4. Finalized(d, a, c, outcome) = [d EXCEPT !.rows[a] = r]
    BY DEF Finalized
  <2> HIDE DEF r, on
  <2> QED BY <1>1, <1>3, <2>2, <2>3, <2>4
<1> QED BY <1>2, <1>3 DEF Settled

\* The start-up pass on one automation: its row, its runs.
LEMMA CaughtUpKeeps ==
  ASSUME NEW d, Good(d), NEW a \in DOMAIN d.rows, NEW outcome
  PROVE  LET e == CaughtUp(d, a, outcome)
         IN  /\ Good(e)
             /\ DOMAIN e.rows = DOMAIN d.rows
             /\ d.runs \subseteq e.runs
             /\ \A x \in e.runs \ d.runs : x.of = a
<1> DEFINE Fine(e) == /\ Good(e)
                      /\ DOMAIN e.rows = DOMAIN d.rows
                      /\ d.runs \subseteq e.runs
                      /\ \A x \in e.runs \ d.runs : x.of = a
<1>1. Fine(d)
  OBVIOUS
<1>2. Fine(Skipped(d, a))
  <2> DEFINE next == NextAfter(d.rows[a].trigger, now)
             r == [d.rows[a] EXCEPT !.next = next, !.running = FALSE]
             e == Skipped(d, a)
  <2>1. CASE next = Never
    BY <1>1, <2>1 DEF Skipped
  <2>2. CASE next # Never
    <3>1. /\ {"rows", "runs", "asked"} \subseteq DOMAIN e
          /\ e.rows = [d.rows EXCEPT ![a] = r]
          /\ e.runs = d.runs
          /\ e.asked = [d.asked EXCEPT ![a].next = Never]
      BY <2>2 DEF Skipped
    <3>2. "enabled" \in DOMAIN r /\ (r.enabled => d.rows[a].enabled)
      BY DEF Good, RowsGood
    <3> HIDE DEF r, e
    <3>3. RowsGood([d.rows EXCEPT ![a] = r], d.asked)
      BY <3>2, RowChange DEF Good
    <3>4. RowsGood(e.rows, d.asked)
      BY <3>1, <3>3
    <3>5. Good(e)
      BY <3>1, <3>4, ScheduleAsked DEF Good
    <3>6. DOMAIN e.rows = DOMAIN d.rows
      BY <3>1
    <3> QED BY <3>1, <3>5, <3>6 DEF e
  <2> QED BY <2>1, <2>2
<1>3. ASSUME NEW c, c = ClaimOf(d, a, "catch_up"), Claimable(d, a, "catch_up")
      PROVE  Fine(Settled(Claimed(d, a, c), a, c, outcome))
  <2> DEFINE e == Claimed(d, a, c)
             f == Settled(e, a, c, outcome)
  <2>1. c.slot = SlotOf("catch_up", d.rows[a])
    BY <1>3 DEF ClaimOf
  <2>2. Good(e)
    BY <1>3, <2>1, ClaimedKeeps
  <2>3. /\ DOMAIN e.rows = DOMAIN d.rows
        /\ e.runs = d.runs \cup {[id |-> c.run, of |-> a, slot |-> c.slot]}
    BY DEF Claimed
  <2>4. d.runs \subseteq e.runs /\ \A x \in e.runs \ d.runs : x.of = a
    BY <2>3
  <2> HIDE DEF e
  <2>5. Kept(e, f)
    BY <2>2, SettledKeeps
  <2> HIDE DEF f
  <2>6. Fine(f)
    BY <2>3, <2>4, <2>5 DEF Kept
  <2> HIDE DEF Fine
  <2> QED BY <2>6 DEF e, f
<1> QED BY <1>1, <1>2, <1>3 DEF CaughtUp

\* The start-up pass on all that is overdue: it sees each in the database as it
\* was, and no automation touches another's row, runs or wishes.
LEMMA EachCaughtUpKeeps ==
  ASSUME NEW d, Good(d), NEW overdue, overdue \subseteq DOMAIN d.rows, NEW outcome
  PROVE  Good(EachCaughtUp(d, overdue, outcome))
<1> DEFINE after == [a \in overdue |-> CaughtUp(d, a, outcome)]
           rows == [a \in DOMAIN d.rows |->
                      IF a \in overdue THEN after[a].rows[a] ELSE d.rows[a]]
           runs == d.runs \cup UNION {after[a].runs : a \in overdue}
           asked == [a \in DOMAIN d.asked |->
                       IF a \in overdue THEN after[a].asked[a] ELSE d.asked[a]]
<1>1. EachCaughtUp(d, overdue, outcome) = [rows |-> rows, runs |-> runs, asked |-> asked]
  BY DEF EachCaughtUp
<1>2. \A a \in overdue : /\ Good(after[a])
                         /\ DOMAIN after[a].rows = DOMAIN d.rows
                         /\ d.runs \subseteq after[a].runs
                         /\ \A x \in after[a].runs \ d.runs : x.of = a
  BY CaughtUpKeeps
<1> HIDE DEF after
<1>3. RowsGood(rows, asked)
  <2>1. /\ DOMAIN rows = DOMAIN d.rows
        /\ \A a \in overdue : rows[a] = after[a].rows[a]
        /\ \A a \in DOMAIN d.rows \ overdue : rows[a] = d.rows[a]
    OBVIOUS
  <2>2. overdue \subseteq Automations
    BY DEF Good, RowsGood
  <2>3. DOMAIN d.asked = Automations
    BY DEF Good, RowsGood
  <2>4. /\ DOMAIN asked = Automations
        /\ \A a \in overdue : asked[a] = after[a].asked[a]
        /\ \A a \in Automations \ overdue : asked[a] = d.asked[a]
    BY <2>2, <2>3
  <2> HIDE DEF rows, asked
  <2> QED BY <1>2, <2>1, <2>2, <2>4 DEF Good, RowsGood
<1>4. SlotsOnce(runs)
  <2> SUFFICES ASSUME NEW x \in runs, NEW y \in runs,
                      x.of = y.of, x.slot = y.slot, x.slot # Never
               PROVE  x = y
    BY DEF SlotsOnce
  <2>1. CASE x \in d.runs /\ y \in d.runs
    BY <2>1 DEF Good, SlotsOnce
  <2>2. ASSUME NEW a \in overdue, x \in after[a].runs \ d.runs \/ y \in after[a].runs \ d.runs
        PROVE  x = y
    <3>1. x.of = a /\ y.of = a
      BY <1>2, <2>2
    <3>2. x \in after[a].runs /\ y \in after[a].runs
      BY <1>2, <3>1
    <3> QED BY <1>2, <3>2 DEF Good, SlotsOnce
  <2> QED BY <2>1, <2>2
<1> HIDE DEF rows, runs, asked
<1> QED BY <1>1, <1>3, <1>4 DEF Good

-----------------------------------------------------------------------------
(* The database of the scheduler *)

LEMMA CommandKeeps ==
  ASSUME Good(db), NEW a \in Automations, NEW tr, NEW on \in BOOLEAN,
         Upsert(a, tr, on) \/ SetEnabled(a, on) \/ Delete(a)
  PROVE  Good(db')
<1>1. CASE Upsert(a, tr, on)
  <2> DEFINE old == IF a \in DOMAIN db.rows THEN db.rows[a] ELSE NewRow(tr)
             next == IF NextAfter(tr, now) = Never THEN old.next ELSE NextAfter(tr, now)
             row == [old EXCEPT !.enabled = on, !.trigger = tr, !.next = next]
             wish == [paused |-> ~ on, next |-> next]
             rows == [b \in DOMAIN db.rows \cup {a} |-> IF b = a THEN row ELSE db.rows[b]]
             asked == [db.asked EXCEPT ![a] = wish]
  <2>1. db' = [rows |-> rows, runs |-> db.runs, asked |-> asked]
    BY <1>1 DEF Upsert
  <2>2. "enabled" \in DOMAIN old
    BY DEF Good, RowsGood, NewRow
  <2>3. "enabled" \in DOMAIN row /\ row.enabled = on
    BY <2>2
  <2>4. "paused" \in DOMAIN wish /\ wish.paused = ~ on
    OBVIOUS
  <2> HIDE DEF row, wish
  <2>5. RowsGood(rows, asked)
    BY <2>3, <2>4 DEF Good, RowsGood
  <2> HIDE DEF rows, asked
  <2> QED BY <2>1, <2>5 DEF Good
<1>2. CASE SetEnabled(a, on)
  <2> DEFINE r == db.rows[a]
             next == IF on /\ r.next = Never THEN NextAfter(r.trigger, now) ELSE r.next
             row == [r EXCEPT !.enabled = on, !.next = next]
             wish == [db.asked[a] EXCEPT !.paused = ~ on]
             rows == [db.rows EXCEPT ![a] = row]
             asked == [db.asked EXCEPT ![a] = wish]
  <2>1. db' = [rows |-> rows, runs |-> db.runs, asked |-> asked] /\ a \in DOMAIN db.rows
    BY <1>2 DEF SetEnabled
  <2>2. "enabled" \in DOMAIN row /\ row.enabled = on
    BY <2>1 DEF Good, RowsGood
  <2>3. "paused" \in DOMAIN wish /\ wish.paused = ~ on
    BY DEF Good, RowsGood
  <2> HIDE DEF row, wish
  <2>4. RowsGood(rows, asked)
    BY <2>1, <2>2, <2>3 DEF Good, RowsGood
  <2> HIDE DEF rows, asked
  <2> QED BY <2>1, <2>4 DEF Good
<1>3. CASE Delete(a)
  <2> DEFINE rows == [b \in DOMAIN db.rows \ {a} |-> db.rows[b]]
             runs == {run \in db.runs : run.of # a}
             asked == [db.asked EXCEPT ![a] = NoWish]
  <2>1. db' = [rows |-> rows, runs |-> runs, asked |-> asked]
    BY <1>3 DEF Delete, Restrict
  <2>2. RowsGood(rows, asked)
    BY DEF Good, RowsGood, NoWish
  <2>3. SlotsOnce(runs)
    BY DEF Good, SlotsOnce
  <2> HIDE DEF rows, runs, asked
  <2> QED BY <2>1, <2>2, <2>3 DEF Good
<1> QED BY <1>1, <1>2, <1>3

LEMMA ReconciledKeeps ==
  ASSUME Good(db)
  PROVE  Good(Reconciled(db)) /\ DOMAIN Reconciled(db).rows = DOMAIN db.rows
<1> DEFINE rows == [a \in DOMAIN db.rows |-> [db.rows[a] EXCEPT !.running = FALSE]]
           d == Reconciled(db)
<1>1. /\ {"rows", "runs", "asked"} \subseteq DOMAIN d
      /\ d.rows = rows /\ d.runs = db.runs /\ d.asked = db.asked
  BY DEF Reconciled, Good
<1>2. RowsGood(rows, db.asked)
  BY DEF Good, RowsGood
<1>3. DOMAIN rows = DOMAIN db.rows
  OBVIOUS
<1> HIDE DEF rows, d
<1>4. Good(d) /\ DOMAIN d.rows = DOMAIN db.rows
  BY <1>1, <1>2, <1>3 DEF Good
<1> QED BY <1>4 DEF d

LEMMA StartKeepsDb ==
  ASSUME Good(db), StartScheduler
  PROVE  Good(db')
<1> DEFINE d == Reconciled(db)
<1>1. Good(d) /\ DOMAIN d.rows = DOMAIN db.rows
  BY ReconciledKeeps
<1> HIDE DEF d
<1>2. CASE db' = d
  BY <1>1, <1>2
<1>3. ASSUME NEW outcome, NEW prompts, db' = EachCaughtUp(d, Due(db) \ prompts, outcome)
      PROVE  Good(db')
  <2>1. Due(db) \ prompts \subseteq DOMAIN d.rows
    BY <1>1 DEF Due
  <2> QED BY <1>1, <1>3, <2>1, EachCaughtUpKeeps
<1> QED BY <1>2, <1>3 DEF StartScheduler, d

LEMMA DbStep == DbGood /\ [Next]_vars => DbGood'
<1> SUFFICES ASSUME DbGood, [Next]_vars PROVE DbGood'
  OBVIOUS
<1>1. CASE UNCHANGED <<db, saved>> /\ (Restorable => Restorable')
  BY <1>1, Zenon DEF DbGood, Good, RowsGood, SlotsOnce, GoodBackup
<1>2. CASE Good(db') /\ UNCHANGED <<saved, restore>>
  BY <1>2, Zenon DEF DbGood, Good, RowsGood, SlotsOnce, GoodBackup, Restorable
<1>3. ASSUME NEW w \in workers, Claim(w) \/ Refuse(w) \/ Finish(w) \/ FinishFails(w)
      PROVE  DbGood'
  <2>1. CASE Claim(w)
    <3>1. PICK c \in {ClaimOf(db, w.of, w.origin)} : db' = Claimed(db, w.of, c)
      BY <2>1 DEF Claim
    <3>2. Claimable(db, w.of, w.origin) /\ c.slot = SlotOf(w.origin, db.rows[w.of])
      BY <2>1, <3>1 DEF Claim, ClaimOf
    <3>3. Good(db')
      BY <3>1, <3>2, ClaimedKeeps DEF DbGood
    <3> QED BY <1>2, <2>1, <3>3 DEF Claim, handle
  <2>2. CASE Refuse(w)
    BY <1>1, <2>2 DEF Refuse, handle, Restorable
  <2>3. CASE Finish(w)
    <3>1. PICK outcome : db' = Settled(db, w.of, w.claim, outcome)
      BY <2>3 DEF Finish
    <3>2. Good(db')
      BY <3>1, SettledKeeps DEF DbGood, Kept
    <3> QED BY <1>2, <2>3, <3>2 DEF Finish
  <2>4. CASE FinishFails(w)
    <3>1. db' = db \/ db' = Cleared(db, w.of)
      BY <2>4 DEF FinishFails
    <3>2. Good(db')
      BY <3>1, SettledKeeps DEF DbGood, Kept
    <3> QED BY <1>2, <2>4, <3>2 DEF FinishFails
  <2> QED BY <1>3, <2>1, <2>2, <2>3, <2>4
<1>4. CASE StartScheduler
  BY <1>2, <1>4, StartKeepsDb DEF DbGood, StartScheduler
<1>5. ASSUME NEW a \in Edited, NEW on \in BOOLEAN, NEW tr,
             Delete(a) \/ SetEnabled(a, on) \/ Upsert(a, tr, on)
      PROVE  DbGood'
  <2>1. Good(db')
    BY <1>5, CommandKeeps, AutomationAssumption DEF DbGood
  <2> QED BY <1>2, <1>5, <2>1 DEF Delete, SetEnabled, Upsert, handle
<1>6. CASE Backup
  <2>1. saved' = <<db>> /\ db' = db
    BY <1>6 DEF Backup
  <2>2. saved'[1] = db /\ saved' # << >> /\ (Restorable => Restorable')
    BY <1>6, <2>1 DEF Backup, handle, Restorable
  <2> QED BY <2>1, <2>2, Zenon DEF DbGood, Good, RowsGood, SlotsOnce, GoodBackup
<1>7. CASE Install
  <2>1. saved # << >> /\ db' = saved[1] /\ saved' = <<db>>
    BY <1>7 DEF Install, DbGood, GoodBackup, Restorable
  <2>2. saved'[1] = db /\ saved' # << >> /\ restore' = "swapped"
    BY <1>7, <2>1 DEF Install
  <2>3. Good(db') /\ Good(saved'[1])
    BY <2>1, <2>2, Zenon DEF DbGood, GoodBackup, Good, RowsGood, SlotsOnce
  <2> QED BY <2>2, <2>3, Zenon DEF DbGood, Good, RowsGood, SlotsOnce, GoodBackup, Restorable
<1>11. CASE SwapAssets \/ AssetsFail
  <2>1. saved' = << >> /\ saved # << >> /\ (db' = db \/ db' = saved[1])
        /\ restore' \in {"installed", "retained"}
    BY <1>11 DEF SwapAssets, AssetsFail, DbGood, GoodBackup, Restorable
  <2>2. Good(db')
    BY <2>1, Zenon DEF DbGood, GoodBackup, Good, RowsGood, SlotsOnce
  <2> QED BY <2>1, <2>2, Zenon DEF DbGood, Good, RowsGood, SlotsOnce, GoodBackup, Restorable
<1>8. ASSUME NEW a, Tick \/ RunNow(a) \/ Clock \/ SetBack
                    \/ AbandonRestore \/ InstallFails \/ EndRestore
      PROVE  DbGood'
  <2>1. UNCHANGED <<db, saved>> /\ (restore' = restore \/ restore' \in {"none", "retained"})
    BY <1>8 DEF Tick, RunNow, Clock, SetBack, AbandonRestore, InstallFails, EndRestore, handle
  <2> QED BY <1>1, <2>1 DEF Restorable
<1>9. CASE BeginRestore
  <2>1. UNCHANGED <<db, saved>> /\ saved # << >> /\ restore' = "staging"
    BY <1>9 DEF BeginRestore
  <2> QED BY <1>1, <2>1 DEF Restorable
<1>12. CASE Crash
  <2>1. restore' \in {"none", "recovery"}
    <3>1. restore \in {"none", "staging", "swapped", "installed", "retained", "recovery"}
      BY DEF DbGood, GoodBackup, Restorable
    <3> QED BY <1>12, <3>1 DEF Crash, Leftovers
  <2>2. db' = db \/ (saved # << >> /\ db' = saved[1])
    BY <1>12 DEF Crash, DbGood, GoodBackup, Restorable
  <2>3. Good(db')
    BY <2>2, Zenon DEF DbGood, GoodBackup, Good, RowsGood, SlotsOnce
  <2>4. saved' = << >> \/ saved' = saved
    BY <1>12 DEF Crash
  <2>5. saved' = << >> \/ Good(saved'[1])
    BY <2>4, Zenon DEF DbGood, GoodBackup, Good, RowsGood, SlotsOnce
  <2> QED BY <2>1, <2>3, <2>5, Zenon DEF DbGood, Good, RowsGood, SlotsOnce, GoodBackup, Restorable
<1>10. CASE UNCHANGED vars
  BY <1>1, <1>10 DEF vars, handle, Restorable
<1> QED BY <1>3, <1>4, <1>5, <1>6, <1>7, <1>8, <1>9, <1>10, <1>11, <1>12 DEF Next

-----------------------------------------------------------------------------

LEMMA InvInit == Init => IInv
<1> SUFFICES ASSUME Init PROVE IInv
  OBVIOUS
<1> DEFINE rows == [a \in Automations |-> NewRow(Trigger[a])]
           asked == [a \in Automations |-> NoWish]
<1>1. AtWork
  BY DEF Init, AtWork, NoOverlap
<1>2. db = [rows |-> rows, runs |-> {}, asked |-> asked] /\ saved = << >> /\ restore = "none"
  BY DEF Init
<1>3. RowsGood(rows, asked)
  BY DEF RowsGood, NewRow, NoWish
<1>4. SlotsOnce({})
  BY DEF SlotsOnce
<1> HIDE DEF rows, asked
<1> QED BY <1>1, <1>2, <1>3, <1>4 DEF IInv, DbGood, GoodBackup, Good, Restorable

LEMMA InvStep == IInv /\ [Next]_vars => IInv'
<1> SUFFICES ASSUME IInv, [Next]_vars PROVE IInv'
  OBVIOUS
<1>1. AtWork' /\ DbGood'
  BY WorkersStep, DbStep DEF IInv
<1> QED BY <1>1 DEF IInv

THEOREM RunsKept == Spec => []IInv
<1> QED BY InvInit, InvStep, PTL DEF Spec

\* No automation is executed by two runs at a time, over ticks, "run now",
\* stale claims, crashes and restores (SchedulerHandle::try_begin and end).
THEOREM RunsDoNotOverlap == Spec => []NoOverlap
<1>1. IInv => NoOverlap
  BY DEF IInv, AtWork
<1> QED BY <1>1, RunsKept, PTL

\* No scheduled slot is run twice, whatever becomes of clock and schedule
\* (claim_run's automation_scheduled_slots).
THEOREM SlotsRunOnce == Spec => []SlotOnce
<1>1. IInv => SlotOnce
  BY DEF IInv, DbGood, Good, SlotsOnce, SlotOnce
<1> QED BY <1>1, RunsKept, PTL

\* What the user paused stays paused until the user says otherwise, over every
\* run claimed before, start-up and restore (finalize_run's final_enabled).
THEOREM PausesHold == Spec => []PauseHolds
<1>1. IInv => PauseHolds
  BY DEF IInv, DbGood, Good, RowsGood, PauseHolds
<1> QED BY <1>1, RunsKept, PTL

-----------------------------------------------------------------------------
(* What a database holds *)

Times == Nat \cup {Never}
Rows == [enabled : BOOLEAN, trigger : Triggers, next : Times, last : Times,
         running : BOOLEAN, failures : Nat]
Wishes == [paused : BOOLEAN, next : Times]
Runs == [id : Nat, of : Automations, slot : Times]
Claims == [run : Nat, slot : Times, trigger : Triggers, was : Times, next : Times,
           started : Nat, schedulable : BOOLEAN]

Typed(d) ==
  /\ d = [rows |-> d.rows, runs |-> d.runs, asked |-> d.asked]
  /\ DOMAIN d.rows \subseteq Automations
  /\ d.rows \in [DOMAIN d.rows -> Rows]
  /\ d.runs \subseteq Runs
  /\ IsFiniteSet(d.runs)
  /\ d.asked \in [Automations -> Wishes]

\* The database and the backup, if there is one.
Bases == {db} \cup Range(saved)

TypedWorker(w) ==
  /\ w = [of |-> w.of, origin |-> w.origin, stage |-> w.stage, claim |-> w.claim]
  /\ w.of \in Automations
  /\ w.stage \in {"begun", "claimed"}
  /\ w.stage = "claimed" => w.claim \in Claims

TypedInv ==
  /\ \E d : saved \in {<< >>, << d >>}
  /\ \A d \in Bases : Typed(d)
  /\ \A w \in workers : TypedWorker(w)
  /\ \A a \in running : \E w \in workers : w.of = a
  /\ running \subseteq Automations
  /\ commands \in 0..MaxCommands
  /\ now \in 0..MaxTime

-----------------------------------------------------------------------------
(* The schedule of a trigger *)

LEMMA DailyNext ==
  ASSUME NEW e \in Nat \ {0}, NEW s \in Nat, NEW t \in Nat, s <= t
  PROVE  /\ (s \div e + 1) * e \in Nat
         /\ (s \div e + 1) * e <= (t \div e + 1) * e
<1> DEFINE m == s \div e
           n == t \div e
<1>1. m \in Nat /\ n \in Nat /\ m <= n
  <2>1. m \in Nat /\ n \in Nat
    BY SMT
  <2>2. m <= n
    BY SMT
  <2> QED BY <2>1, <2>2
<1> HIDE DEF m, n
<1>2. (m + 1) * e \in Nat
  BY <1>1
<1>3. (m + 1) * e <= (n + 1) * e
  <2>1. PICK k \in Nat : n = m + k
    BY <1>1
  <2>2. (n + 1) * e = (m + 1) * e + k * e /\ k * e \in Nat
    BY <1>1, <2>1
  <2> QED BY <1>2, <2>2
<1> QED BY <1>2, <1>3 DEF m, n

\* compute_next_after gives times, and no earlier one at a later moment.
LEMMA NextAfterGrows ==
  ASSUME NEW tr \in Triggers, NEW s \in Nat, NEW t \in Nat, s <= t
  PROVE  /\ NextAfter(tr, s) \in Times
         /\ Computable(tr) => /\ NextAfter(tr, s) \in Nat
                              /\ NextAfter(tr, s) <= NextAfter(tr, t)
<1>1. tr.every \in Nat \ {0} /\ tr.kind \in {"interval", "daily", "unknown_zone"}
  BY AutomationAssumption
<1>2. CASE tr.kind = "interval"
  BY <1>1, <1>2 DEF NextAfter, Times
<1>3. CASE tr.kind = "daily"
  <2>1. NextAfter(tr, s) = (s \div tr.every + 1) * tr.every
    BY <1>3 DEF NextAfter
  <2>2. NextAfter(tr, t) = (t \div tr.every + 1) * tr.every
    BY <1>3 DEF NextAfter
  <2> QED BY <1>1, <2>1, <2>2, DailyNext DEF Times
<1>4. CASE tr.kind = "unknown_zone"
  BY <1>4 DEF NextAfter, Times, Computable
<1> QED BY <1>1, <1>2, <1>3, <1>4

-----------------------------------------------------------------------------
(* The id of a run *)

LEMMA IdsFinite ==
  ASSUME NEW S, IsFiniteSet(S)
  PROVE  IsFiniteSet({x.id : x \in S})
<1> DEFINE T == {x.id : x \in S}
           f == [x \in S |-> x.id]
<1>1. f \in Surjection(S, T)
  BY DEF Surjection
<1> QED BY <1>1, FS_Surjection

\* More numbers than are taken leave one free.
LEMMA FreeNumber ==
  ASSUME NEW taken, IsFiniteSet(taken)
  PROVE  \E id \in 1..(Cardinality(taken) + 1) : id \notin taken
<1> DEFINE n == Cardinality(taken)
<1>1. n \in Nat
  BY FS_CardinalityType
<1> HIDE DEF n
<1> SUFFICES ASSUME 1..(n + 1) \subseteq taken PROVE FALSE
  BY DEF n
<1>2. Cardinality(1..(n + 1)) = n + 1
  BY <1>1, FS_Interval
<1>3. Cardinality(1..(n + 1)) <= n
  BY FS_Subset DEF n
<1> QED BY <1>1, <1>2, <1>3

\* A new run has an id that no run of its automation has, in the database or in
\* the backup: a backup does not know it.
LEMMA FreshRunIsFresh ==
  ASSUME NEW d, Typed(d), TypedInv, NoOverlap, NEW a
  PROVE  /\ FreshRun(d, a) \in Nat
         /\ \A e \in {d} \cup Range(saved) : \A run \in e.runs :
              run.of = a => run.id # FreshRun(d, a)
<1> DEFINE runs == UNION {data.runs : data \in {d} \cup Range(saved)}
           own == {x \in runs : x.of = a}
           hands == {v \in workers : v.of = a /\ v.stage = "claimed"}
           held == {w.claim.run : w \in hands}
           ids == {run.id : run \in own}
           taken == ids \cup held
<1>1. IsFiniteSet(runs)
  <2>1. PICK b : saved \in {<< >>, << b >>}
    BY DEF TypedInv
  <2>2. CASE saved = << >>
    <3>1. runs = d.runs
      BY <2>2 DEF Range
    <3> QED BY <3>1 DEF Typed
  <2>3. CASE saved = << b >>
    <3>1. Range(saved) = {b}
      BY <2>3 DEF Range
    <3>2. runs = d.runs \cup b.runs
      BY <3>1
    <3>3. IsFiniteSet(b.runs) /\ IsFiniteSet(d.runs)
      BY <3>1 DEF TypedInv, Bases, Typed
    <3> QED BY <3>2, <3>3, FS_Union
  <2> QED BY <2>1, <2>2, <2>3
<1>2. IsFiniteSet(ids)
  <2>1. own \subseteq runs
    OBVIOUS
  <2> HIDE DEF runs
  <2>2. IsFiniteSet(own)
    BY <1>1, <2>1, FS_Subset
  <2> HIDE DEF own
  <2> QED BY <2>2, IdsFinite
<1>3. IsFiniteSet(held)
  <2>1. CASE hands = {}
    <3>1. held = {}
      BY <2>1
    <3> QED BY <3>1, FS_EmptySet
  <2>2. ASSUME NEW x \in hands PROVE IsFiniteSet(held)
    <3>1. \A v \in hands : v = x
      BY DEF NoOverlap
    <3>2. held = {x.claim.run}
      BY <3>1
    <3> QED BY <3>2, FS_Singleton
  <2> QED BY <2>1, <2>2
<1> DEFINE id == FreshRun(d, a)
<1>4. id = CHOOSE i \in 1..(Cardinality(taken) + 1) : i \notin taken
  BY DEF FreshRun
<1>5. IsFiniteSet(taken)
  <2> HIDE DEF ids, held
  <2> QED BY <1>2, <1>3, FS_Union
<1>6. id \in 1..(Cardinality(taken) + 1) /\ id \notin taken
  <2> HIDE DEF taken, id
  <2>1. \E i \in 1..(Cardinality(taken) + 1) : i \notin taken
    BY <1>5, FreeNumber
  <2> QED BY <1>4, <2>1
<1>7. Cardinality(taken) \in Nat
  BY <1>5, FS_CardinalityType
<1>8. id \in Nat
  <2> HIDE DEF taken, id
  <2> QED BY <1>6, <1>7
<1>9. ASSUME NEW e \in {d} \cup Range(saved), NEW run \in e.runs, run.of = a
      PROVE  run.id # id
  <2>1. run \in own
    BY <1>9
  <2> HIDE DEF own, id
  <2> QED BY <1>6, <2>1
<1> QED BY <1>8, <1>9

-----------------------------------------------------------------------------
(* One automation in one database.  W stands for workers, t for the clock. *)

RunsOf(d, a) == {run \in d.runs : run.of = a}

\* The database holds the run that w works on.
Knows(d, w) == \E run \in RunsOf(d, w.of) : run.id = w.claim.run

Pending(d, a, W) == {w \in W : w.of = a /\ w.stage = "claimed" /\ Knows(d, w)}

\* A run fails once at most: the one under way has not been counted.
CountGood(d, a, W) ==
  /\ d.rows[a].failures <= Cardinality(RunsOf(d, a))
  /\ \A w \in Pending(d, a, W) : d.rows[a].failures < Cardinality(RunsOf(d, a))

\* A claim that would move the schedule does not find what the user asked since.
Yields(d, a, c) ==
  d.rows[a].trigger = c.trigger /\ d.rows[a].next = c.was /\ d.asked[a].next # Never
    => c.next = c.was

ScheduleGood(d, a, t, W) ==
  Computable(d.rows[a].trigger) =>
    /\ \E s \in 0..t : d.rows[a].next = NextAfter(d.rows[a].trigger, s)
    /\ d.asked[a].next # Never => d.rows[a].next = d.asked[a].next
    /\ \A w \in Pending(d, a, W) : Yields(d, a, w.claim)

\* h: the clock was never set back.
RowGood(d, a, t, h, W) == CountGood(d, a, W) /\ (h => ScheduleGood(d, a, t, W))

\* A claim is of the past and found a schedule that was computed before.
ClaimSound(c, t) ==
  /\ c.started <= t
  /\ Computable(c.trigger) =>
       /\ \E s \in 0..c.started : c.was = NextAfter(c.trigger, s)
       /\ c.next \in {c.was, NextAfter(c.trigger, c.started)}

\* e has the automation as d has it, as far as schedule and failures go.
Same(d, e, a) ==
  /\ a \in DOMAIN d.rows
  /\ e.rows[a].trigger = d.rows[a].trigger
  /\ e.rows[a].next = d.rows[a].next
  /\ e.rows[a].failures = d.rows[a].failures
  /\ e.asked[a].next = d.asked[a].next
  /\ RunsOf(e, a) = RunsOf(d, a)

\* From d to e only a's entry changes.
OnlyAt(d, e, a) == Typed(e) /\ \A b \in DOMAIN e.rows \ {a} : Same(d, e, b)

LEMMA SameGood ==
  ASSUME NEW d, NEW e, NEW a, Same(d, e, a), NEW s \in Nat, NEW t \in Nat, s <= t,
         NEW h, NEW W, RowGood(d, a, s, h, W),
         NEW V, Pending(e, a, V) \subseteq W
  PROVE  RowGood(e, a, t, h, V)
<1>1. Pending(e, a, V) \subseteq Pending(d, a, W)
  BY DEF Pending, Knows, Same
<1>2. CountGood(e, a, V)
  BY <1>1 DEF CountGood, Same, RowGood
<1>3. ASSUME h PROVE ScheduleGood(e, a, t, V)
  BY <1>1, <1>3 DEF ScheduleGood, Yields, Same, RowGood
<1> QED BY <1>2, <1>3 DEF RowGood

LEMMA SamePending ==
  ASSUME NEW d, NEW e, \A b : RunsOf(e, b) = RunsOf(d, b), NEW a, NEW W
  PROVE  Pending(e, a, W) = Pending(d, a, W)
<1>1. \A w : Knows(e, w) <=> Knows(d, w)
  BY DEF Knows
<1> QED BY <1>1 DEF Pending

LEMMA RunsFinite ==
  ASSUME NEW d, Typed(d), NEW a
  PROVE  IsFiniteSet(RunsOf(d, a)) /\ Cardinality(RunsOf(d, a)) \in Nat
<1>1. RunsOf(d, a) \subseteq d.runs
  BY DEF RunsOf
<1> QED BY <1>1, FS_Subset, FS_CardinalityType DEF Typed

\* claim_run: the new run is not yet counted, and what the user asked is settled
\* unless the schedule stays.
LEMMA ClaimedGood ==
  ASSUME TypedInv, NoOverlap, NEW d, Typed(d), NEW a, NEW origin, Claimable(d, a, origin),
         NEW h, NEW W, RowGood(d, a, now, h, W),
         NEW c, c = ClaimOf(d, a, origin),
         NEW e, e = Claimed(d, a, c)
  PROVE  /\ c \in Claims
         /\ h => ClaimSound(c, now)
         /\ OnlyAt(d, e, a)
         /\ DOMAIN e.rows = DOMAIN d.rows
         /\ \A w : w.of = a /\ w.claim = c => RowGood(e, a, now, h, {w})
<1> DEFINE r == d.rows[a]
           run == [id |-> c.run, of |-> a, slot |-> c.slot]
           row == [r EXCEPT !.enabled = c.schedulable, !.next = c.next,
                            !.last = now, !.running = TRUE]
           wish == [d.asked[a] EXCEPT !.next = IF c.next = c.was THEN @ ELSE Never]
<1>1. a \in DOMAIN d.rows /\ a \in Automations
  BY DEF Claimable, Typed
<1>2. r \in Rows /\ d.asked[a] \in Wishes /\ now \in Nat
  BY <1>1, AutomationAssumption DEF Typed, TypedInv
<1>3. FreshRun(d, a) \in Nat /\ \A x \in RunsOf(d, a) : x.id # FreshRun(d, a)
  BY FreshRunIsFresh DEF RunsOf
<1>4. NextAfter(r.trigger, now) \in Times
  BY <1>2, NextAfterGrows DEF Rows
<1>5. /\ c.run = FreshRun(d, a) /\ c.slot = SlotOf(origin, r) /\ c.trigger = r.trigger
      /\ c.was = r.next /\ c.next = NextOf(origin, r) /\ c.started = now
      /\ c.schedulable = (origin = "manual" \/ NextOf(origin, r) # Never)
      /\ c = [run |-> c.run, slot |-> c.slot, trigger |-> c.trigger, was |-> c.was,
              next |-> c.next, started |-> c.started, schedulable |-> c.schedulable]
  BY DEF ClaimOf
<1>6. c.next \in {r.next, NextAfter(r.trigger, now)} /\ c.slot \in {r.next, Never}
  BY <1>5 DEF NextOf, SlotOf
<1>7. c \in Claims
  <2>1. r.next \in Times /\ r.trigger \in Triggers /\ Never \in Times
    BY <1>2 DEF Rows, Times
  <2>2. c.schedulable \in BOOLEAN /\ c.started \in Nat /\ c.run \in Nat
    BY <1>2, <1>3, <1>5
  <2>3. c.next \in Times /\ c.slot \in Times /\ c.was \in Times /\ c.trigger \in Triggers
    BY <1>4, <1>5, <1>6, <2>1
  <2> HIDE DEF r
  <2> QED BY <1>5, <2>2, <2>3 DEF Claims
<1>8. e = [rows |-> [d.rows EXCEPT ![a] = row], runs |-> d.runs \cup {run},
           asked |-> [d.asked EXCEPT ![a] = wish]]
  BY DEF Claimed
<1>9. row \in Rows /\ row.trigger = r.trigger /\ row.next = c.next /\ row.failures = r.failures
  BY <1>2, <1>7 DEF Rows, Claims, Times
<1>10. /\ wish \in Wishes
       /\ wish.next = IF c.next = c.was THEN d.asked[a].next ELSE Never
  BY <1>2 DEF Wishes, Times
<1>11. run \in Runs /\ run.id = c.run /\ run.of = a
  BY <1>1, <1>7 DEF Claims, Runs
<1>12. \A b \in DOMAIN d.rows \ {a} : Same(d, e, b)
  <2> HIDE DEF row, wish, r
  <2>1. ASSUME NEW b \in DOMAIN d.rows \ {a}
        PROVE  e.rows[b] = d.rows[b] /\ e.asked[b] = d.asked[b]
    BY <1>8, <2>1 DEF Typed
  <2>2. ASSUME NEW b \in DOMAIN d.rows \ {a} PROVE RunsOf(e, b) = RunsOf(d, b)
    <3> HIDE DEF run
    <3> QED BY <1>8, <1>11, <2>2 DEF RunsOf
  <2> QED BY <2>1, <2>2 DEF Same
<1>13. DOMAIN e.rows = DOMAIN d.rows
  BY <1>8
<1>14. Typed(e)
  <2> HIDE DEF row, wish, run, r
  <2>1. e = [rows |-> e.rows, runs |-> e.runs, asked |-> e.asked]
    BY <1>8
  <2>2. e.rows \in [DOMAIN e.rows -> Rows]
    <3>1. e.rows = [d.rows EXCEPT ![a] = row]
      BY <1>8
    <3> QED BY <1>9, <3>1 DEF Typed
  <2>4. e.asked \in [Automations -> Wishes]
    <3>1. e.asked = [d.asked EXCEPT ![a] = wish]
      BY <1>8
    <3> QED BY <1>10, <3>1 DEF Typed
  <2>3. e.runs \subseteq Runs /\ IsFiniteSet(e.runs)
    BY <1>8, <1>11, FS_AddElement DEF Typed
  <2> QED BY <1>13, <2>1, <2>2, <2>3, <2>4 DEF Typed
<1>15. Cardinality(RunsOf(e, a)) = Cardinality(RunsOf(d, a)) + 1
  <2>1. run \notin RunsOf(d, a)
    BY <1>3, <1>5, <1>11
  <2>2. RunsOf(e, a) = RunsOf(d, a) \cup {run}
    <3> HIDE DEF run, row, wish, r
    <3> QED BY <1>8, <1>11 DEF RunsOf
  <2> HIDE DEF run
  <2> QED BY <2>1, <2>2, RunsFinite, FS_AddElement
<1>16. /\ e.rows[a] = row /\ e.asked[a] = wish
  <2> HIDE DEF row, wish, run, r
  <2> QED BY <1>1, <1>8 DEF Typed
<1>17. ASSUME NEW w, w.of = a, w.claim = c PROVE RowGood(e, a, now, h, {w})
  <2>1. CountGood(e, a, {w})
    <3>1. r.failures \in Nat /\ r.failures <= Cardinality(RunsOf(d, a))
      BY <1>2 DEF Rows, RowGood, CountGood
    <3> HIDE DEF r, row
    <3> QED BY <1>9, <1>15, <1>16, <3>1, RunsFinite DEF CountGood
  <2>2. ASSUME h, Computable(r.trigger)
        PROVE  /\ \E s \in 0..now : c.next = NextAfter(r.trigger, s)
               /\ wish.next # Never => c.next = wish.next
               /\ wish.next # Never => c.next = c.was
    <3>1. \E s \in 0..now : r.next = NextAfter(r.trigger, s)
      BY <2>2 DEF RowGood, ScheduleGood
    <3>2. d.asked[a].next # Never => r.next = d.asked[a].next
      BY <2>2 DEF RowGood, ScheduleGood
    <3> HIDE DEF r, wish
    <3>3. now \in 0..now
      BY <1>2
    <3> QED BY <1>5, <1>6, <1>10, <3>1, <3>2, <3>3
  <2>3. ASSUME h PROVE ScheduleGood(e, a, now, {w})
    <3> HIDE DEF r, row, wish, run
    <3>1. Pending(e, a, {w}) \subseteq {w}
      BY DEF Pending
    <3> QED BY <1>9, <1>16, <1>17, <2>2, <2>3, <3>1, Zenon DEF ScheduleGood, Yields
  <2> QED BY <2>1, <2>3 DEF RowGood
<1>18. ASSUME h PROVE ClaimSound(c, now)
  <2>1. Computable(r.trigger) => \E s \in 0..now : r.next = NextAfter(r.trigger, s)
    BY <1>18 DEF RowGood, ScheduleGood
  <2> HIDE DEF r
  <2> QED BY <1>2, <1>5, <1>6, <2>1 DEF ClaimSound
<1> QED BY <1>7, <1>12, <1>13, <1>14, <1>17, <1>18 DEF OnlyAt

\* A changed row and a changed wish of a, the runs untouched.
With(d, a, row, wish) ==
  [rows |-> [d.rows EXCEPT ![a] = row], runs |-> d.runs,
   asked |-> [d.asked EXCEPT ![a] = wish]]

LEMMA EntryChanged ==
  ASSUME NEW d, Typed(d), NEW a \in DOMAIN d.rows, NEW row \in Rows, NEW wish \in Wishes,
         NEW e, e = With(d, a, row, wish)
  PROVE  /\ OnlyAt(d, e, a)
         /\ DOMAIN e.rows = DOMAIN d.rows
         /\ e.rows[a] = row /\ e.asked[a] = wish
         /\ \A b : RunsOf(e, b) = RunsOf(d, b)
<1>1. /\ e.rows = [d.rows EXCEPT ![a] = row]
      /\ e.runs = d.runs
      /\ e.asked = [d.asked EXCEPT ![a] = wish]
      /\ e = [rows |-> e.rows, runs |-> e.runs, asked |-> e.asked]
  BY DEF With
<1>2. a \in Automations
  BY DEF Typed
<1>3. \A b : RunsOf(e, b) = RunsOf(d, b)
  BY <1>1 DEF RunsOf
<1>4. DOMAIN e.rows = DOMAIN d.rows /\ e.rows \in [DOMAIN e.rows -> Rows]
  BY <1>1 DEF Typed
<1>5. e.asked \in [Automations -> Wishes]
  BY <1>1 DEF Typed
<1>6. Typed(e)
  BY <1>1, <1>4, <1>5 DEF Typed
<1>7. \A b \in DOMAIN e.rows \ {a} : Same(d, e, b)
  <2>1. ASSUME NEW b \in DOMAIN d.rows \ {a}
        PROVE  e.rows[b] = d.rows[b] /\ e.asked[b] = d.asked[b]
    BY <1>1, <2>1 DEF Typed
  <2> QED BY <1>3, <1>4, <2>1 DEF Same
<1>8. e.rows[a] = row /\ e.asked[a] = wish
  BY <1>1, <1>2 DEF Typed
<1> QED BY <1>3, <1>4, <1>6, <1>7, <1>8 DEF OnlyAt

\* finalize_run and clear_stuck_running_claim: a failure is counted against the
\* run under way, and the schedule of the claim yields to what was asked since.
LEMMA SettledGood ==
  ASSUME NEW d, Typed(d), NEW a, NEW w, w.of = a, w.stage = "claimed",
         w.claim \in Claims, now \in Nat, NEW h, h => ClaimSound(w.claim, now),
         a \in DOMAIN d.rows => RowGood(d, a, now, h, {w}),
         NEW outcome \in {"success", "failure", "parked"},
         NEW e, e = Settled(d, a, w.claim, outcome) \/ e = Cleared(d, a)
  PROVE  /\ OnlyAt(d, e, a)
         /\ DOMAIN e.rows = DOMAIN d.rows
         /\ a \in DOMAIN d.rows => RowGood(e, a, now, h, {})
<1> DEFINE c == w.claim
           r == d.rows[a]
           Fine(x) == /\ OnlyAt(d, x, a)
                      /\ DOMAIN x.rows = DOMAIN d.rows
                      /\ a \in DOMAIN d.rows => RowGood(x, a, now, h, {})
<1>1. a \in DOMAIN d.rows => r \in Rows /\ d.asked[a] \in Wishes /\ a \in Automations
  BY DEF Typed
<1>2. CASE a \notin DOMAIN d.rows
  <2>1. e = d
    BY <1>2 DEF Settled, Cleared
  <2> QED BY <1>2, <2>1 DEF OnlyAt, Same
<1>3. ASSUME a \in DOMAIN d.rows PROVE Fine(Cleared(d, a))
  <2> DEFINE row == [r EXCEPT !.running = FALSE]
             x == Cleared(d, a)
  <2>1. row \in Rows /\ row.trigger = r.trigger /\ row.next = r.next /\ row.failures = r.failures
    BY <1>1, <1>3 DEF Rows
  <2>2. x = With(d, a, row, d.asked[a])
    <3>1. d.asked = [d.asked EXCEPT ![a] = d.asked[a]]
      BY DEF Typed
    <3>2. d = [rows |-> d.rows, runs |-> d.runs, asked |-> d.asked]
      BY DEF Typed
    <3>3. x = [d EXCEPT !.rows[a] = row]
      BY <1>3 DEF Cleared
    <3> HIDE DEF x, row, r
    <3> QED BY <3>1, <3>2, <3>3 DEF With
  <2> HIDE DEF x, row, r
  <2>3. /\ OnlyAt(d, x, a) /\ DOMAIN x.rows = DOMAIN d.rows
        /\ x.rows[a] = row /\ x.asked[a] = d.asked[a]
        /\ \A b : RunsOf(x, b) = RunsOf(d, b)
    BY <1>1, <1>3, <2>1, <2>2, EntryChanged
  <2>4. Same(d, x, a)
    BY <1>3, <2>1, <2>3 DEF Same, r
  <2>5. RowGood(x, a, now, h, {})
    <3>1. Pending(x, a, {}) \subseteq {w}
      BY DEF Pending
    <3> QED BY <1>3, <2>4, <3>1, SameGood
  <2> QED BY <2>3, <2>5 DEF x
<1>4. ASSUME a \in DOMAIN d.rows, \E run \in d.runs : run.of = a /\ run.id = c.run
      PROVE  Fine(Finalized(d, a, c, outcome))
  <2> DEFINE on == StaysOn(r, c, outcome)
             next == NextKept(r, c)
             newer == r.last > c.started
             failures == Failures(r, outcome)
             row == [r EXCEPT !.enabled = on,
                              !.next = next,
                              !.last = IF newer THEN @ ELSE now,
                              !.running = IF newer THEN @ ELSE FALSE,
                              !.failures = failures]
             x == Finalized(d, a, c, outcome)
  <2>1. on \in BOOLEAN
    BY <1>1, <1>4 DEF StaysOn, Rows
  <2>2. next \in Times /\ next \in {r.next, c.next}
    BY <1>1, <1>4 DEF NextKept, Rows, Claims
  <2>3. failures \in Nat /\ failures <= r.failures + 1
    BY <1>1, <1>4 DEF Failures, Rows
  <2>4. row \in Rows /\ row.trigger = r.trigger /\ row.next = next /\ row.failures = failures
    <3> HIDE DEF on, next, failures
    <3>1. (IF newer THEN r.last ELSE now) \in Times /\ (IF newer THEN r.running ELSE FALSE) \in BOOLEAN
      BY <1>1, <1>4 DEF Rows, Times
    <3> QED BY <1>1, <1>4, <2>1, <2>2, <2>3, <3>1 DEF Rows
  <2>5. x = With(d, a, row, d.asked[a])
    <3>1. d.asked = [d.asked EXCEPT ![a] = d.asked[a]]
      BY DEF Typed
    <3>2. d = [rows |-> d.rows, runs |-> d.runs, asked |-> d.asked]
      BY DEF Typed
    <3>3. x = [d EXCEPT !.rows[a] = row]
      BY <1>4 DEF Finalized
    <3> HIDE DEF x, row, r
    <3> QED BY <3>1, <3>2, <3>3 DEF With
  <2> HIDE DEF x, row
  <2>6. /\ OnlyAt(d, x, a) /\ DOMAIN x.rows = DOMAIN d.rows
        /\ x.rows[a] = row /\ x.asked[a] = d.asked[a]
        /\ \A b : RunsOf(x, b) = RunsOf(d, b)
    BY <1>1, <1>4, <2>4, <2>5, EntryChanged
  <2>7. w \in Pending(d, a, {w})
    BY <1>4 DEF Pending, Knows, RunsOf
  <2>8. Pending(x, a, {}) = {}
    BY DEF Pending
  <2>9. CountGood(x, a, {})
    <3>1. r.failures < Cardinality(RunsOf(d, a))
      BY <1>4, <2>7 DEF RowGood, CountGood
    <3>2. r.failures \in Nat /\ Cardinality(RunsOf(d, a)) \in Nat
      BY <1>1, <1>4, RunsFinite DEF Rows
    <3> HIDE DEF r, failures
    <3>3. failures <= Cardinality(RunsOf(d, a))
      BY <2>3, <3>1, <3>2
    <3> QED BY <2>4, <2>6, <2>8, <3>3 DEF CountGood
  <2>10. ASSUME h, Computable(r.trigger)
         PROVE  /\ \E s \in 0..now : next = NextAfter(r.trigger, s)
                /\ d.asked[a].next # Never => next = d.asked[a].next
    <3>1. /\ \E s \in 0..now : r.next = NextAfter(r.trigger, s)
          /\ d.asked[a].next # Never => r.next = d.asked[a].next
          /\ Yields(d, a, c)
      BY <1>4, <2>7, <2>10 DEF RowGood, ScheduleGood
    <3>2. CASE next = r.next
      BY <3>1, <3>2
    <3>3. CASE r.trigger = c.trigger /\ r.next \in {c.next, c.was} /\ next = c.next
      <4>1. ClaimSound(c, now) /\ c.started \in Nat
        BY <2>10 DEF Claims
      <4>2. \E s \in 0..now : next = NextAfter(r.trigger, s)
        <5>1. c.started \in 0..now
          BY <4>1 DEF ClaimSound
        <5>2. \E s \in 0..c.started : c.was = NextAfter(c.trigger, s)
          BY <2>10, <3>3, <4>1 DEF ClaimSound
        <5>3. c.next \in {c.was, NextAfter(c.trigger, c.started)}
          BY <2>10, <3>3, <4>1 DEF ClaimSound
        <5> HIDE DEF c, r, next
        <5>4. \E s \in 0..now : c.was = NextAfter(c.trigger, s)
          BY <4>1, <5>1, <5>2
        <5> QED BY <3>3, <5>1, <5>3, <5>4
      <4>3. d.asked[a].next # Never => next = d.asked[a].next
        <5> HIDE DEF c, next
        <5> QED BY <3>1, <3>3 DEF Yields
      <4> QED BY <4>2, <4>3
    <3> QED BY <3>2, <3>3 DEF NextKept
  <2>11. ASSUME h PROVE ScheduleGood(x, a, now, {})
    <3> HIDE DEF next, r
    <3> QED BY <2>4, <2>6, <2>8, <2>10, <2>11 DEF ScheduleGood
  <2>12. RowGood(x, a, now, h, {})
    BY <2>9, <2>11 DEF RowGood
  <2> QED BY <2>6, <2>12 DEF x
<1> HIDE DEF Fine
<1>5. CASE a \in DOMAIN d.rows
  <2>1. Fine(e)
    BY <1>3, <1>4, <1>5 DEF Settled
  <2> QED BY <2>1 DEF Fine
<1> QED BY <1>2, <1>5

\* The start-up pass on one automation that missed its time.
LEMMA SkippedGood ==
  ASSUME NEW d, Typed(d), NEW a \in DOMAIN d.rows, now \in Nat,
         NEW h, NEW W, RowGood(d, a, now, h, W),
         NEW e, e = Skipped(d, a)
  PROVE  /\ OnlyAt(d, e, a)
         /\ DOMAIN e.rows = DOMAIN d.rows
         /\ RowGood(e, a, now, h, W)
<1> DEFINE r == d.rows[a]
           next == NextAfter(r.trigger, now)
           row == [r EXCEPT !.next = next, !.running = FALSE]
           wish == [d.asked[a] EXCEPT !.next = Never]
<1>1. CASE next = Never
  <2>1. e = d
    BY <1>1 DEF Skipped
  <2> QED BY <2>1 DEF OnlyAt, Same
<1>2. CASE next # Never
  <2>1. r \in Rows /\ d.asked[a] \in Wishes
    BY DEF Typed
  <2>2. next \in Times
    BY <2>1, NextAfterGrows DEF Rows
  <2>3. row \in Rows /\ row.trigger = r.trigger /\ row.next = next /\ row.failures = r.failures
    <3> HIDE DEF next
    <3> QED BY <2>1, <2>2 DEF Rows
  <2>4. wish \in Wishes /\ wish.next = Never
    BY <2>1 DEF Wishes, Times
  <2>5. e = With(d, a, row, wish)
    BY <1>2 DEF Skipped, With
  <2> HIDE DEF row, wish, next
  <2>6. /\ OnlyAt(d, e, a) /\ DOMAIN e.rows = DOMAIN d.rows
        /\ e.rows[a] = row /\ e.asked[a] = wish
        /\ \A b : RunsOf(e, b) = RunsOf(d, b)
    <3>1. row \in Rows /\ wish \in Wishes
      BY <2>3, <2>4
    <3> QED BY <2>5, <3>1, EntryChanged
  <2>7. Pending(e, a, W) = Pending(d, a, W)
    BY <2>6, SamePending
  <2>8. CountGood(e, a, W)
    BY <2>3, <2>6, <2>7 DEF RowGood, CountGood
  <2>9. ScheduleGood(e, a, now, W)
    <3>1. \E s \in 0..now : next = NextAfter(r.trigger, s)
      <4>1. now \in 0..now
        OBVIOUS
      <4> QED BY <4>1 DEF next
    <3> HIDE DEF r
    <3> QED BY <2>3, <2>4, <2>6, <3>1, Zenon DEF ScheduleGood, Yields
  <2> QED BY <2>6, <2>8, <2>9 DEF RowGood
<1> QED BY <1>1, <1>2

LEMMA CaughtUpGood ==
  ASSUME TypedInv, AtWork, NEW d, Typed(d), NEW a \in DOMAIN d.rows,
         NEW h, RowGood(d, a, now, h, workers),
         NEW outcome \in {"success", "failure"},
         NEW e, e = CaughtUp(d, a, outcome)
  PROVE  /\ OnlyAt(d, e, a)
         /\ DOMAIN e.rows = DOMAIN d.rows
         /\ RowGood(e, a, now, h, workers)
<1>1. now \in Nat
  BY AutomationAssumption DEF TypedInv
<1>2. CASE a \in Skips
  BY <1>1, <1>2, SkippedGood DEF CaughtUp
<1>3. CASE a \notin Skips /\ MayBegin(a) /\ Claimable(d, a, "catch_up")
  <2> DEFINE c == ClaimOf(d, a, "catch_up")
             f == Claimed(d, a, c)
             w == [of |-> a, stage |-> "claimed", claim |-> c]
  <2>1. w.of = a /\ w.stage = "claimed" /\ w.claim = c
    OBVIOUS
  <2> HIDE DEF w
  <2>2. /\ c \in Claims /\ (h => ClaimSound(c, now))
        /\ OnlyAt(d, f, a) /\ DOMAIN f.rows = DOMAIN d.rows
        /\ RowGood(f, a, now, h, {w})
    <3> HIDE DEF c
    <3> QED BY <1>3, <2>1, ClaimedGood DEF AtWork, c
  <2>3. e = Settled(f, a, c, outcome)
    BY <1>3 DEF CaughtUp
  <2> HIDE DEF c, f
  <2>4. OnlyAt(f, e, a) /\ DOMAIN e.rows = DOMAIN f.rows /\ RowGood(e, a, now, h, {})
    BY <1>1, <2>1, <2>2, <2>3, SettledGood DEF OnlyAt
  <2>5. \A b \in DOMAIN e.rows \ {a} : Same(d, e, b)
    BY <2>2, <2>4 DEF OnlyAt, Same
  <2>6. RowGood(e, a, now, h, workers)
    <3>1. Pending(e, a, workers) \subseteq {}
      BY <1>3 DEF AtWork, MayBegin, Pending
    <3>2. Same(e, e, a)
      BY <2>2, <2>4 DEF Same
    <3> QED BY <1>1, <2>4, <3>1, <3>2, SameGood
  <2> QED BY <2>2, <2>4, <2>5, <2>6 DEF OnlyAt
<1>4. CASE e = d
  BY <1>4 DEF OnlyAt, Same
<1> QED BY <1>2, <1>3, <1>4 DEF CaughtUp

\* All automations of a database.
BaseGood(d, t, h, W) == Typed(d) /\ \A a \in DOMAIN d.rows : RowGood(d, a, t, h, W)

\* If only a's entry changes, the others stay as good as they were.
LEMMA OnlyAtGood ==
  ASSUME NEW d, NEW e, NEW a, OnlyAt(d, e, a), NEW t \in Nat, NEW h, NEW W, NEW V,
         BaseGood(d, t, h, W),
         \A b \in Automations \ {a} : Pending(e, b, V) \subseteq W,
         a \in DOMAIN e.rows => RowGood(e, a, t, h, V)
  PROVE  BaseGood(e, t, h, V)
<1>1. ASSUME NEW b \in DOMAIN e.rows \ {a} PROVE RowGood(e, b, t, h, V)
  <2>1. Same(d, e, b) /\ b \in Automations
    BY DEF OnlyAt, Typed
  <2>2. RowGood(d, b, t, h, W)
    BY <2>1 DEF BaseGood, Same
  <2> QED BY <2>1, <2>2, SameGood
<1> QED BY <1>1 DEF BaseGood, OnlyAt

LEMMA EachCaughtUpGood ==
  ASSUME TypedInv, AtWork, NEW d, Good(d), NEW h, BaseGood(d, now, h, workers),
         NEW overdue, overdue \subseteq DOMAIN d.rows,
         NEW outcome \in {"success", "failure"},
         NEW e, e = EachCaughtUp(d, overdue, outcome)
  PROVE  BaseGood(e, now, h, workers)
<1> DEFINE after == [a \in overdue |-> CaughtUp(d, a, outcome)]
           rows == [a \in DOMAIN d.rows |->
                      IF a \in overdue THEN after[a].rows[a] ELSE d.rows[a]]
           news == {after[a].runs : a \in overdue}
           runs == d.runs \cup UNION news
           asked == [a \in DOMAIN d.asked |->
                       IF a \in overdue THEN after[a].asked[a] ELSE d.asked[a]]
<1>1. e = [rows |-> rows, runs |-> runs, asked |-> asked]
  BY DEF EachCaughtUp
<1>2. \A a \in overdue : /\ OnlyAt(d, after[a], a)
                         /\ DOMAIN after[a].rows = DOMAIN d.rows
                         /\ RowGood(after[a], a, now, h, workers)
                         /\ d.runs \subseteq after[a].runs
                         /\ \A x \in after[a].runs \ d.runs : x.of = a
  <2>1. ASSUME NEW a \in overdue
        PROVE  /\ OnlyAt(d, CaughtUp(d, a, outcome), a)
               /\ DOMAIN CaughtUp(d, a, outcome).rows = DOMAIN d.rows
               /\ RowGood(CaughtUp(d, a, outcome), a, now, h, workers)
    BY CaughtUpGood DEF BaseGood
  <2>2. ASSUME NEW a \in overdue
        PROVE  /\ d.runs \subseteq CaughtUp(d, a, outcome).runs
               /\ \A x \in CaughtUp(d, a, outcome).runs \ d.runs : x.of = a
    BY CaughtUpKeeps
  <2> QED BY <2>1, <2>2
<1>3. Typed(d) /\ overdue \subseteq Automations /\ DOMAIN d.asked = Automations
  BY DEF BaseGood, Typed
<1> HIDE DEF after
<1>4. \A a \in overdue : Typed(after[a]) /\ after[a].rows[a] \in Rows /\ after[a].asked[a] \in Wishes
  BY <1>2, <1>3 DEF OnlyAt, Typed
<1>5. IsFiniteSet(runs)
  <2>1. IsFiniteSet(overdue)
    BY <1>3, FS_Subset, AutomationAssumption
  <2>2. IsFiniteSet(news)
    <3> DEFINE g == [a \in overdue |-> after[a].runs]
    <3>1. g \in Surjection(overdue, news)
      BY DEF Surjection
    <3> QED BY <2>1, <3>1, FS_Surjection
  <2>3. \A x \in news : IsFiniteSet(x)
    BY <1>4 DEF Typed
  <2> HIDE DEF news
  <2>4. IsFiniteSet(UNION news)
    BY <2>2, <2>3, FS_UNION
  <2> QED BY <1>3, <2>4, FS_Union DEF Typed
<1>6. runs \subseteq Runs
  BY <1>3, <1>4 DEF Typed
<1>7. rows \in [DOMAIN d.rows -> Rows] /\ DOMAIN rows = DOMAIN d.rows
  BY <1>3, <1>4 DEF Typed
<1>8. asked \in [Automations -> Wishes]
  BY <1>3, <1>4 DEF Typed
<1>9. Typed(e)
  <2> HIDE DEF rows, runs, asked
  <2> QED BY <1>1, <1>3, <1>5, <1>6, <1>7, <1>8 DEF Typed
<1>10. ASSUME NEW a \in overdue PROVE Same(after[a], e, a)
  <2>1. RunsOf(e, a) = RunsOf(after[a], a)
    <3>1. e.runs = runs
      BY <1>1
    <3> QED BY <1>2, <1>10, <3>1 DEF RunsOf
  <2>2. e.rows[a] = after[a].rows[a] /\ e.asked[a] = after[a].asked[a]
    BY <1>1, <1>3, <1>10
  <2> QED BY <1>2, <1>10, <2>1, <2>2 DEF Same
<1>11. ASSUME NEW a \in DOMAIN d.rows \ overdue PROVE Same(d, e, a)
  <2>1. RunsOf(e, a) = RunsOf(d, a)
    <3>1. e.runs = runs
      BY <1>1
    <3> QED BY <1>2, <1>11, <3>1 DEF RunsOf
  <2>2. e.rows[a] = d.rows[a] /\ e.asked[a] = d.asked[a]
    <3>1. a \in DOMAIN d.asked
      BY <1>3 DEF Typed
    <3> QED BY <1>1, <1>3, <1>11, <3>1
  <2> QED BY <1>11, <2>1, <2>2 DEF Same
<1>12. ASSUME NEW a \in DOMAIN e.rows PROVE RowGood(e, a, now, h, workers)
  <2>1. a \in DOMAIN d.rows /\ now \in Nat /\ Pending(e, a, workers) \subseteq workers
    BY <1>1, <1>12, AutomationAssumption DEF TypedInv, Pending
  <2>2. CASE a \in overdue
    BY <1>2, <1>10, <2>1, <2>2, SameGood
  <2>3. CASE a \notin overdue
    <3>1. RowGood(d, a, now, h, workers)
      BY <2>1 DEF BaseGood
    <3> QED BY <1>11, <2>1, <2>3, <3>1, SameGood
  <2> QED BY <2>2, <2>3
<1> QED BY <1>9, <1>12 DEF BaseGood

\* upsert_automation: what is asked now lies at or after every schedule a claim
\* under way may still write.
LEMMA UpsertGood ==
  ASSUME TypedInv, NEW h, BaseGood(db, now, h, workers),
         h => \A w \in workers : w.stage = "claimed" => ClaimSound(w.claim, now),
         NEW a \in Automations, NEW tr \in Triggers, NEW on \in BOOLEAN,
         NEW e, e = db', Upsert(a, tr, on)
  PROVE  BaseGood(e, now, h, workers)
<1> DEFINE d == db
           old == IF a \in DOMAIN d.rows THEN d.rows[a] ELSE NewRow(tr)
           next == IF NextAfter(tr, now) = Never THEN old.next ELSE NextAfter(tr, now)
           row == [old EXCEPT !.enabled = on, !.trigger = tr, !.next = next]
           wish == [paused |-> ~ on, next |-> next]
           rows == [b \in DOMAIN d.rows \cup {a} |-> IF b = a THEN row ELSE d.rows[b]]
           asked == [d.asked EXCEPT ![a] = wish]
<1>1. e = [rows |-> rows, runs |-> d.runs, asked |-> asked]
  BY DEF Upsert
<1>2. Typed(d) /\ now \in Nat
  BY AutomationAssumption DEF BaseGood, TypedInv
<1>3. NextAfter(tr, now) \in Times /\ (Computable(tr) => NextAfter(tr, now) \in Nat)
  BY <1>2, NextAfterGrows
<1>4. old \in Rows /\ (a \in DOMAIN d.rows => old = d.rows[a])
      /\ (a \notin DOMAIN d.rows => old.failures = 0)
  <2>1. NewRow(tr) \in Rows /\ NewRow(tr).failures = 0
    BY <1>3 DEF NewRow, Rows, Times
  <2> QED BY <1>2, <2>1 DEF Typed
<1>5. next \in Times /\ (Computable(tr) => next = NextAfter(tr, now))
  <2>1. Computable(tr) => NextAfter(tr, now) # Never
    BY <1>3 DEF Never
  <2> HIDE DEF old
  <2> QED BY <1>3, <1>4, <2>1 DEF Rows
<1>6. row \in Rows /\ row.trigger = tr /\ row.next = next /\ row.failures = old.failures
  <2> HIDE DEF next, old
  <2> QED BY <1>4, <1>5 DEF Rows
<1>7. wish \in Wishes /\ wish.next = next
  BY <1>5 DEF Wishes
<1> HIDE DEF row, wish, next, old
<1>8. rows \in [DOMAIN rows -> Rows] /\ DOMAIN rows \subseteq Automations
  BY <1>2, <1>6 DEF Typed
<1>9. asked \in [Automations -> Wishes]
  BY <1>2, <1>7 DEF Typed
<1>10. e.rows = rows /\ e.asked = asked /\ e.runs = d.runs
       /\ e = [rows |-> e.rows, runs |-> e.runs, asked |-> e.asked]
  BY <1>1
<1>11. e.rows[a] = row /\ e.asked[a] = wish
  BY <1>2, <1>10 DEF Typed
<1>12. \A b : RunsOf(e, b) = RunsOf(d, b)
  BY <1>10 DEF RunsOf
<1>13. \A b \in DOMAIN e.rows \ {a} : Same(d, e, b)
  BY <1>2, <1>10, <1>12 DEF Same, Typed
<1> HIDE DEF rows, asked
<1>14. Typed(e)
  BY <1>2, <1>8, <1>9, <1>10 DEF Typed
<1>15. CountGood(e, a, workers)
  <2>1. CASE a \in DOMAIN d.rows
    <3>1. CountGood(d, a, workers)
      BY <2>1 DEF BaseGood, RowGood
    <3> QED BY <1>4, <1>6, <1>11, <1>12, <2>1, <3>1 DEF CountGood, Pending, Knows
  <2>2. CASE a \notin DOMAIN d.rows
    <3>1. IsFiniteSet(RunsOf(e, a)) /\ Cardinality(RunsOf(e, a)) \in Nat
      BY <1>14, RunsFinite
    <3>2. ASSUME NEW w \in Pending(e, a, workers) PROVE Cardinality(RunsOf(e, a)) # 0
      <4>1. RunsOf(e, a) # {}
        BY DEF Pending, Knows
      <4> QED BY <3>1, <4>1, FS_EmptySet
    <3> QED BY <1>4, <1>6, <1>11, <2>2, <3>1, <3>2 DEF CountGood
  <2> QED BY <2>1, <2>2
<1>16. ASSUME h, Computable(tr) PROVE ScheduleGood(e, a, now, workers)
  <2>1. next = NextAfter(tr, now)
    BY <1>5, <1>16
  <2>2. \E s \in 0..now : next = NextAfter(tr, s)
    <3>1. now \in 0..now
      BY <1>2
    <3> QED BY <2>1, <3>1
  <2>3. ASSUME NEW w \in Pending(e, a, workers), tr = w.claim.trigger, next = w.claim.was
        PROVE  w.claim.next = w.claim.was
    <3> DEFINE c == w.claim
    <3>1. c \in Claims /\ ClaimSound(c, now)
      BY <1>16 DEF Pending, TypedInv, TypedWorker
    <3> HIDE DEF c
    <3>2. c.started \in Nat /\ c.started <= now
      BY <3>1 DEF ClaimSound, Claims
    <3>3. tr = c.trigger /\ next = c.was
      BY <2>3 DEF c
    <3>4. c.next \in {c.was, NextAfter(tr, c.started)}
      BY <1>16, <3>1, <3>3 DEF ClaimSound
    <3>5. PICK s \in 0..c.started : c.was = NextAfter(tr, s)
      BY <1>16, <3>1, <3>3 DEF ClaimSound
    <3>6. NextAfter(tr, s) \in Nat /\ NextAfter(tr, s) <= NextAfter(tr, c.started)
      BY <1>16, <3>2, <3>5, NextAfterGrows
    <3>7. NextAfter(tr, c.started) \in Nat /\ NextAfter(tr, c.started) <= NextAfter(tr, now)
      BY <1>2, <1>16, <3>2, NextAfterGrows
    <3>8. c.next = c.was
      BY <1>3, <1>16, <2>1, <3>3, <3>4, <3>5, <3>6, <3>7
    <3> QED BY <3>8 DEF c
  <2> QED BY <1>6, <1>7, <1>11, <2>2, <2>3 DEF ScheduleGood, Yields
<1>17. RowGood(e, a, now, h, workers)
  BY <1>6, <1>11, <1>15, <1>16 DEF RowGood, ScheduleGood
<1>18. \A b \in Automations \ {a} : Pending(e, b, workers) \subseteq workers
  BY DEF Pending
<1> QED BY <1>2, <1>13, <1>14, <1>17, <1>18, OnlyAtGood DEF OnlyAt

\* set_automation_enabled computes a schedule only where there is none.
LEMMA SetEnabledGood ==
  ASSUME TypedInv, NEW h, BaseGood(db, now, h, workers),
         NEW a \in Automations, NEW on \in BOOLEAN,
         NEW e, e = db', SetEnabled(a, on)
  PROVE  BaseGood(e, now, h, workers)
<1> DEFINE d == db
           r == d.rows[a]
           next == IF on /\ r.next = Never THEN NextAfter(r.trigger, now) ELSE r.next
           row == [r EXCEPT !.enabled = on, !.next = next]
           wish == [d.asked[a] EXCEPT !.paused = ~ on]
<1>1. a \in DOMAIN d.rows
  BY DEF SetEnabled
<1>2. Typed(d) /\ now \in Nat
  BY AutomationAssumption DEF BaseGood, TypedInv
<1>3. r \in Rows /\ d.asked[a] \in Wishes
  BY <1>1, <1>2 DEF Typed
<1>4. next \in Times
  BY <1>2, <1>3, NextAfterGrows DEF Rows
<1>5. row \in Rows /\ row.trigger = r.trigger /\ row.next = next /\ row.failures = r.failures
  <2> HIDE DEF next
  <2> QED BY <1>3, <1>4 DEF Rows
<1>6. wish \in Wishes /\ wish.next = d.asked[a].next
  BY <1>3 DEF Wishes
<1>7. e = With(d, a, row, wish)
  BY <1>1 DEF SetEnabled, With
<1> HIDE DEF row, wish, next, r
<1>8. /\ OnlyAt(d, e, a) /\ DOMAIN e.rows = DOMAIN d.rows
      /\ e.rows[a] = row /\ e.asked[a] = wish
      /\ \A b : RunsOf(e, b) = RunsOf(d, b)
  <2>1. row \in Rows /\ wish \in Wishes
    BY <1>5, <1>6
  <2> QED BY <1>1, <1>2, <1>7, <2>1, EntryChanged
<1>9. CountGood(d, a, workers) /\ (h => ScheduleGood(d, a, now, workers))
  BY <1>1 DEF BaseGood, RowGood
<1>10. Pending(e, a, workers) = Pending(d, a, workers)
  BY <1>8, SamePending
<1>11. CountGood(e, a, workers)
  BY <1>5, <1>8, <1>9, <1>10 DEF CountGood, r
<1>12. ASSUME h, Computable(r.trigger) PROVE next = r.next
  <2>1. PICK s \in 0..now : r.next = NextAfter(r.trigger, s)
    BY <1>9, <1>12 DEF ScheduleGood, r
  <2>2. r.next \in Nat
    BY <1>2, <1>3, <1>12, <2>1, NextAfterGrows DEF Rows
  <2> QED BY <2>2 DEF next, Never
<1>13. h => ScheduleGood(e, a, now, workers)
  BY <1>5, <1>6, <1>8, <1>9, <1>10, <1>12 DEF ScheduleGood, Yields, r
<1>14. \A b \in Automations \ {a} : Pending(e, b, workers) \subseteq workers
  BY DEF Pending
<1> QED BY <1>2, <1>8, <1>11, <1>13, <1>14, OnlyAtGood DEF RowGood

\* delete_automation takes the row and the runs.
LEMMA DeleteGood ==
  ASSUME TypedInv, NEW h, BaseGood(db, now, h, workers), NEW a \in Automations,
         NEW e, e = db', Delete(a)
  PROVE  BaseGood(e, now, h, workers)
<1> DEFINE rows == [b \in DOMAIN db.rows \ {a} |-> db.rows[b]]
           runs == {run \in db.runs : run.of # a}
           asked == [db.asked EXCEPT ![a] = NoWish]
<1>1. e = [rows |-> rows, runs |-> runs, asked |-> asked]
  BY DEF Delete, Restrict
<1>2. Typed(db) /\ now \in Nat
  BY AutomationAssumption DEF BaseGood, TypedInv
<1>3. rows \in [DOMAIN rows -> Rows] /\ DOMAIN rows \subseteq Automations
  BY <1>2 DEF Typed
<1>4. runs \subseteq Runs /\ IsFiniteSet(runs)
  <2>1. runs \subseteq db.runs
    OBVIOUS
  <2> HIDE DEF runs
  <2> QED BY <1>2, <2>1, FS_Subset DEF Typed
<1>5. asked \in [Automations -> Wishes]
  <2>1. NoWish \in Wishes
    BY DEF NoWish, Wishes, Times
  <2> QED BY <1>2, <2>1 DEF Typed
<1>6. \A b \in DOMAIN rows : Same(db, e, b)
  <2>1. ASSUME NEW b \in DOMAIN rows
        PROVE  /\ b \in DOMAIN db.rows /\ b # a
               /\ e.rows[b] = db.rows[b] /\ e.asked[b] = db.asked[b]
    BY <1>1, <1>2, <2>1 DEF Typed
  <2>2. \A b : b # a => RunsOf(e, b) = RunsOf(db, b)
    BY <1>1 DEF RunsOf
  <2> HIDE DEF rows
  <2> QED BY <2>1, <2>2 DEF Same
<1>7. a \notin DOMAIN rows
  OBVIOUS
<1> HIDE DEF rows, runs, asked
<1>8. OnlyAt(db, e, a) /\ a \notin DOMAIN e.rows
  BY <1>1, <1>3, <1>4, <1>5, <1>6, <1>7 DEF OnlyAt, Typed
<1>9. \A b \in Automations \ {a} : Pending(e, b, workers) \subseteq workers
  BY DEF Pending
<1> QED BY <1>2, <1>8, <1>9, OnlyAtGood

-----------------------------------------------------------------------------
(* Every step *)

Honest == "setback" \notin faults

\* The backup is as good as the database: what is restored under a run does not
\* know the run, or knows it as the database did.
BookInv ==
  /\ \A d \in Bases : BaseGood(d, now, Honest, workers)
  /\ Honest => \A w \in workers : w.stage = "claimed" => ClaimSound(w.claim, now)

\* A database is as good later, with no more of its runs under way.
LEMMA LaterGood ==
  ASSUME NEW d, NEW s \in Nat, NEW t \in Nat, NEW h, NEW k, k => h /\ s <= t,
         NEW W, NEW V, BaseGood(d, s, h, W),
         \A a \in Automations : Pending(d, a, V) \subseteq W
  PROVE  BaseGood(d, t, k, V)
<1>1. ASSUME NEW a \in DOMAIN d.rows PROVE RowGood(d, a, t, k, V)
  <2>1. Pending(d, a, V) \subseteq Pending(d, a, W)
    BY DEF BaseGood, Typed, Pending
  <2>2. CountGood(d, a, V)
    BY <2>1 DEF BaseGood, RowGood, CountGood
  <2>3. ASSUME k PROVE ScheduleGood(d, a, t, V)
    <3>1. ScheduleGood(d, a, s, W) /\ 0..s \subseteq 0..t
      BY <2>3 DEF BaseGood, RowGood
    <3> QED BY <2>1, <3>1 DEF ScheduleGood
  <2> QED BY <2>2, <2>3 DEF RowGood
<1> QED BY <1>1 DEF BaseGood

\* Where databases come from.
LEMMA BasesStep ==
  ASSUME TypedInv, [Next]_vars
  PROVE  /\ \E d : saved' \in {<< >>, << d >>}
         /\ Bases' \subseteq Bases \cup {db'}
<1>1. PICK b : saved \in {<< >>, << b >>}
  BY DEF TypedInv
<1>2. CASE UNCHANGED saved
  BY <1>1, <1>2 DEF Bases
<1>3. CASE Backup
  <2>1. saved' = << db >>
    BY <1>3 DEF Backup
  <2>2. Range(saved') = {db}
    BY <2>1 DEF Range
  <2> QED BY <2>1, <2>2 DEF Bases
<1>4. CASE Install
  <2>1. saved' = << db >>
    BY <1>4 DEF Install
  <2>2. Range(saved') = {db}
    BY <2>1 DEF Range
  <2> QED BY <2>1, <2>2 DEF Bases
<1>8. CASE SwapAssets \/ AssetsFail \/ (Crash /\ saved' # saved)
  <2>1. saved' = << >>
    BY <1>8 DEF SwapAssets, AssetsFail, Crash
  <2>2. Range(saved') = {}
    BY <2>1 DEF Range
  <2> QED BY <2>1, <2>2 DEF Bases
<1>5. CASE Tick \/ StartScheduler \/ BeginRestore \/ Clock \/ SetBack \/ UNCHANGED vars
           \/ AbandonRestore \/ InstallFails \/ EndRestore \/ (Crash /\ saved' = saved)
  BY <1>2, <1>5 DEF Tick, StartScheduler, BeginRestore, Clock, SetBack, vars,
                    AbandonRestore, InstallFails, EndRestore
<1>6. ASSUME NEW w \in workers, Claim(w) \/ Refuse(w) \/ Finish(w) \/ FinishFails(w)
      PROVE  UNCHANGED saved
  BY <1>6 DEF Claim, Refuse, Finish, FinishFails
<1>7. ASSUME NEW a, NEW tr, NEW on,
             RunNow(a) \/ Delete(a) \/ SetEnabled(a, on) \/ Upsert(a, tr, on)
      PROVE  UNCHANGED saved
  BY <1>7 DEF RunNow, Delete, SetEnabled, Upsert
<1> QED BY <1>2, <1>3, <1>4, <1>5, <1>6, <1>7, <1>8 DEF Next

\* A step that leaves the database as it is, or takes the backup for it, and lets
\* no worker claim.
LEMMA QuietGood ==
  ASSUME TypedInv, BookInv, [Next]_vars, db' \in Bases, now' \in Nat,
         Honest' => Honest /\ now <= now',
         \A w \in workers' : w.stage = "claimed" => w \in workers
  PROVE  BookInv'
<1>1. Bases' \subseteq Bases
  BY BasesStep
<1>2. now \in Nat
  BY AutomationAssumption DEF TypedInv
<1>3. ASSUME NEW d \in Bases' PROVE BaseGood(d, now', Honest', workers')
  <2>1. BaseGood(d, now, Honest, workers)
    BY <1>1 DEF BookInv
  <2>2. \A a \in Automations : Pending(d, a, workers') \subseteq workers
    BY DEF Pending
  <2> QED BY <1>2, <2>1, <2>2, LaterGood
<1>4. ASSUME Honest', NEW w \in workers', w.stage = "claimed" PROVE ClaimSound(w.claim, now')
  <2>1. ClaimSound(w.claim, now) /\ w.claim.started \in Nat
    BY <1>4 DEF BookInv, TypedInv, TypedWorker, Claims
  <2> QED BY <1>2, <1>4, <2>1 DEF ClaimSound
<1> QED BY <1>3, <1>4 DEF BookInv

\* A step of the database alone.
LEMMA DbChangeGood ==
  ASSUME TypedInv, BookInv, [Next]_vars, UNCHANGED <<now, faults>>,
         BaseGood(db', now, Honest, workers'),
         \A w \in workers' : w.stage = "claimed" => w \in workers
  PROVE  BookInv'
<1>1. Bases' \subseteq Bases \cup {db'}
  BY BasesStep
<1>2. now \in Nat
  BY AutomationAssumption DEF TypedInv
<1>3. ASSUME NEW d \in Bases PROVE BaseGood(d, now, Honest, workers')
  <2>1. BaseGood(d, now, Honest, workers)
    BY DEF BookInv
  <2>2. \A a \in Automations : Pending(d, a, workers') \subseteq workers
    BY DEF Pending
  <2>3. now <= now
    BY <1>2
  <2> QED BY <1>2, <2>1, <2>2, <2>3, LaterGood
<1>4. \A d \in Bases' : BaseGood(d, now, Honest, workers')
  BY <1>1, <1>3
<1>5. now' = now /\ Honest' = Honest
  BY DEF Honest
<1>6. ASSUME Honest, NEW w \in workers', w.stage = "claimed" PROVE ClaimSound(w.claim, now)
  BY <1>6 DEF BookInv
<1> QED BY <1>4, <1>5, <1>6 DEF BookInv

WithClaim(w, c) == [w EXCEPT !.stage = "claimed", !.claim = c]

LEMMA WorkerClaims ==
  ASSUME NEW w, TypedWorker(w), NEW c, NEW x, x = WithClaim(w, c)
  PROVE  /\ x.of = w.of /\ x.stage = "claimed" /\ x.claim = c
         /\ x = [of |-> x.of, origin |-> x.origin, stage |-> x.stage, claim |-> x.claim]
<1>1. PICK o, g, s, k : w = [of |-> o, origin |-> g, stage |-> s, claim |-> k]
  BY DEF TypedWorker
<1>2. x = [of |-> o, origin |-> g, stage |-> "claimed", claim |-> c]
  BY <1>1 DEF WithClaim
<1> QED BY <1>1, <1>2

LEMMA ClaimBooks ==
  ASSUME TypedInv, AtWork, BookInv, NEW w \in workers, Claim(w)
  PROVE  BookInv' /\ \A v \in workers' : TypedWorker(v)
<1> DEFINE a == w.of
           c == ClaimOf(db, a, w.origin)
           e == Claimed(db, a, c)
           x == WithClaim(w, c)
<1>1. db' = e /\ workers' = (workers \ {w}) \cup {x} /\ Claimable(db, a, w.origin)
  BY DEF Claim, WithClaim
<1>2. UNCHANGED <<now, faults, saved>>
  BY DEF Claim
<1>3. [Next]_vars /\ now \in Nat
  BY AutomationAssumption DEF Next, TypedInv
<1>4. TypedWorker(w) /\ a \in DOMAIN db.rows
  BY <1>1 DEF TypedInv, Claimable
<1>5. /\ x.of = a /\ x.stage = "claimed" /\ x.claim = c
      /\ x = [of |-> x.of, origin |-> x.origin, stage |-> x.stage, claim |-> x.claim]
  <2>1. x = WithClaim(w, c)
    OBVIOUS
  <2> HIDE DEF x, c
  <2> QED BY <1>4, <2>1, WorkerClaims
<1>6. Typed(db) /\ RowGood(db, a, now, Honest, workers)
  BY <1>4 DEF BookInv, Bases, BaseGood
<1>7. /\ c \in Claims /\ (Honest => ClaimSound(c, now))
      /\ OnlyAt(db, e, a) /\ DOMAIN e.rows = DOMAIN db.rows
      /\ RowGood(e, a, now, Honest, {x})
  <2>1. c = ClaimOf(db, a, w.origin) /\ e = Claimed(db, a, c)
    OBVIOUS
  <2> HIDE DEF x, c, a, e
  <2> QED BY <1>1, <1>5, <1>6, <2>1, ClaimedGood DEF AtWork
<1>8. \A run \in UNION {d.runs : d \in Range(saved)} : run.of = a => run.id # c.run
  <2>1. c.run = FreshRun(db, a)
    BY DEF ClaimOf
  <2> HIDE DEF c, a
  <2> QED BY <1>6, <2>1, FreshRunIsFresh DEF AtWork
<1> HIDE DEF e, x, c
<1>9. \A v \in workers' : v = x \/ (v \in workers /\ v.of # a)
  BY <1>1, <1>4 DEF AtWork, NoOverlap
<1>10. BaseGood(e, now, Honest, workers')
  <2>1. \A b \in Automations \ {a} : Pending(e, b, workers') \subseteq workers
    BY <1>5, <1>9 DEF Pending
  <2>2. Same(e, e, a)
    BY <1>4, <1>7 DEF Same
  <2>3. Pending(e, a, workers') \subseteq {x}
    BY <1>9 DEF Pending
  <2>4. RowGood(e, a, now, Honest, workers')
    BY <1>3, <1>7, <2>2, <2>3, SameGood
  <2>5. BaseGood(db, now, Honest, workers)
    BY DEF BookInv, Bases
  <2> QED BY <1>3, <1>7, <2>1, <2>4, <2>5, OnlyAtGood
<1>11. ASSUME NEW d \in Range(saved) PROVE BaseGood(d, now, Honest, workers')
  <2>1. BaseGood(d, now, Honest, workers)
    BY DEF BookInv, Bases
  <2>2. x \notin Pending(d, a, workers')
    <3>1. \A run \in RunsOf(d, a) : run.id # c.run
      BY <1>8 DEF RunsOf
    <3> QED BY <1>5, <3>1 DEF Pending, Knows
  <2>3. \A b \in Automations : Pending(d, b, workers') \subseteq workers
    <3>1. ASSUME NEW b \in Automations, NEW v \in Pending(d, b, workers') PROVE v \in workers
      <4>1. v \in workers' /\ v.of = b
        BY DEF Pending
      <4>2. CASE v = x
        BY <1>5, <2>2, <4>1, <4>2
      <4> QED BY <1>9, <4>1, <4>2
    <3> QED BY <3>1
  <2>4. now <= now
    BY <1>3
  <2> QED BY <1>3, <2>1, <2>3, <2>4, LaterGood
<1>12. now' = now /\ Honest' = Honest /\ Bases' = {e} \cup Range(saved)
  BY <1>1, <1>2 DEF Honest, Bases
<1>13. ASSUME Honest, NEW v \in workers', v.stage = "claimed" PROVE ClaimSound(v.claim, now)
  BY <1>5, <1>7, <1>9, <1>13 DEF BookInv
<1>14. BookInv'
  BY <1>10, <1>11, <1>12, <1>13 DEF BookInv
<1>15. TypedWorker(x)
  BY <1>4, <1>5, <1>7 DEF TypedWorker
<1> QED BY <1>9, <1>14, <1>15 DEF TypedInv

LEMMA FinishBooks ==
  ASSUME TypedInv, AtWork, BookInv, NEW w \in workers, Finish(w) \/ FinishFails(w)
  PROVE  BookInv'
<1> DEFINE a == w.of
<1>1. [Next]_vars /\ now \in Nat
  BY AutomationAssumption DEF Next, TypedInv
<1>2. workers' = workers \ {w} /\ UNCHANGED now /\ w.stage = "claimed"
  BY DEF Finish, FinishFails, Leave
<1>3. "setback" \in faults' <=> "setback" \in faults
  BY DEF Finish, FinishFails, Fault
<1>4. CASE db' = db
  <2>1. db' \in Bases /\ now <= now' /\ now' \in Nat
    BY <1>1, <1>2, <1>4 DEF Bases
  <2>2. Honest' => Honest
    BY <1>3 DEF Honest
  <2> QED BY <1>1, <1>2, <2>1, <2>2, QuietGood
<1>5. ASSUME NEW outcome \in {"success", "failure", "parked"},
             db' = Settled(db, a, w.claim, outcome) \/ db' = Cleared(db, a)
      PROVE  BookInv'
  <2>1. BaseGood(db, now, Honest, workers) /\ TypedWorker(w)
    BY DEF BookInv, Bases, TypedInv
  <2>2. a \in DOMAIN db.rows => RowGood(db, a, now, Honest, {w})
    <3>1. ASSUME a \in DOMAIN db.rows PROVE RowGood(db, a, now, Honest, {w})
      <4>1. RowGood(db, a, now, Honest, workers) /\ Same(db, db, a)
        BY <2>1, <3>1 DEF BaseGood, Same
      <4>2. Pending(db, a, {w}) \subseteq workers /\ now <= now
        BY <1>1 DEF Pending
      <4> QED BY <1>1, <4>1, <4>2, SameGood
    <3> QED BY <3>1
  <2>3. ASSUME NEW e, e = Settled(db, a, w.claim, outcome) \/ e = Cleared(db, a)
        PROVE  BaseGood(e, now, Honest, workers \ {w})
    <3>1. w.claim \in Claims /\ (Honest => ClaimSound(w.claim, now)) /\ Typed(db)
      BY <1>2, <2>1 DEF TypedWorker, BookInv, BaseGood
    <3>2. /\ OnlyAt(db, e, a) /\ DOMAIN e.rows = DOMAIN db.rows
          /\ a \in DOMAIN db.rows => RowGood(e, a, now, Honest, {})
      <4> HIDE DEF a
      <4>1. w.of = a
        BY DEF a
      <4> QED BY <1>1, <1>2, <2>2, <2>3, <3>1, <4>1, SettledGood
    <3>3. Pending(e, a, workers \ {w}) \subseteq {}
      BY DEF AtWork, NoOverlap, Pending
    <3>4. a \in DOMAIN e.rows => RowGood(e, a, now, Honest, workers \ {w})
      <4>1. a \in DOMAIN e.rows => Same(e, e, a)
        BY DEF Same
      <4>2. now <= now
        BY <1>1
      <4> HIDE DEF a
      <4> QED BY <1>1, <3>2, <3>3, <4>1, <4>2, SameGood
    <3>5. \A b \in Automations \ {a} : Pending(e, b, workers \ {w}) \subseteq workers
      BY DEF Pending
    <3> HIDE DEF a
    <3> QED BY <1>1, <2>1, <3>2, <3>4, <3>5, OnlyAtGood
  <2>4. BaseGood(db', now, Honest, workers')
    <3>1. \A e : e = Settled(db, a, w.claim, outcome) \/ e = Cleared(db, a)
                   => BaseGood(e, now, Honest, workers \ {w})
      BY <2>3
    <3> QED BY <1>2, <1>5, <3>1
  <2>5. Bases' \subseteq Bases \cup {db'}
    BY <1>1, BasesStep
  <2>6. now' = now /\ Honest' = Honest
    BY <1>2, <1>3 DEF Honest
  <2>7. ASSUME NEW d \in Bases PROVE BaseGood(d, now, Honest, workers')
    <3>1. BaseGood(d, now, Honest, workers)
      BY DEF BookInv
    <3>2. \A b \in Automations : Pending(d, b, workers') \subseteq workers
      BY <1>2 DEF Pending
    <3>3. now <= now
      BY <1>1
    <3> QED BY <1>1, <3>1, <3>2, <3>3, LaterGood
  <2>8. Honest => \A v \in workers' : v.stage = "claimed" => ClaimSound(v.claim, now)
    BY <1>2 DEF BookInv
  <2> QED BY <2>4, <2>5, <2>6, <2>7, <2>8 DEF BookInv
<1>6. (\E outcome \in {"success", "failure", "parked"} : db' = Settled(db, a, w.claim, outcome))
      \/ db' \in {db, Cleared(db, a)}
  BY DEF Finish, FinishFails
<1> QED BY <1>4, <1>5, <1>6

LEMMA StartBooks ==
  ASSUME TypedInv, AtWork, Good(db), BookInv, StartScheduler
  PROVE  BookInv'
<1> DEFINE d == Reconciled(db)
           rows == [a \in DOMAIN db.rows |-> [db.rows[a] EXCEPT !.running = FALSE]]
<1>1. [Next]_vars /\ now \in Nat /\ BaseGood(db, now, Honest, workers)
  BY AutomationAssumption DEF Next, TypedInv, BookInv, Bases
<1>2. UNCHANGED <<now, faults, workers>>
  BY DEF StartScheduler
<1>3. d.rows = rows /\ d.runs = db.runs /\ d.asked = db.asked
      /\ d = [rows |-> d.rows, runs |-> d.runs, asked |-> d.asked]
  <2>1. PICK rs, us, as : db = [rows |-> rs, runs |-> us, asked |-> as]
    BY <1>1 DEF BaseGood, Typed
  <2>2. d = [db EXCEPT !.rows = rows]
    BY DEF Reconciled
  <2> HIDE DEF d, rows
  <2> QED BY <2>1, <2>2
<1>4. rows \in [DOMAIN rows -> Rows] /\ DOMAIN rows = DOMAIN db.rows
  BY <1>1 DEF BaseGood, Typed, Rows
<1>5. \A a \in DOMAIN rows : /\ rows[a].trigger = db.rows[a].trigger
                             /\ rows[a].next = db.rows[a].next
                             /\ rows[a].failures = db.rows[a].failures
  BY <1>1 DEF BaseGood, Typed, Rows
<1>6. Good(d) /\ DOMAIN d.rows = DOMAIN db.rows
  BY ReconciledKeeps
<1> HIDE DEF d, rows
<1>7. BaseGood(d, now, Honest, workers)
  <2>1. Typed(d)
    BY <1>1, <1>3, <1>4 DEF BaseGood, Typed
  <2>2. \A a \in DOMAIN d.rows : Same(db, d, a)
    BY <1>3, <1>4, <1>5 DEF Same, RunsOf
  <2>3. \A a : Pending(d, a, workers) \subseteq workers
    BY DEF Pending
  <2>4. now <= now
    BY <1>1
  <2> QED BY <1>1, <1>6, <2>1, <2>2, <2>3, <2>4, SameGood DEF BaseGood
<1>8. BaseGood(db', now, Honest, workers)
  <2>1. CASE db' = d
    BY <1>7, <2>1
  <2>2. ASSUME NEW outcome \in {"success", "failure"}, NEW prompts,
               db' = EachCaughtUp(d, Due(db) \ prompts, outcome)
        PROVE  BaseGood(db', now, Honest, workers)
    <3>1. Due(db) \ prompts \subseteq DOMAIN d.rows
      BY <1>6 DEF Due
    <3>2. \A e : e = EachCaughtUp(d, Due(db) \ prompts, outcome)
                   => BaseGood(e, now, Honest, workers)
      BY <1>6, <1>7, <3>1, EachCaughtUpGood
    <3> QED BY <2>2, <3>2
  <2> QED BY <2>1, <2>2 DEF StartScheduler, d
<1> QED BY <1>1, <1>2, <1>8, DbChangeGood

LEMMA CommandBooks ==
  ASSUME TypedInv, BookInv, NEW a \in Edited, NEW tr, NEW on \in BOOLEAN,
         (tr \in Triggers /\ Upsert(a, tr, on)) \/ SetEnabled(a, on) \/ Delete(a)
  PROVE  BookInv'
<1>1. [Next]_vars /\ a \in Automations
  BY AutomationAssumption DEF Next
<1>2. UNCHANGED <<now, faults, workers>>
  BY DEF Upsert, SetEnabled, Delete, Command
<1>3. BaseGood(db, now, Honest, workers)
      /\ (Honest => \A w \in workers : w.stage = "claimed" => ClaimSound(w.claim, now))
  BY DEF BookInv, Bases
<1>4. \A e : e = db' => BaseGood(e, now, Honest, workers)
  <2>1. CASE tr \in Triggers /\ Upsert(a, tr, on)
    BY <1>1, <1>3, <2>1, UpsertGood
  <2>2. CASE SetEnabled(a, on)
    BY <1>1, <1>3, <2>2, SetEnabledGood
  <2>3. CASE Delete(a)
    BY <1>1, <1>3, <2>3, DeleteGood
  <2> QED BY <2>1, <2>2, <2>3
<1>5. BaseGood(db', now, Honest, workers')
  BY <1>2, <1>4
<1> QED BY <1>1, <1>2, <1>5, DbChangeGood

\* The invariant below is inductive together with the one above.
Books == IInv /\ TypedInv /\ BookInv

LEMMA BooksStep ==
  ASSUME Books, [Next]_vars
  PROVE  /\ BookInv'
         /\ \A w \in workers' : TypedWorker(w)
<1>1. TypedInv /\ BookInv /\ AtWork /\ Good(db) /\ now \in Nat
  BY AutomationAssumption DEF Books, IInv, DbGood, TypedInv
<1>2. \A w \in workers : TypedWorker(w)
  BY <1>1 DEF TypedInv
<1>3. ASSUME NEW w \in workers, Claim(w) \/ Refuse(w) \/ Finish(w) \/ FinishFails(w)
      PROVE  BookInv' /\ \A v \in workers' : TypedWorker(v)
  <2>1. CASE Claim(w)
    BY <1>1, <2>1, ClaimBooks
  <2>2. CASE Refuse(w)
    <3>1. UNCHANGED <<db, now, faults>> /\ workers' \subseteq workers
      BY <2>2 DEF Refuse, Leave
    <3>2. db' \in Bases /\ now <= now' /\ now' \in Nat /\ Honest' = Honest
      BY <1>1, <3>1 DEF Bases, Honest
    <3> QED BY <1>1, <1>2, <3>1, <3>2, QuietGood
  <2>3. CASE Finish(w) \/ FinishFails(w)
    <3>1. workers' \subseteq workers
      BY <2>3 DEF Finish, FinishFails, Leave
    <3> QED BY <1>1, <1>2, <2>3, <3>1, FinishBooks
  <2> QED BY <1>3, <2>1, <2>2, <2>3
<1>4. CASE StartScheduler
  <2>1. workers' = workers
    BY <1>4 DEF StartScheduler
  <2> QED BY <1>1, <1>2, <1>4, <2>1, StartBooks
<1>5. ASSUME NEW a \in Edited, NEW tr, NEW on \in BOOLEAN,
             Delete(a) \/ SetEnabled(a, on) \/ (tr \in Triggers /\ Upsert(a, tr, on))
      PROVE  BookInv' /\ \A w \in workers' : TypedWorker(w)
  <2>1. workers' = workers
    BY <1>5 DEF Delete, SetEnabled, Upsert
  <2> QED BY <1>1, <1>2, <1>5, <2>1, CommandBooks
<1>6. CASE Backup \/ BeginRestore \/ AbandonRestore \/ InstallFails \/ EndRestore \/ UNCHANGED vars
  <2>1. UNCHANGED <<db, now, workers>> /\ (Honest' => Honest)
    BY <1>6 DEF Backup, BeginRestore, AbandonRestore, InstallFails, EndRestore, vars, Command,
                Fault, Honest
  <2>2. db' \in Bases /\ now <= now' /\ now' \in Nat
    BY <1>1, <2>1 DEF Bases
  <2> QED BY <1>1, <1>2, <2>1, <2>2, QuietGood
<1>14. ASSUME restore \in {"staging", "swapped"} PROVE saved[1] \in Bases
  <2>1. saved # << >>
    BY <1>14 DEF Books, IInv, DbGood, GoodBackup, Restorable
  <2>2. PICK b : saved = << b >>
    BY <1>1, <2>1 DEF TypedInv
  <2>3. saved[1] = b /\ b \in Range(saved)
    BY <2>2 DEF Range
  <2> QED BY <2>3 DEF Bases
<1>7. CASE Install \/ SwapAssets \/ AssetsFail
  <2>1. UNCHANGED <<now, workers>> /\ (Honest' => Honest)
    BY <1>7 DEF Install, SwapAssets, AssetsFail, Fault, Honest
  <2>2. db' \in Bases
    BY <1>7, <1>14 DEF Install, SwapAssets, AssetsFail, Bases
  <2>3. now <= now' /\ now' \in Nat
    BY <1>1, <2>1
  <2> QED BY <1>1, <1>2, <2>1, <2>2, <2>3, QuietGood
<1>8. CASE Clock
  <2>1. UNCHANGED <<db, workers, faults>> /\ now' = now + 1
    BY <1>8 DEF Clock
  <2>2. db' \in Bases /\ now <= now' /\ now' \in Nat /\ Honest' = Honest
    BY <1>1, <2>1 DEF Bases, Honest
  <2> QED BY <1>1, <1>2, <2>1, <2>2, QuietGood
<1>9. CASE SetBack
  <2>1. UNCHANGED <<db, workers>> /\ now' = now - 1 /\ now > 0 /\ faults' = faults \cup {"setback"}
    BY <1>9 DEF SetBack, Fault
  <2>2. db' \in Bases /\ now' \in Nat /\ ~ Honest'
    BY <1>1, <2>1 DEF Bases, Honest
  <2> QED BY <1>1, <1>2, <2>1, <2>2, QuietGood
<1>10. CASE Crash
  <2>1. now' = now /\ workers' = {} /\ (Honest' => Honest)
    BY <1>10 DEF Crash, Fault, Honest
  <2>2. db' \in Bases
    BY <1>10, <1>14 DEF Crash, Bases
  <2>3. now <= now' /\ now' \in Nat
    BY <1>1, <2>1
  <2> QED BY <1>1, <2>1, <2>2, <2>3, QuietGood
<1>11. ASSUME NEW S, NEW origin, S \subseteq Automations,
              UNCHANGED <<db, now, faults>>,
              workers' = workers \cup {Begun(a, origin) : a \in S}
       PROVE  BookInv' /\ \A w \in workers' : TypedWorker(w)
  <2>1. \A a \in S : Begun(a, origin).stage # "claimed" /\ TypedWorker(Begun(a, origin))
    BY <1>11 DEF Begun, TypedWorker
  <2>2. db' \in Bases /\ now <= now' /\ now' \in Nat /\ Honest' = Honest
    BY <1>1, <1>11 DEF Bases, Honest
  <2>3. \A w \in workers' : w.stage = "claimed" => w \in workers
    BY <1>11, <2>1
  <2> QED BY <1>1, <1>2, <1>11, <2>1, <2>2, <2>3, QuietGood
<1>12. CASE Tick
  <2>1. PICK batch \in Batches({a \in Due(db) : MayBegin(a)}) :
          workers' = workers \cup {Begun(a, "scheduled") : a \in batch}
    BY <1>12 DEF Tick
  <2>2. batch \subseteq Automations
    BY <1>1 DEF Batches, Due, BookInv, Bases, BaseGood, Typed
  <2>3. UNCHANGED <<db, now, faults>>
    BY <1>12 DEF Tick
  <2> QED BY <1>11, <2>1, <2>2, <2>3
<1>13. ASSUME NEW a \in Edited, RunNow(a)
       PROVE  BookInv' /\ \A w \in workers' : TypedWorker(w)
  <2> DEFINE S == {a}
  <2>1. workers' = workers \cup {Begun(b, "manual") : b \in S} /\ UNCHANGED <<db, now, faults>>
    BY <1>13 DEF RunNow, Command
  <2>2. S \subseteq Automations
    BY AutomationAssumption
  <2> HIDE DEF S
  <2> QED BY <1>11, <2>1, <2>2
<1> QED BY <1>3, <1>4, <1>5, <1>6, <1>7, <1>8, <1>9, <1>10, <1>12, <1>13 DEF Next

\* Whoever is marked as at work has a worker; counters stay within their bounds.
LEMMA MarksStep ==
  ASSUME TypedInv, [Next]_vars
  PROVE  /\ \A a \in running' : \E w \in workers' : w.of = a
         /\ commands' \in 0..MaxCommands
         /\ now' \in 0..MaxTime
<1>1. (\A a \in running : \E w \in workers : w.of = a)
      /\ commands \in 0..MaxCommands /\ now \in 0..MaxTime
      /\ MaxCommands \in Nat /\ MaxTime \in Nat
  BY AutomationAssumption DEF TypedInv
<1>2. ASSUME NEW w \in workers, Claim(w) \/ Refuse(w) \/ Finish(w) \/ FinishFails(w)
      PROVE  (\A a \in running' : \E v \in workers' : v.of = a) /\ UNCHANGED <<commands, now>>
  <2>1. CASE Claim(w)
    <3>1. PICK c : workers' = (workers \ {w}) \cup {WithClaim(w, c)}
      BY <2>1 DEF Claim, WithClaim
    <3> DEFINE x == WithClaim(w, c)
    <3>2. x.of = w.of
      <4>1. x = WithClaim(w, c) /\ TypedWorker(w)
        BY DEF TypedInv
      <4> HIDE DEF x
      <4> QED BY <4>1, WorkerClaims
    <3>3. running' = running /\ UNCHANGED <<commands, now>>
      BY <2>1 DEF Claim, handle
    <3> HIDE DEF x
    <3>4. workers' = (workers \ {w}) \cup {x}
      BY <3>1 DEF x
    <3>5. ASSUME NEW a \in running PROVE \E v \in workers' : v.of = a
      <4>1. PICK v \in workers : v.of = a
        BY <1>1
      <4> QED BY <3>2, <3>4, <4>1
    <3> QED BY <3>3, <3>5
  <2>2. CASE Refuse(w) \/ Finish(w) \/ FinishFails(w)
    <3>1. workers' = workers \ {w} /\ running' = running \ {w.of} /\ UNCHANGED <<commands, now>>
      BY <2>2 DEF Refuse, Finish, FinishFails, Leave, Fault
    <3> QED BY <1>1, <3>1
  <2> QED BY <1>2, <2>1, <2>2
<1>3. ASSUME NEW S, NEW origin, running' = running \cup S,
             workers' = workers \cup {Begun(a, origin) : a \in S}
      PROVE  \A a \in running' : \E w \in workers' : w.of = a
  <2>1. \A a \in S : Begun(a, origin) \in workers' /\ Begun(a, origin).of = a
    BY <1>3 DEF Begun
  <2> QED BY <1>1, <1>3, <2>1
<1>4. CASE Tick
  <2>1. UNCHANGED <<commands, now>>
    BY <1>4 DEF Tick
  <2>2. PICK batch : /\ running' = running \cup batch
                     /\ workers' = workers \cup {Begun(a, "scheduled") : a \in batch}
    BY <1>4 DEF Tick
  <2> QED BY <1>1, <1>3, <2>1, <2>2
<1>5. ASSUME NEW a, RunNow(a)
      PROVE  /\ \A b \in running' : \E w \in workers' : w.of = b
             /\ commands' \in 0..MaxCommands /\ UNCHANGED now
  <2> DEFINE S == {a}
  <2>1. running' = running \cup S /\ workers' = workers \cup {Begun(b, "manual") : b \in S}
    BY <1>5 DEF RunNow
  <2>2. commands' \in 0..MaxCommands /\ UNCHANGED now
    BY <1>1, <1>5 DEF RunNow, Command
  <2> HIDE DEF S
  <2> QED BY <1>3, <2>1, <2>2
<1>6. ASSUME NEW a, NEW tr, NEW on,
             Delete(a) \/ SetEnabled(a, on) \/ Upsert(a, tr, on) \/ Backup \/ BeginRestore
      PROVE  UNCHANGED <<running, workers, now>> /\ commands' \in 0..MaxCommands
  BY <1>1, <1>6 DEF Delete, SetEnabled, Upsert, Backup, BeginRestore, Command, handle
<1>7. CASE StartScheduler \/ AbandonRestore \/ Install \/ InstallFails \/ SwapAssets \/ AssetsFail
           \/ EndRestore \/ UNCHANGED vars
  BY <1>1, <1>7 DEF StartScheduler, AbandonRestore, Install, InstallFails, SwapAssets, AssetsFail,
                    EndRestore, Fault, vars, handle
<1>8. CASE Clock \/ SetBack
  <2>1. UNCHANGED <<running, workers, commands>> /\ now' \in 0..MaxTime
    BY <1>1, <1>8 DEF Clock, SetBack, Fault, handle
  <2> QED BY <1>1, <2>1
<1>9. CASE Crash
  BY <1>1, <1>9 DEF Crash, Fault
<1> QED BY <1>1, <1>2, <1>4, <1>5, <1>6, <1>7, <1>8, <1>9 DEF Next

LEMMA BooksInit == Init => Books
<1> SUFFICES ASSUME Init PROVE Books
  OBVIOUS
<1> DEFINE rows == [a \in Automations |-> NewRow(Trigger[a])]
           asked == [a \in Automations |-> NoWish]
<1>1. /\ db = [rows |-> rows, runs |-> {}, asked |-> asked]
      /\ now = 0 /\ saved = << >> /\ workers = {} /\ running = {} /\ commands = 0
  BY DEF Init
<1>2. Bases = {db}
  BY <1>1 DEF Bases, Range
<1>3. ASSUME NEW a \in Automations
      PROVE  rows[a] \in Rows /\ rows[a].failures = 0 /\ asked[a] \in Wishes
             /\ asked[a].next = Never
             /\ rows[a].trigger = Trigger[a] /\ rows[a].next = NextAfter(Trigger[a], 0)
  <2>1. Trigger[a] \in Triggers
    BY AutomationAssumption
  <2>2. NextAfter(Trigger[a], 0) \in Times
    BY <2>1, NextAfterGrows
  <2> QED BY <1>1, <2>1, <2>2 DEF NewRow, NoWish, Rows, Wishes, Times
<1>4. rows \in [Automations -> Rows] /\ asked \in [Automations -> Wishes]
  BY <1>3
<1>5. DOMAIN rows = Automations
  OBVIOUS
<1> HIDE DEF rows, asked
<1>6. Typed(db)
  <2>1. db.rows = rows /\ db.runs = {} /\ db.asked = asked
        /\ db = [rows |-> db.rows, runs |-> db.runs, asked |-> db.asked]
    BY <1>1
  <2> QED BY <1>4, <1>5, <2>1, FS_EmptySet DEF Typed
<1>7. ASSUME NEW a \in DOMAIN db.rows PROVE RowGood(db, a, now, Honest, workers)
  <2>1. db.rows[a] = rows[a] /\ db.asked[a] = asked[a] /\ RunsOf(db, a) = {} /\ a \in Automations
    BY <1>1, <1>5, <1>7 DEF RunsOf
  <2>2. Pending(db, a, workers) = {}
    BY <1>1 DEF Pending
  <2>3. CountGood(db, a, workers)
    BY <1>3, <2>1, <2>2, FS_EmptySet DEF CountGood
  <2>4. ScheduleGood(db, a, now, workers)
    <3>1. 0 \in 0..now
      BY <1>1
    <3> QED BY <1>3, <2>1, <2>2, <3>1 DEF ScheduleGood
  <2> QED BY <2>3, <2>4 DEF RowGood
<1>8. BookInv
  BY <1>1, <1>2, <1>6, <1>7 DEF BookInv, BaseGood
<1>9. TypedInv
  BY <1>1, <1>2, <1>6, AutomationAssumption DEF TypedInv
<1> QED BY <1>8, <1>9, InvInit DEF Books

LEMMA BooksInductive == Books /\ [Next]_vars => Books'
<1> SUFFICES ASSUME Books, [Next]_vars PROVE Books'
  OBVIOUS
<1>1. IInv' /\ BookInv' /\ \A w \in workers' : TypedWorker(w)
  BY InvStep, BooksStep DEF Books
<1>2. TypedInv'
  <2>1. \A d \in Bases' : Typed(d)
    BY <1>1 DEF BookInv, BaseGood
  <2>2. \E d : saved' \in {<< >>, << d >>}
    BY BasesStep DEF Books
  <2>3. /\ \A a \in running' : \E w \in workers' : w.of = a
        /\ commands' \in 0..MaxCommands /\ now' \in 0..MaxTime
    BY MarksStep DEF Books
  <2>4. running' \subseteq Automations
    BY <1>1, <2>3 DEF TypedWorker
  <2> QED BY <1>1, <2>1, <2>2, <2>3, <2>4 DEF TypedInv
<1> QED BY <1>1, <1>2 DEF Books

LEMMA BooksHold == Spec => []Books
BY BooksInit, BooksInductive, PTL DEF Spec

\* For any automations, triggers and bounds, and however long runs take: as long as
\* the clock is not set back, a run that finalizes leaves the schedule the user
\* set meanwhile, also when a backup was restored under it (final_next).
THEOREM UserSchedulesStay == Spec => []UserScheduleKept
<1>1. Books => UserScheduleKept
  <2> SUFFICES ASSUME Books, Honest, NEW a \in DOMAIN db.rows,
                      Computable(db.rows[a].trigger), db.asked[a].next # Never
               PROVE  db.rows[a].next = db.asked[a].next
    BY DEF UserScheduleKept, Honest
  <2> QED BY DEF Books, BookInv, Bases, BaseGood, RowGood, ScheduleGood
<1> QED BY <1>1, BooksHold, PTL

\* The types of every variable; in particular nothing fails more often than it
\* runs, and an automation is marked as at work exactly while it has a worker.
THEOREM SchedulerTypeCorrect == Spec => []TypeOK
<1>1. Books => TypeOK
  <2> SUFFICES ASSUME Books PROVE TypeOK
    OBVIOUS
  <2>1. Typed(db) /\ \A a \in DOMAIN db.rows : CountGood(db, a, workers)
    BY DEF Books, BookInv, Bases, BaseGood, RowGood
  <2>2. ASSUME NEW a \in DOMAIN db.rows
        PROVE  /\ db.rows[a].trigger \in Triggers
               /\ {db.rows[a].next, db.rows[a].last} \subseteq Nat \cup {Never}
               /\ db.rows[a].failures \in 0..Cardinality(db.runs)
    <3>1. db.rows[a] \in Rows
      BY <2>1 DEF Typed
    <3>2. Cardinality(RunsOf(db, a)) <= Cardinality(db.runs)
          /\ Cardinality(RunsOf(db, a)) \in Nat /\ Cardinality(db.runs) \in Nat
      <4>1. RunsOf(db, a) \subseteq db.runs /\ IsFiniteSet(db.runs)
        BY <2>1 DEF RunsOf, Typed
      <4> QED BY <2>1, <4>1, RunsFinite, FS_Subset, FS_CardinalityType
    <3>3. db.rows[a].failures <= Cardinality(RunsOf(db, a))
      BY <2>1 DEF CountGood
    <3> QED BY <3>1, <3>2, <3>3 DEF Rows, Times
  <2>3. Len(saved) <= 1
    <3>1. PICK d : saved \in {<< >>, << d >>}
      BY DEF Books, TypedInv
    <3>2. Len(<< >>) = 0 /\ Len(<< d >>) = 1
      OBVIOUS
    <3>3. CASE saved = << >>
      BY <3>2, <3>3
    <3>4. CASE saved = << d >>
      BY <3>2, <3>4
    <3> QED BY <3>1, <3>3, <3>4
  <2>4. {w.of : w \in workers} = running
    BY DEF Books, TypedInv, IInv, AtWork
  <2>5. {w.stage : w \in workers} \subseteq {"begun", "claimed"}
    BY DEF Books, TypedInv, TypedWorker
  <2>6. db.asked \in [Automations -> [paused : BOOLEAN, next : Nat \cup {Never}]]
    BY <2>1 DEF Typed, Wishes, Times
  <2>7. DOMAIN db.rows \subseteq Automations /\ running \subseteq Automations
        /\ commands \in 0..MaxCommands /\ now \in 0..MaxTime
    BY <2>1 DEF Books, TypedInv, Typed
  <2> QED BY <2>2, <2>3, <2>4, <2>5, <2>6, <2>7 DEF TypeOK
<1> QED BY <1>1, BooksHold, PTL
=============================================================================
