---------------------------- MODULE EventOutbox -----------------------------
(***************************************************************************)
(* The post-commit outbox (runtime_v2/outbox.rs) and the event bus         *)
(* (runtime_v2/events.rs).  A transaction changes subscriptions in SQLite  *)
(* and leaves, as rows of commit_event_outbox, what the bus in memory must *)
(* do after the commit; the flush does it row by row.  A dispatched event  *)
(* runs the handler of each subscription it matches: the handler commits   *)
(* in its own transaction and the delivery is marked afterwards.           *)
(*                                                                         *)
(* Left out: what handlers do, and the child events they may submit; the   *)
(* rules by which the bus refuses an event (loops, rates, projects), which *)
(* are the choice "refused"; conversations.                                *)
(***************************************************************************)
EXTENDS Integers, Sequences, FiniteSets, SequencesExt

CONSTANTS
  Surfaces,
  Subs,              \* subscription ids
  Owner,             \* Owner[s]: the surface that holds s
  Events,
  Hears,             \* Hears[e]: the subscriptions whose filters match e
  End,               \* End[w]: the event of the deletion of w
  Transactions,      \* the sequences of operations that may be committed
  MaxSubscriptions,  \* MAX_SUBSCRIPTIONS_PER_SURFACE
  FlushLimit,        \* rows one flush takes
  MaxRows,           \* bound on the outbox
  MaxCrashes          \* bound

SubOps == {"subscribe", "unsubscribe", "enable", "disable"}
Operations ==
  [op : SubOps, of : Subs] \cup [op : {"delete"}, of : Surfaces]
    \cup [op : {"dispatch"}, of : Events \ Range(End)]

ASSUME OutboxAssumption ==
  /\ IsFiniteSet(Subs)
  /\ Owner \in [Subs -> Surfaces]
  /\ Hears \in [Events -> SUBSET Subs]
  /\ End \in [Surfaces -> Events] /\ IsInjective(End)
  /\ Transactions \subseteq Seq(Operations)
  /\ {MaxSubscriptions, FlushLimit, MaxRows, MaxCrashes} \subseteq Nat

VARIABLES
  alive,      \* surfaces that exist
  subs,       \* surface_subscriptions
  outbox,     \* commit_event_outbox in the order of created_at, sequence
  delivered,  \* <<e, s>> with a delivered row in surface_event_deliveries
  ran,        \* ran[<<e, s>>]: how often the handler's effect was committed
  known,      \* the bus: subscriptions by id
  listed,     \* the bus: how often s is in its owner's list
  flush,      \* the flush under way
  crashes,
  heard,      \* history: the subscriptions that were on when e was committed
  refused,    \* history: events the bus refused at least once
  strays      \* history: where the bus and the table part (see BusInSync)

db == <<alive, subs, outbox, delivered, ran>>
bus == <<known, listed>>
history == <<heard, refused, strays>>
vars == <<db, bus, flush, crashes, history>>

States == {"none", "on", "off"}
NoFlush == [rows |-> {}, stage |-> "next", left |-> {}, now |-> {}, ok |-> TRUE]
\* Mutant: the latest row first.
LatestFirst == Max(flush.rows)
\* The row the flush has come to.
Head1 == Min(flush.rows)
Event1 == outbox[Head1].of

-----------------------------------------------------------------------------
(* Transactions *)

OwnedBy(w) == {s \in Subs : Owner[s] = w}
Row(effect, of) == [effect |-> effect, of |-> of, status |-> "pending"]
Changed(at, s, state, effect) ==
  [at EXCEPT !.subs[s] = state, !.rows = Append(@, Row(effect, s))]
Published(at, e) ==
  [at EXCEPT !.rows = Append(@, Row("dispatch", e)),
             !.heard[e] = {s \in Hears[e] : at.subs[s] = "on"}]

Sent(rows) == {rows[k].of : k \in {j \in DOMAIN rows : rows[j].effect = "dispatch"}}

CanDo(o, at) ==
  \/ o.op = "subscribe" /\ Owner[o.of] \in at.alive
  \/ o.op \in SubOps \ {"subscribe"} /\ at.subs[o.of] # "none"
  \/ o.op = "dispatch" /\ o.of \notin Sent(at.rows)
  \/ o.op = "delete" /\ o.of \in at.alive

\* A row that goes, or is replaced, takes the marks of its deliveries along.
Unmarked(at, owned) == [at EXCEPT !.marks = {m \in @ : m[2] \notin owned}]
Deleted(at, w) ==
  [at EXCEPT !.alive = @ \ {w},
             !.subs = [s \in Subs |-> IF Owner[s] = w THEN "none" ELSE @[s]],
             !.rows = Append(@, Row("remove_surface", w))]

\* The operation's arm of apply_one.
Done(o, at) ==
  CASE o.op = "subscribe" -> Unmarked(Changed(at, o.of, "on", "add"), {o.of})
    [] o.op = "unsubscribe" -> Unmarked(Changed(at, o.of, "none", "remove"), {o.of})
    [] o.op = "enable" -> Changed(at, o.of, "on", "enable")
    [] o.op = "disable" -> Changed(at, o.of, "off", "disable")
    [] o.op = "dispatch" -> Published(at, o.of)
    [] o.op = "delete" ->
         Published(Unmarked(Deleted(at, o.of), OwnedBy(o.of)), End[o.of])

RunAll(t) ==
  LET Step(at, o) == IF at.ok /\ CanDo(o, at) THEN Done(o, at) ELSE [at EXCEPT !.ok = FALSE]
  IN  FoldLeft(Step, [ok |-> TRUE, alive |-> alive, subs |-> subs, rows |-> outbox,
                      marks |-> delivered, heard |-> heard], t)

PendingRows(rows) == {k \in DOMAIN rows : rows[k].status = "pending"}
\* The rows one flush takes: the first ones.
Taken(rows) ==
  {k \in PendingRows(rows) : Cardinality({j \in PendingRows(rows) : j < k}) < FlushLimit}

\* apply_change: COMMIT, then flush_pending_outbox under the same lock.
CommitTransaction(t) ==
  /\ flush = NoFlush
  /\ RunAll(t).ok
  /\ Len(RunAll(t).rows) <= MaxRows
  /\ LET at == RunAll(t)
     IN  /\ alive' = at.alive
         /\ subs' = at.subs
         /\ outbox' = at.rows
         /\ delivered' = at.marks
         /\ heard' = at.heard
         /\ flush' = [NoFlush EXCEPT !.rows = Taken(at.rows)]
  /\ UNCHANGED <<ran, bus, crashes, refused, strays>>

\* undo_transaction of a surface's creation: its rows go, the bus is not told.
UndoCreation(w) ==
  /\ flush = NoFlush
  /\ w \in alive
  /\ alive' = alive \ {w}
  /\ subs' = [s \in Subs |-> IF Owner[s] = w THEN "none" ELSE subs[s]]
  /\ delivered' = {m \in delivered : Owner[m[2]] # w}
  /\ strays' = strays \cup OwnedBy(w)
  /\ UNCHANGED <<outbox, ran, bus, flush, crashes, heard, refused>>

-----------------------------------------------------------------------------
(* Flush *)

RowSettled(status) == outbox' = [outbox EXCEPT ![Head1].status = status]
NextRow == flush' = [NoFlush EXCEPT !.rows = flush.rows \ {Head1}]
InList(w, list) == FoldFunctionOnSet(+, 0, list, OwnedBy(w))

\* EventBus::remove_subscriptions_for_surface.
ForgetSurface(w) ==
  /\ known' = [s \in Subs |-> IF Owner[s] = w /\ listed[s] > 0 THEN "none" ELSE known[s]]
  /\ listed' = [s \in Subs |-> IF Owner[s] = w THEN 0 ELSE listed[s]]

\* Mutant: no limit.
AddUnlimited(s) ==
  /\ known' = [known EXCEPT ![s] = "on"]
  /\ listed' = [listed EXCEPT ![s] = @ + 1]
\* EventBus::add_subscription and the other effects on the bus.
AddToBus(s) ==
  /\ InList(Owner[s], listed) < MaxSubscriptions
  /\ known' = [known EXCEPT ![s] = "on"]
  /\ listed' = [listed EXCEPT ![s] = @ + 1]

RemoveFromBus(s) ==
  /\ known' = [known EXCEPT ![s] = "none"]
  /\ listed' = [listed EXCEPT ![s] = IF known[s] = "none" THEN @ ELSE 0]

SetEnabled(s, state) ==
  /\ known' = [known EXCEPT ![s] = IF @ = "none" THEN @ ELSE state]
  /\ UNCHANGED listed

ApplyEffect(row) ==
  \/ row.effect = "add" /\ AddToBus(row.of)
  \/ row.effect = "remove" /\ RemoveFromBus(row.of)
  \/ row.effect = "enable" /\ SetEnabled(row.of, "on")
  \/ row.effect = "disable" /\ SetEnabled(row.of, "off")
  \/ row.effect = "remove_surface" /\ ForgetSurface(row.of)

FlushRow == flush.rows # {} /\ flush.stage = "next"

FlushEffect ==
  /\ FlushRow
  /\ ApplyEffect(outbox[Head1])
  /\ RowSettled("delivered")
  /\ NextRow
  /\ UNCHANGED <<alive, subs, delivered, ran, crashes, history>>

\* SubscriptionLimit: the row stays, the rows after it are applied.
FlushOverLimit ==
  /\ FlushRow
  /\ outbox[Head1].effect = "add"
  /\ InList(Owner[Event1], listed) >= MaxSubscriptions
  /\ NextRow
  /\ strays' = strays \cup {Event1}
  /\ UNCHANGED <<db, bus, crashes, heard, refused>>

\* bus.dispatch refuses: the row stays pending.
DispatchRefused ==
  /\ FlushRow
  /\ outbox[Head1].effect = "dispatch"
  /\ refused' = refused \cup {Event1}
  /\ NextRow
  /\ UNCHANGED <<db, bus, crashes, heard, strays>>

\* bus.dispatch: the subscriptions the event matches.
Dispatch ==
  /\ FlushRow
  /\ outbox[Head1].effect = "dispatch"
  /\ flush' = [flush EXCEPT !.stage = "deliver",
                            !.left = {s \in Hears[Event1] : known[s] = "on"}]
  /\ UNCHANGED <<db, bus, crashes, history>>

\* Mutant: a delivery is not looked up.
NeverSkippable(e, s) == FALSE
Skippable(e, s) == <<e, s>> \in delivered

\* execute_durable_event_delivery up to the handler's commit.  The insert that
\* satisfies the foreign key brings a subscription back that is no longer there.
Deliver(s) ==
  /\ flush.stage = "deliver"
  /\ s \in flush.left
  /\ \/ /\ Skippable(Event1, s)
        /\ flush' = [flush EXCEPT !.left = @ \ {s}]
        /\ UNCHANGED <<subs, ran, strays>>
     \/ /\ ~ Skippable(Event1, s)
        /\ Owner[s] \in alive
        /\ subs' = [subs EXCEPT ![s] = IF @ = "none" THEN "on" ELSE @]
        /\ strays' = IF subs[s] = "none" THEN strays \cup {s} ELSE strays
        /\ \/ /\ ran' = [ran EXCEPT ![<<Event1, s>>] = @ + 1]
              /\ flush' = [flush EXCEPT !.stage = "mark", !.left = @ \ {s}, !.now = {s}]
           \/ /\ flush' = [flush EXCEPT !.left = {}, !.ok = FALSE]
              /\ UNCHANGED ran
     \/ /\ ~ Skippable(Event1, s)
        /\ Owner[s] \notin alive
        /\ flush' = [flush EXCEPT !.left = {}, !.ok = FALSE]
        /\ UNCHANGED <<subs, ran, strays>>
  /\ UNCHANGED <<alive, outbox, delivered, bus, crashes, heard, refused>>

\* The update of the delivery's row, in a statement of its own.
MarkDelivered ==
  /\ flush.stage = "mark"
  /\ delivered' = delivered \cup {<<Event1, s>> : s \in flush.now}
  /\ flush' = [flush EXCEPT !.stage = "deliver", !.now = {}]
  /\ UNCHANGED <<alive, subs, outbox, ran, bus, crashes, history>>

\* Mutant: what was dispatched counts as delivered.
OutcomeIgnored(ok) == "delivered"
Outcome(ok) == IF ok THEN "delivered" ELSE "failed"

DispatchDone ==
  /\ flush.stage = "deliver"
  /\ flush.left = {}
  /\ RowSettled(Outcome(flush.ok))
  /\ NextRow
  /\ UNCHANGED <<alive, subs, delivered, ran, bus, crashes, history>>

-----------------------------------------------------------------------------
(* Restart *)

\* Mutant: the enabled column is not read.
LoadedEnabled(kept) == [s \in Subs |-> IF s \in kept THEN "on" ELSE "none"]
\* EventBus::load_from_db; what is over the limit is dropped.
Loaded(kept) == [s \in Subs |-> IF s \in kept THEN subs[s] ELSE "none"]

\* A limited load keeps some of the rows, as many as fit.
WithinLimit(kept) ==
  \A w \in Surfaces :
    LET stored == {s \in OwnedBy(w) : subs[s] # "none"}
    IN  /\ kept \cap OwnedBy(w) \subseteq stored
        /\ kept \cap OwnedBy(w) = stored \/ Cardinality(kept \cap OwnedBy(w)) = MaxSubscriptions
        /\ Cardinality(kept \cap OwnedBy(w)) <= MaxSubscriptions

\* The process dies and starts: AppState::new loads the bus and flushes.
Restart ==
  /\ crashes < MaxCrashes
  /\ crashes' = crashes + 1
  /\ \E kept \in SUBSET Subs :
       /\ WithinLimit(kept)
       /\ known' = Loaded(kept)
       /\ listed' = [s \in Subs |-> IF s \in kept THEN 1 ELSE 0]
       /\ strays' = {s \in Subs : subs[s] # "none" /\ s \notin kept}
                      \cup {s \in strays : \E k \in DOMAIN outbox :
                                outbox[k].of = s /\ outbox[k].status = "pending"}
  /\ flush' = [NoFlush EXCEPT !.rows = Taken(outbox)]
  /\ UNCHANGED <<db, heard, refused>>

Init ==
  /\ alive = Surfaces
  /\ subs = [s \in Subs |-> "none"]
  /\ outbox = << >>
  /\ delivered = {}
  /\ ran = [m \in Events \X Subs |-> 0]
  /\ known = subs
  /\ listed = [s \in Subs |-> 0]
  /\ flush = NoFlush
  /\ crashes = 0
  /\ heard = [e \in Events |-> {}]
  /\ refused = {}
  /\ strays = {}

Next ==
  \/ \E t \in Transactions : CommitTransaction(t)
  \/ \E w \in Surfaces : UndoCreation(w)
  \/ FlushEffect
  \/ FlushOverLimit
  \/ DispatchRefused
  \/ Dispatch
  \/ \E s \in Subs : Deliver(s)
  \/ MarkDelivered
  \/ DispatchDone
  \/ Restart

Spec == Init /\ [][Next]_vars

-----------------------------------------------------------------------------
(* Properties *)

TypeOK ==
  /\ alive \subseteq Surfaces
  /\ subs \in [Subs -> States]
  /\ known \in [Subs -> States]
  /\ \A w \in Surfaces : InList(w, listed) \in 0..MaxSubscriptions
  /\ \A k \in DOMAIN outbox : outbox[k].status \in {"pending", "delivered", "failed"}
  /\ delivered \subseteq Events \X Subs
  /\ ran \in [Events \X Subs -> 0..MaxCrashes + 1]
  /\ flush.stage \in {"next", "deliver", "mark"}
  /\ crashes \in 0..MaxCrashes

Settled == flush = NoFlush /\ \A k \in DOMAIN outbox : outbox[k].status # "pending"

\* Once nothing is pending the bus knows what the table holds, enabled or not,
\* whatever crashed between a commit and its flush and however effects were
\* replayed on a bus loaded from the newer table.  Strays, the only exceptions:
\* what the bus' limit refused, what an undo deleted, and what a late delivery
\* wrote back after it was removed.
BusInSync == Settled => \A s \in Subs \ strays : known[s] = subs[s]

\* A delivery that is marked is not run again by any later flush, in spite of
\* the crash that leaves its outbox row pending.
MarkedRunsNoMore == [][\A m \in delivered : ran'[m] = ran[m]]_vars

\* Without a crash an event that was not refused runs handlers of those only
\* that were subscribed when it was committed, and each at most once: no
\* earlier or later subscribe, disable or delete is seen by it.
HeardInOrder ==
  crashes = 0 =>
    \A e \in Events \ refused, s \in Subs \ strays :
      ran[<<e, s>>] <= IF s \in heard[e] THEN 1 ELSE 0

\* And a row that says "delivered" ran all of them, not the ones before the
\* first that failed.
DeliveredToAll ==
  crashes = 0 =>
    \A k \in DOMAIN outbox :
      outbox[k].effect = "dispatch" /\ outbox[k].status = "delivered"
        /\ outbox[k].of \notin refused =>
           \A s \in heard[outbox[k].of] \ strays : ran[<<outbox[k].of, s>>] = 1
=============================================================================
