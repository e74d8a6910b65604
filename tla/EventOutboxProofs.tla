------------------------- MODULE EventOutboxProofs -------------------------
(***************************************************************************)
(* For any subscriptions, events, transactions and bounds: what the        *)
(* pending rows of the outbox will make of the bus is what the tables say, *)
(* and who hears an event is who was subscribed at its commit.             *)
(***************************************************************************)
EXTENDS EventOutbox, FoldLemmas, FiniteSetTheorems

Presence == {"add", "remove", "remove_surface"}
Toggles == {"enable", "disable"}
AnyEffect == Presence \cup Toggles

RowStatus == {"pending", "delivered", "failed"}
OutboxRow ==
  [effect : {"add", "remove"} \cup Toggles, of : Subs, status : RowStatus]
    \cup [effect : {"remove_surface"}, of : Surfaces, status : RowStatus]
    \cup [effect : {"dispatch"}, of : Events, status : RowStatus]

\* The row will change what the bus has of s; what it will have then.
Touches(row, s, effects) ==
  /\ row.status = "pending"
  /\ row.effect \in effects
  /\ row.of = IF row.effect = "remove_surface" THEN Owner[s] ELSE s
Makes(row) ==
  IF row.effect \in {"add", "enable"} THEN "on"
  ELSE IF row.effect = "disable" THEN "off"
  ELSE "none"

\* What a bus b will have of s when it comes to row k, by the rows before it
\* with one of these effects.
Coming(rows, s, k, effects) ==
  {j \in DOMAIN rows : j < k /\ Touches(rows[j], s, effects)}
ValueAt(rows, b, s, k, effects) ==
  IF Coming(rows, s, k, effects) = {} THEN b[s]
  ELSE Makes(rows[Max(Coming(rows, s, k, effects))])

-----------------------------------------------------------------------------
(* The value at a row *)

LEMMA MinOfPlaces ==
  ASSUME NEW S \in SUBSET Nat, S # {}
  PROVE  Min(S) \in S /\ \A y \in S : Min(S) <= y
<1> DEFINE R == OpToRel(<, Nat)
<1>1. IsWellFoundedOn(R, Nat)
  BY NatLessThanWellFounded
<1>2. \A j, k \in Nat : j < k => <<j, k>> \in R
  BY DEF OpToRel
<1> HIDE DEF R
<1>3. PICK x \in S : \A y \in S : ~ (<<y, x>> \in R)
  BY <1>1, WFMin
<1>4. \A y \in S : x <= y
  <2> TAKE y \in S
  <2>1. x \in Nat /\ y \in Nat /\ ~ (y < x)
    BY <1>2, <1>3
  <2> QED BY <2>1
<1> QED BY <1>4, Zenon DEF Min

LEMMA ComingPlaces ==
  ASSUME NEW rows \in Seq(OutboxRow), NEW s, NEW k, NEW effects
  PROVE  Coming(rows, s, k, effects) \in SUBSET (1..Len(rows))
BY DEF Coming

LEMMA SameComing ==
  ASSUME NEW rows \in Seq(OutboxRow), NEW rows2 \in Seq(OutboxRow), NEW s, NEW k, NEW k2,
         NEW effects, NEW b, NEW b2,
         Coming(rows2, s, k2, effects) = Coming(rows, s, k, effects),
         \A j \in Coming(rows, s, k, effects) : Makes(rows2[j]) = Makes(rows[j]),
         Coming(rows, s, k, effects) = {} => b2[s] = b[s]
  PROVE  ValueAt(rows2, b2, s, k2, effects) = ValueAt(rows, b, s, k, effects)
<1> DEFINE c == Coming(rows, s, k, effects)
<1>1. c \in SUBSET (1..Len(rows)) /\ Len(rows) \in Nat
  BY ComingPlaces
<1>2. CASE c = {}
  BY <1>2 DEF ValueAt
<1>3. CASE c # {}
  <2>1. Max(c) \in c
    BY <1>1, <1>3, MaxOfPlaces
  <2> QED BY <1>3, <2>1 DEF ValueAt
<1> QED BY <1>2, <1>3

\* A row at the end says nothing of what comes before it.
LEMMA ValueBefore ==
  ASSUME NEW rows \in Seq(OutboxRow), NEW r \in OutboxRow, NEW b, NEW s,
         NEW k \in 1..(Len(rows) + 1), NEW effects
  PROVE  ValueAt(Append(rows, r), b, s, k, effects) = ValueAt(rows, b, s, k, effects)
<1>1. Append(rows, r) \in Seq(OutboxRow)
  OBVIOUS
<1>2. \A j \in 1..Len(rows) : Append(rows, r)[j] = rows[j]
  OBVIOUS
<1>3. Coming(Append(rows, r), s, k, effects) = Coming(rows, s, k, effects)
  <2>1. /\ DOMAIN Append(rows, r) = 1..(Len(rows) + 1)
        /\ DOMAIN rows = 1..Len(rows) /\ Len(rows) \in Nat
    OBVIOUS
  <2>2. \A j \in 1..(Len(rows) + 1) : j < k => j \in 1..Len(rows)
    BY <2>1
  <2>3. \A j \in 1..Len(rows) : j \in 1..(Len(rows) + 1)
    BY <2>1
  <2> DEFINE more == Append(rows, r)
  <2>4. \A j \in 1..Len(rows) : more[j] = rows[j]
    BY <1>2
  <2>5. DOMAIN more = 1..(Len(rows) + 1)
    BY <2>1
  <2> HIDE DEF more
  <2>6. Coming(more, s, k, effects) = Coming(rows, s, k, effects)
    BY <2>1, <2>2, <2>3, <2>4, <2>5 DEF Coming
  <2> QED BY <2>6 DEF more
<1>4. \A j \in Coming(rows, s, k, effects) : Makes(Append(rows, r)[j]) = Makes(rows[j])
  BY <1>2, ComingPlaces
<1> DEFINE more == Append(rows, r)
<1> HIDE DEF more
<1>5. ValueAt(more, b, s, k, effects) = ValueAt(rows, b, s, k, effects)
  <2>1. /\ more \in Seq(OutboxRow) /\ Coming(more, s, k, effects) = Coming(rows, s, k, effects)
        /\ \A j \in Coming(rows, s, k, effects) : Makes(more[j]) = Makes(rows[j])
    BY <1>1, <1>3, <1>4 DEF more
  <2> QED BY <2>1, SameComing
<1> QED BY <1>5 DEF more

LEMMA ValueAfter ==
  ASSUME NEW rows \in Seq(OutboxRow), NEW r \in OutboxRow, NEW b, NEW s, NEW effects
  PROVE  ValueAt(Append(rows, r), b, s, Len(rows) + 2, effects)
           = IF Touches(r, s, effects) THEN Makes(r)
             ELSE ValueAt(rows, b, s, Len(rows) + 1, effects)
<1> DEFINE n == Len(rows) + 1
           more == Append(rows, r)
           c == Coming(more, s, n + 1, effects)
<1>1. more \in Seq(OutboxRow) /\ more[n] = r /\ n \in Nat /\ Len(rows) + 2 = n + 1
  OBVIOUS
<1>2. \A j \in 1..Len(rows) : more[j] = rows[j]
  OBVIOUS
<1>3. DOMAIN rows = 1..Len(rows) /\ DOMAIN more = 1..n
  OBVIOUS
<1> HIDE DEF more
<1>4. CASE Touches(r, s, effects)
  <2>1. n \in c
    BY <1>1, <1>3, <1>4 DEF Coming
  <2>2. c \in SUBSET (1..n)
    BY <1>3 DEF Coming
  <2>3. Max(c) \in c /\ Max(c) >= n
    BY <1>1, <2>1, <2>2, MaxOfPlaces
  <2>4. Max(c) = n
    BY <1>1, <2>2, <2>3
  <2> HIDE DEF c, n
  <2>5. c # {} /\ c = Coming(more, s, Len(rows) + 2, effects)
    BY <1>1, <2>1 DEF c
  <2>6. ValueAt(more, b, s, Len(rows) + 2, effects) = Makes(more[n])
    BY <2>4, <2>5 DEF ValueAt
  <2> QED BY <1>1, <1>4, <2>6 DEF more
<1>5. CASE ~ Touches(r, s, effects)
  <2>1. c = Coming(rows, s, n, effects)
    <3>1. n \notin c
      BY <1>1, <1>5 DEF Coming
    <3>2. \A j \in 1..n : j # n => j \in 1..Len(rows) /\ j < n
      OBVIOUS
    <3>3. \A j \in 1..Len(rows) : j \in 1..n /\ j < n + 1
      OBVIOUS
    <3> QED BY <1>2, <1>3, <3>1, <3>2, <3>3 DEF Coming
  <2>2. \A j \in Coming(rows, s, n, effects) : Makes(more[j]) = Makes(rows[j])
    BY <1>2, ComingPlaces
  <2>3. ValueAt(more, b, s, n + 1, effects) = ValueAt(rows, b, s, n, effects)
    BY <1>1, <2>1, <2>2, SameComing
  <2> QED BY <1>1, <1>5, <2>3 DEF more
<1> QED BY <1>4, <1>5

\* rows2 is rows with row h settled.
Settles(rows2, rows, h, st) ==
  /\ rows2 \in Seq(OutboxRow) /\ Len(rows2) = Len(rows)
  /\ h \in DOMAIN rows
  /\ \A j \in DOMAIN rows :
       /\ rows2[j].effect = rows[j].effect /\ rows2[j].of = rows[j].of
       /\ rows2[j].status = IF j = h THEN st ELSE rows[j].status

LEMMA RowSettles ==
  ASSUME NEW rows \in Seq(OutboxRow), NEW h \in DOMAIN rows, NEW st \in RowStatus
  PROVE  Settles([rows EXCEPT ![h].status = st], rows, h, st)
<1> DEFINE rows2 == [rows EXCEPT ![h].status = st]
           e == rows[h].effect
           o == rows[h].of
<1>1. rows[h] \in OutboxRow /\ DOMAIN rows = 1..Len(rows)
  OBVIOUS
<1>2. /\ [rows[h] EXCEPT !.status = st] \in OutboxRow
      /\ [rows[h] EXCEPT !.status = st].effect = rows[h].effect
      /\ [rows[h] EXCEPT !.status = st].of = rows[h].of
      /\ [rows[h] EXCEPT !.status = st].status = st
  BY <1>1 DEF OutboxRow
<1>3. /\ DOMAIN rows2 = 1..Len(rows)
      /\ rows2[h] = [rows[h] EXCEPT !.status = st]
      /\ \A j \in DOMAIN rows : j # h => rows2[j] = rows[j]
  BY <1>1
<1>4. rows2 \in Seq(OutboxRow) /\ Len(rows2) = Len(rows)
  <2>1. \A j \in 1..Len(rows) : rows2[j] \in OutboxRow
    BY <1>1, <1>2, <1>3
  <2>2. rows2 = [j \in 1..Len(rows) |-> rows2[j]]
    BY <1>3
  <2> HIDE DEF rows2
  <2> QED BY <2>1, <2>2
<1> HIDE DEF rows2
<1>5. Settles(rows2, rows, h, st)
  BY <1>2, <1>3, <1>4 DEF Settles
<1> QED BY <1>5 DEF rows2

LEMMA SettledComing ==
  ASSUME NEW rows \in Seq(OutboxRow), NEW rows2, NEW h, NEW st, st # "pending",
         Settles(rows2, rows, h, st), NEW s, NEW k, NEW effects
  PROVE  /\ Coming(rows2, s, k, effects) = Coming(rows, s, k, effects) \ {h}
         /\ \A j \in DOMAIN rows : Makes(rows2[j]) = Makes(rows[j])
<1>1. DOMAIN rows2 = DOMAIN rows
  BY DEF Settles
<1> QED BY <1>1 DEF Settles, Coming, Touches, Makes

\* It does not touch s: nothing changes for s.
LEMMA ValueBeside ==
  ASSUME NEW rows \in Seq(OutboxRow), NEW rows2, NEW h, NEW st, st # "pending",
         Settles(rows2, rows, h, st), NEW s, NEW k, NEW effects, NEW b, NEW b2,
         ~ Touches(rows[h], s, effects),
         Coming(rows, s, k, effects) = {} => b2[s] = b[s]
  PROVE  ValueAt(rows2, b2, s, k, effects) = ValueAt(rows, b, s, k, effects)
<1>1. Coming(rows2, s, k, effects) = Coming(rows, s, k, effects)
  <2>1. Coming(rows2, s, k, effects) = Coming(rows, s, k, effects) \ {h}
    BY SettledComing
  <2>2. h \notin Coming(rows, s, k, effects)
    BY DEF Coming
  <2> QED BY <2>1, <2>2
<1>2. \A j \in Coming(rows, s, k, effects) : Makes(rows2[j]) = Makes(rows[j])
  BY SettledComing DEF Coming
<1> QED BY <1>1, <1>2, SameComing DEF Settles

\* It is the first that touches s, and the bus has become what it says, unless
\* another row comes after it: what comes later finds the same.
LEMMA ValueApplied ==
  ASSUME NEW rows \in Seq(OutboxRow), NEW rows2, NEW h, NEW st, st # "pending",
         Settles(rows2, rows, h, st), NEW s, NEW k \in Nat, NEW effects, NEW b, NEW b2,
         Touches(rows[h], s, effects), h < k,
         Coming(rows, s, h, effects) = {},
         Coming(rows, s, k, effects) = {h} => b2[s] = Makes(rows[h])
  PROVE  ValueAt(rows2, b2, s, k, effects) = ValueAt(rows, b, s, k, effects)
<1> DEFINE c == Coming(rows, s, k, effects)
<1>1. c \in SUBSET (1..Len(rows)) /\ Len(rows) \in Nat /\ h \in c
  BY ComingPlaces DEF Settles, Coming
<1>2. Max(c) \in c /\ \A j \in c : Max(c) >= j
  BY <1>1, MaxOfPlaces
<1>3. \A j \in c : h <= j
  <2> SUFFICES ASSUME NEW j \in c, j < h PROVE FALSE
    BY <1>1
  <2>1. j \in Coming(rows, s, h, effects)
    BY DEF Coming
  <2> QED BY <2>1
<1>4. Coming(rows2, s, k, effects) = c \ {h}
  BY SettledComing
<1>5. \A j \in c : Makes(rows2[j]) = Makes(rows[j])
  BY SettledComing DEF Coming
<1>6. ValueAt(rows, b, s, k, effects) = Makes(rows[Max(c)])
  BY <1>1 DEF ValueAt
<1>7. CASE c = {h}
  <2>1. Max(c) = h
    BY <1>2, <1>7
  <2>2. Coming(rows2, s, k, effects) = {}
    BY <1>4, <1>7
  <2> QED BY <1>6, <1>7, <2>1, <2>2 DEF ValueAt
<1>8. CASE c # {h}
  <2>1. c \ {h} # {} /\ c \ {h} \in SUBSET (1..Len(rows))
    BY <1>1, <1>8
  <2>2. Max(c \ {h}) \in c \ {h} /\ \A j \in c \ {h} : Max(c \ {h}) >= j
    BY <1>1, <2>1, MaxOfPlaces
  <2>3. Max(c) # h
    BY <1>1, <1>2, <1>3, <2>1, <2>2
  <2>4. Max(c) = Max(c \ {h})
    <3>1. Max(c) \in c \ {h} /\ Max(c \ {h}) \in c
      BY <1>2, <2>2, <2>3
    <3>2. Max(c) \in Nat /\ Max(c \ {h}) \in Nat
      BY <1>1, <3>1
    <3>3. Max(c) >= Max(c \ {h}) /\ Max(c \ {h}) >= Max(c)
      BY <1>2, <2>2, <3>1
    <3> QED BY <3>2, <3>3
  <2> HIDE DEF c
  <2>5. ValueAt(rows2, b2, s, k, effects) = Makes(rows2[Max(c \ {h})])
    BY <1>4, <2>1 DEF ValueAt
  <2>6. Makes(rows2[Max(c \ {h})]) = Makes(rows[Max(c)])
    BY <1>2, <1>5, <2>4
  <2> QED BY <1>6, <2>5, <2>6
<1> QED BY <1>7, <1>8

-----------------------------------------------------------------------------
(* What holds of tables, bus and histories *)

\* After all pending rows the bus b will have of s what the table has: the value
\* by all rows, and, if only rows that set it are counted, whether it is there.
\* The second is what a toggle at the end rests on when, after a crash, the bus
\* was loaded from a newer table than the rows before it.
InStep(rows, tab, b, s) ==
  LET n == Len(rows) + 1
  IN  /\ ValueAt(rows, b, s, n, AnyEffect) = tab[s]
      /\ ValueAt(rows, b, s, n, Presence) = "none" <=> tab[s] = "none"

SyncOk(rows, tab, b, out) == \A s \in Subs \ out : InStep(rows, tab, b, s)

\* As long as nothing crashed, each row finds what its transaction found.
Toggled(rows, b, s, k) ==
  rows[k].status = "pending" /\ rows[k].effect \in Toggles /\ rows[k].of = s
    => ValueAt(rows, b, s, k, AnyEffect) # "none"
HeardThen(rows, b, hears, no, s, k) ==
  rows[k].status = "pending" /\ rows[k].effect = "dispatch" /\ rows[k].of \notin no
    => (s \in hears[rows[k].of]
          <=> s \in Hears[rows[k].of] /\ ValueAt(rows, b, s, k, AnyEffect) = "on")

OrderAt(rows, b, hears, no, s) ==
  \A k \in DOMAIN rows : Toggled(rows, b, s, k) /\ HeardThen(rows, b, hears, no, s, k)
OrderOk(rows, b, hears, no, out) ==
  \A s \in Subs \ out : OrderAt(rows, b, hears, no, s)
\* A dispatch row keeps the subscriptions of its commit.
SameHears(rows, hears, hears2) ==
  \A k \in DOMAIN rows : rows[k].effect = "dispatch" => hears2[rows[k].of] = hears[rows[k].of]

\* Rows of events are unique, and a deleted surface leaves nothing behind.
RowsOk(rows, live, tab) ==
  /\ \A j, k \in DOMAIN rows :
       /\ rows[j].effect = "dispatch" /\ rows[k].effect = "dispatch"
       /\ rows[j].of = rows[k].of
       => j = k
  /\ \A w \in Surfaces : End[w] \in Sent(rows) => w \notin live
  /\ \A k \in DOMAIN rows : rows[k].effect = "remove_surface" => rows[k].of \notin live
  /\ \A s \in Subs : Owner[s] \notin live => tab[s] = "none"

\* The flush fl is delivering row k.
Under(fl, k) == fl.stage # "next" /\ k = Min(fl.rows)

\* Each life of the process runs a handler once at most: what was run in this
\* one is settled, or was taken from those left to deliver.
Tried(rows, fl, e, s) ==
  \E k \in DOMAIN rows :
    /\ rows[k].effect = "dispatch" /\ rows[k].of = e
    /\ rows[k].status # "pending" \/ (Under(fl, k) /\ s \notin fl.left)
RanOk(rows, r, c, fl) ==
  \A e \in Events, s \in Subs :
    r[<<e, s>>] <= c \/ (r[<<e, s>>] <= c + 1 /\ Tried(rows, fl, e, s))

\* HeardInOrder and DeliveredToAll without the counting.
HeardOk(hears, r, no, out) ==
  \A e \in Events \ no, s \in Subs \ out : r[<<e, s>>] > 0 => s \in hears[e]
AllOk(rows, hears, r, no, out) ==
  \A k \in DOMAIN rows :
    /\ rows[k].effect = "dispatch" /\ rows[k].status = "delivered"
    /\ rows[k].of \notin no
    => \A s \in hears[rows[k].of] \ out : r[<<rows[k].of, s>>] > 0

\* What a transaction may count on and must keep up.
StoryOk(live, tab, rows, marks, hears) ==
  /\ live \subseteq Surfaces /\ tab \in [Subs -> States] /\ rows \in Seq(OutboxRow)
  /\ marks \subseteq Events \X Subs /\ hears \in [Events -> SUBSET Subs]
  /\ ran \in [Events \X Subs -> Nat] /\ crashes \in Nat
  /\ RowsOk(rows, live, tab)
  /\ SyncOk(rows, tab, known, strays)
  /\ RanOk(rows, ran, crashes, NoFlush)
  /\ \A m \in marks : ran[m] > 0
  /\ crashes = 0 => /\ OrderOk(rows, known, hears, refused, strays)
                    /\ HeardOk(hears, ran, refused, strays)
                    /\ AllOk(rows, hears, ran, refused, strays)

-----------------------------------------------------------------------------
(* A transaction adds a row *)

LEMMA Appended ==
  ASSUME NEW rows \in Seq(OutboxRow), NEW r \in OutboxRow
  PROVE  /\ Append(rows, r) \in Seq(OutboxRow)
         /\ Len(Append(rows, r)) = Len(rows) + 1 /\ Len(rows) \in Nat
         /\ DOMAIN Append(rows, r) = 1..(Len(rows) + 1) /\ DOMAIN rows = 1..Len(rows)
         /\ \A k \in 1..Len(rows) : Append(rows, r)[k] = rows[k]
         /\ Append(rows, r)[Len(rows) + 1] = r
OBVIOUS

LEMMA AppendSync ==
  ASSUME NEW rows \in Seq(OutboxRow), NEW r \in OutboxRow, NEW tab, NEW tab2, NEW b,
         NEW s \in Subs, InStep(rows, tab, b, s),
         \/ ~ Touches(r, s, AnyEffect) /\ tab2[s] = tab[s]
         \/ /\ Touches(r, s, AnyEffect) /\ tab2[s] = Makes(r)
            /\ r.effect \in Toggles => tab[s] # "none"
  PROVE  InStep(Append(rows, r), tab2, b, s)
<1> DEFINE more == Append(rows, r)
           any == ValueAt(rows, b, s, Len(rows) + 1, AnyEffect)
           set == ValueAt(rows, b, s, Len(rows) + 1, Presence)
<1>1. /\ ValueAt(more, b, s, Len(rows) + 2, AnyEffect)
           = IF Touches(r, s, AnyEffect) THEN Makes(r) ELSE any
      /\ ValueAt(more, b, s, Len(rows) + 2, Presence)
           = IF Touches(r, s, Presence) THEN Makes(r) ELSE set
  BY ValueAfter
<1>2. Len(more) + 1 = Len(rows) + 2
  BY Appended
<1>3. any = tab[s] /\ (set = "none" <=> tab[s] = "none")
  BY DEF InStep
<1> HIDE DEF any, set, more
<1>4. Touches(r, s, Presence) <=> Touches(r, s, AnyEffect) /\ r.effect \notin Toggles
  BY DEF Touches, AnyEffect, Presence, Toggles
<1>5. r.effect \in Toggles => Makes(r) # "none"
  BY DEF Makes, Toggles
<1>6. InStep(more, tab2, b, s)
  BY <1>1, <1>2, <1>3, <1>4, <1>5 DEF InStep
<1> QED BY <1>6 DEF more

LEMMA AppendOrder ==
  ASSUME NEW rows \in Seq(OutboxRow), NEW r \in OutboxRow, NEW tab, NEW b, NEW no,
         NEW hears, NEW hears2, NEW s \in Subs, InStep(rows, tab, b, s),
         OrderAt(rows, b, hears, no, s), SameHears(rows, hears, hears2),
         r.effect \in Toggles /\ r.of = s => tab[s] # "none",
         r.effect = "dispatch" => (s \in hears2[r.of] <=> s \in Hears[r.of] /\ tab[s] = "on")
  PROVE  OrderAt(Append(rows, r), b, hears2, no, s)
<1> DEFINE more == Append(rows, r)
<1> SUFFICES ASSUME NEW k \in DOMAIN more
             PROVE  Toggled(more, b, s, k) /\ HeardThen(more, b, hears2, no, s, k)
  BY DEF OrderAt
<1>1. k \in 1..(Len(rows) + 1)
  BY Appended
<1>2. ValueAt(more, b, s, k, AnyEffect) = ValueAt(rows, b, s, k, AnyEffect)
  BY <1>1, ValueBefore
<1>3. k = Len(rows) + 1 => more[k] = r
  BY Appended
<1>4. k # Len(rows) + 1 => k \in DOMAIN rows /\ more[k] = rows[k]
  <2>1. k # Len(rows) + 1 => k \in 1..Len(rows)
    BY <1>1, Appended
  <2> QED BY <2>1, Appended
<1> HIDE DEF more
<1>5. CASE k = Len(rows) + 1
  <2>1. ValueAt(more, b, s, k, AnyEffect) = tab[s]
    BY <1>2, <1>5 DEF InStep
  <2>2. Toggled(more, b, s, k) /\ HeardThen(more, b, hears2, no, s, k)
    BY <1>3, <1>5, <2>1 DEF Toggled, HeardThen
  <2> QED BY <2>2 DEF more
<1>6. CASE k # Len(rows) + 1
  <2>1. Toggled(more, b, s, k) /\ HeardThen(more, b, hears2, no, s, k)
    BY <1>2, <1>4, <1>6 DEF Toggled, HeardThen, OrderAt, SameHears
  <2> QED BY <2>1 DEF more
<1> QED BY <1>5, <1>6

LEMMA AppendRows ==
  ASSUME NEW rows \in Seq(OutboxRow), NEW r \in OutboxRow, NEW live, NEW live2,
         NEW tab, NEW tab2, RowsOk(rows, live, tab), live2 \subseteq live,
         r.effect = "dispatch" =>
           r.of \notin Sent(rows) /\ \A w \in Surfaces : End[w] = r.of => w \notin live2,
         r.effect = "remove_surface" => r.of \notin live2,
         \A s \in Subs : Owner[s] \notin live2 => tab2[s] = "none"
  PROVE  RowsOk(Append(rows, r), live2, tab2)
<1> DEFINE more == Append(rows, r)
<1>1. /\ DOMAIN more = 1..(Len(rows) + 1) /\ DOMAIN rows = 1..Len(rows) /\ Len(rows) \in Nat
      /\ \A k \in 1..Len(rows) : more[k] = rows[k]
      /\ more[Len(rows) + 1] = r
  BY Appended
<1> HIDE DEF more
<1>2. \A k \in DOMAIN more : \/ k \in DOMAIN rows /\ more[k] = rows[k]
                             \/ k = Len(rows) + 1 /\ more[k] = r
  BY <1>1
<1>3. \A k \in DOMAIN rows : rows[k].effect = "dispatch" => rows[k].of \in Sent(rows)
  BY DEF Sent
<1>4. \A j, k \in DOMAIN more :
        /\ more[j].effect = "dispatch" /\ more[k].effect = "dispatch"
        /\ more[j].of = more[k].of
        => j = k
  BY <1>2, <1>3 DEF RowsOk
<1>5. ASSUME NEW w \in Surfaces, End[w] \in Sent(more) PROVE w \notin live2
  <2>1. PICK k \in DOMAIN more : more[k].effect = "dispatch" /\ more[k].of = End[w]
    BY <1>5 DEF Sent
  <2>2. CASE k \in DOMAIN rows /\ more[k] = rows[k]
    <3>1. End[w] \in Sent(rows)
      BY <1>3, <2>1, <2>2
    <3> QED BY <3>1 DEF RowsOk
  <2>3. CASE more[k] = r
    BY <2>1, <2>3
  <2> QED BY <1>2, <2>2, <2>3
<1>6. \A k \in DOMAIN more : more[k].effect = "remove_surface" => more[k].of \notin live2
  BY <1>2 DEF RowsOk
<1>7. RowsOk(more, live2, tab2)
  BY <1>4, <1>5, <1>6 DEF RowsOk
<1> QED BY <1>7 DEF more

\* What a row r at the end goes with: the change of the table from tab to tab2,
\* an event that has no row yet, a surface that is gone, who hears it.
RowMakes(r, tab, tab2) ==
  \A s \in Subs : \/ ~ Touches(r, s, AnyEffect) /\ tab2[s] = tab[s]
                  \/ /\ Touches(r, s, AnyEffect) /\ tab2[s] = Makes(r)
                     /\ r.effect \in Toggles => tab[s] # "none"
FreshRow(r, rows, live) ==
  /\ r.effect = "dispatch" =>
       r.of \notin Sent(rows) /\ \A w \in Surfaces : End[w] = r.of => w \notin live
  /\ r.effect = "remove_surface" => r.of \notin live
HeardNow(r, tab, hears2) ==
  r.effect = "dispatch" => hears2[r.of] = {s \in Hears[r.of] : tab[s] = "on"}

LEMMA StoryRow ==
  ASSUME NEW live, NEW tab, NEW rows, NEW marks, NEW hears, StoryOk(live, tab, rows, marks, hears),
         NEW r \in OutboxRow, r.status = "pending",
         NEW live2 \in SUBSET live, NEW marks2 \in SUBSET marks,
         NEW tab2 \in [Subs -> States], NEW hears2 \in [Events -> SUBSET Subs],
         RowMakes(r, tab, tab2),
         \A s \in Subs : Owner[s] \notin live2 => tab2[s] = "none",
         FreshRow(r, rows, live2), HeardNow(r, tab, hears2),
         \A e \in Events : e # r.of \/ r.effect # "dispatch" => hears2[e] = hears[e]
  PROVE  StoryOk(live2, tab2, Append(rows, r), marks2, hears2)
<1> DEFINE more == Append(rows, r)
<1>1. /\ rows \in Seq(OutboxRow) /\ RowsOk(rows, live, tab) /\ SyncOk(rows, tab, known, strays)
      /\ RanOk(rows, ran, crashes, NoFlush)
      /\ live \subseteq Surfaces /\ marks \subseteq Events \X Subs /\ \A m \in marks : ran[m] > 0
      /\ ran \in [Events \X Subs -> Nat] /\ crashes \in Nat
  BY DEF StoryOk
<1>2. /\ more \in Seq(OutboxRow)
      /\ DOMAIN more = 1..(Len(rows) + 1) /\ DOMAIN rows = 1..Len(rows) /\ Len(rows) \in Nat
      /\ \A k \in 1..Len(rows) : more[k] = rows[k]
      /\ more[Len(rows) + 1] = r
  BY <1>1, Appended
<1>3. RowsOk(more, live2, tab2)
  BY <1>1, AppendRows DEF FreshRow
<1>4. SyncOk(more, tab2, known, strays)
  <2> SUFFICES ASSUME NEW s \in Subs \ strays PROVE InStep(more, tab2, known, s)
    BY DEF SyncOk
  <2>1. InStep(rows, tab, known, s)
    BY <1>1 DEF SyncOk
  <2> QED BY <1>1, <2>1, AppendSync DEF RowMakes
<1> HIDE DEF more
<1>5. \A k \in DOMAIN rows : k \in DOMAIN more /\ more[k] = rows[k]
  BY <1>2
<1>6. \A k \in DOMAIN more : \/ k \in DOMAIN rows /\ more[k] = rows[k]
                             \/ more[k] = r
  BY <1>2
<1>7. RanOk(more, ran, crashes, NoFlush)
  <2>1. \A e \in Events, s \in Subs : Tried(rows, NoFlush, e, s) => Tried(more, NoFlush, e, s)
    BY <1>5 DEF Tried
  <2> QED BY <1>1, <2>1 DEF RanOk
<1>8. \A k \in DOMAIN rows :
        rows[k].effect = "dispatch" => rows[k].of \in Events /\ rows[k].of \in Sent(rows)
  <2>1. \A k \in DOMAIN rows : rows[k] \in OutboxRow
    BY <1>1
  <2> QED BY <2>1 DEF OutboxRow, Sent, Toggles
<1>9. SameHears(rows, hears, hears2)
  BY <1>8 DEF SameHears, FreshRow
<1>10. r.effect = "dispatch" => r.of \in Events
  BY DEF OutboxRow, Toggles
<1>11. ASSUME crashes = 0
       PROVE  /\ OrderOk(more, known, hears2, refused, strays)
              /\ HeardOk(hears2, ran, refused, strays)
              /\ AllOk(more, hears2, ran, refused, strays)
  <2>1. /\ OrderOk(rows, known, hears, refused, strays)
        /\ HeardOk(hears, ran, refused, strays)
        /\ AllOk(rows, hears, ran, refused, strays)
    BY <1>11 DEF StoryOk
  <2>2. OrderOk(more, known, hears2, refused, strays)
    <3> SUFFICES ASSUME NEW s \in Subs \ strays
                 PROVE  OrderAt(more, known, hears2, refused, s)
      BY DEF OrderOk
    <3>1. InStep(rows, tab, known, s)
      BY <1>1 DEF SyncOk
    <3>2. OrderAt(rows, known, hears, refused, s)
      BY <2>1 DEF OrderOk
    <3>3. r.effect \in Toggles /\ r.of = s => tab[s] # "none"
      <4>1. r.effect \in Toggles /\ r.of = s => Touches(r, s, AnyEffect)
        BY DEF Touches, AnyEffect, Toggles
      <4> QED BY <4>1 DEF RowMakes
    <3>4. r.effect = "dispatch" => (s \in hears2[r.of] <=> s \in Hears[r.of] /\ tab[s] = "on")
      BY DEF HeardNow
    <3>5. rows \in Seq(OutboxRow)
      BY <1>1
    <3> QED BY <1>9, <3>1, <3>2, <3>3, <3>4, <3>5, AppendOrder DEF more
  <2>3. HeardOk(hears2, ran, refused, strays)
    <3> SUFFICES \A e \in Events \ refused : \A s \in Subs \ strays :
                   ran[<<e, s>>] > 0 => s \in hears2[e]
      BY DEF HeardOk
    <3> TAKE e \in Events \ refused
    <3> TAKE s \in Subs \ strays
    <3> HAVE ran[<<e, s>>] > 0
    <3>1. s \in hears[e]
      BY <2>1 DEF HeardOk
    <3>2. CASE e = r.of /\ r.effect = "dispatch"
      <4>1. ran[<<e, s>>] <= 0 \/ Tried(rows, NoFlush, e, s)
        BY <1>1, <1>11 DEF RanOk
      <4>2. ~ Tried(rows, NoFlush, e, s)
        BY <1>8, <3>2 DEF Tried, FreshRow
      <4>3. ran[<<e, s>>] <= 0
        BY <4>1, <4>2
      <4>4. ran[<<e, s>>] \in Nat
        BY <1>1
      <4> QED BY <4>3, <4>4
    <3> QED BY <3>1, <3>2
  <2>4. AllOk(more, hears2, ran, refused, strays)
    <3> SUFFICES ASSUME NEW k \in DOMAIN more,
                        more[k].effect = "dispatch" /\ more[k].status = "delivered",
                        more[k].of \notin refused, NEW s \in hears2[more[k].of] \ strays
                 PROVE  ran[<<more[k].of, s>>] > 0
      BY DEF AllOk
    <3>1. k \in DOMAIN rows /\ more[k] = rows[k]
      <4>1. more[k] # r
        OBVIOUS
      <4> QED BY <1>6, <4>1
    <3>2. s \in hears[rows[k].of]
      BY <1>9, <3>1 DEF SameHears
    <3> QED BY <2>1, <3>1, <3>2 DEF AllOk
  <2> QED BY <2>2, <2>3, <2>4
<1>12. \A m \in marks2 : ran[m] > 0
  BY <1>1
<1>13. live2 \subseteq Surfaces /\ marks2 \subseteq Events \X Subs
  BY <1>1
<1>14. StoryOk(live2, tab2, more, marks2, hears2)
  BY <1>1, <1>2, <1>3, <1>4, <1>7, <1>11, <1>12, <1>13 DEF StoryOk
<1> QED BY <1>14 DEF more

-----------------------------------------------------------------------------
(* The operations of a transaction *)

Account(ok, live, tab, rows, marks, hears) ==
  [ok |-> ok, alive |-> live, subs |-> tab, rows |-> rows, marks |-> marks, heard |-> hears]
AccountOk(at) == StoryOk(at.alive, at.subs, at.rows, at.marks, at.heard)
Accounts == {at \in [ok : BOOLEAN, alive : SUBSET Surfaces, subs : [Subs -> States],
                     rows : Seq(OutboxRow), marks : SUBSET (Events \X Subs),
                     heard : [Events -> SUBSET Subs]] : AccountOk(at)}

LEMMA ChangedAccount ==
  ASSUME NEW ok, NEW live, NEW tab, NEW rows, NEW marks, NEW hears, NEW at,
         at = Account(ok, live, tab, rows, marks, hears), NEW s, NEW state, NEW effect
  PROVE  Changed(at, s, state, effect)
           = Account(ok, live, [tab EXCEPT ![s] = state], Append(rows, Row(effect, s)), marks, hears)
<1> DEFINE tab2 == [tab EXCEPT ![s] = state]
           more == Append(rows, Row(effect, s))
           e == [at EXCEPT !.subs[s] = state]
<1>1. at.subs = tab
  BY DEF Account
<1>2. e = Account(ok, live, tab2, rows, marks, hears)
  <2>1. e = [at EXCEPT !.subs = [at.subs EXCEPT ![s] = state]]
    OBVIOUS
  <2> HIDE DEF tab2, e
  <2>2. [at EXCEPT !.subs = tab2] = Account(ok, live, tab2, rows, marks, hears)
    BY DEF Account
  <2> QED BY <1>1, <2>1, <2>2, Zenon DEF tab2
<1>3. e.rows = rows
  BY <1>2 DEF Account
<1>4. Changed(at, s, state, effect) = [e EXCEPT !.rows = Append(e.rows, Row(effect, s))]
  BY DEF Changed
<1> HIDE DEF e, tab2, more
<1>5. [e EXCEPT !.rows = more] = Account(ok, live, tab2, more, marks, hears)
  BY <1>2 DEF Account
<1> QED BY <1>3, <1>4, <1>5, Zenon DEF tab2, more

LEMMA PublishedAccount ==
  ASSUME NEW ok, NEW live, NEW tab, NEW rows, NEW marks, NEW hears, NEW at,
         at = Account(ok, live, tab, rows, marks, hears), NEW e
  PROVE  Published(at, e)
           = Account(ok, live, tab, Append(rows, Row("dispatch", e)), marks,
                     [hears EXCEPT ![e] = {s \in Hears[e] : tab[s] = "on"}])
<1> DEFINE hears2 == [hears EXCEPT ![e] = {s \in Hears[e] : tab[s] = "on"}]
           more == Append(rows, Row("dispatch", e))
           a == [at EXCEPT !.rows = more]
<1>1. at.rows = rows /\ at.subs = tab
  BY DEF Account
<1>2. a = Account(ok, live, tab, more, marks, hears)
  <2> HIDE DEF more
  <2> QED BY DEF Account
<1>3. a.heard = hears
  BY <1>2 DEF Account
<1>4. Published(at, e)
        = [[at EXCEPT !.rows = Append(at.rows, Row("dispatch", e))]
             EXCEPT !.heard[e] = {s \in Hears[e] : at.subs[s] = "on"}]
  BY DEF Published
<1>5. \A z : [z EXCEPT !.heard[e] = {s \in Hears[e] : tab[s] = "on"}]
             = [z EXCEPT !.heard = [z.heard EXCEPT ![e] = {s \in Hears[e] : tab[s] = "on"}]]
  OBVIOUS
<1>6. Published(at, e) = [a EXCEPT !.heard[e] = {s \in Hears[e] : tab[s] = "on"}]
  <2> DEFINE on == {s \in Hears[e] : at.subs[s] = "on"}
  <2>1. on = {s \in Hears[e] : tab[s] = "on"}
    BY <1>1
  <2>2. Published(at, e) = [a EXCEPT !.heard[e] = on]
    BY <1>1, <1>4, Zenon
  <2> HIDE DEF on, a
  <2> QED BY <2>1, <2>2, Zenon
<1> HIDE DEF a, hears2, more
<1>7. [a EXCEPT !.heard = hears2] = Account(ok, live, tab, more, marks, hears2)
  BY <1>2 DEF Account
<1>8. Published(at, e) = [a EXCEPT !.heard = hears2]
  BY <1>3, <1>5, <1>6, Zenon DEF hears2
<1> QED BY <1>7, <1>8, Zenon DEF hears2, more

LEMMA UnmarkedAccount ==
  ASSUME NEW ok, NEW live, NEW tab, NEW rows, NEW marks, NEW hears, NEW at,
         at = Account(ok, live, tab, rows, marks, hears), NEW owned
  PROVE  Unmarked(at, owned)
           = Account(ok, live, tab, rows, {m \in marks : m[2] \notin owned}, hears)
<1> DEFINE marks2 == {m \in marks : m[2] \notin owned}
<1>1. Unmarked(at, owned) = [at EXCEPT !.marks = {m \in at.marks : m[2] \notin owned}]
  BY DEF Unmarked
<1>2. at.marks = marks
  BY DEF Account
<1> HIDE DEF marks2
<1>3. [at EXCEPT !.marks = marks2] = Account(ok, live, tab, rows, marks2, hears)
  BY DEF Account
<1> QED BY <1>1, <1>2, <1>3, Zenon DEF marks2

LEMMA DeletedAccount ==
  ASSUME NEW ok, NEW live, NEW tab, NEW rows, NEW marks, NEW hears, NEW at,
         at = Account(ok, live, tab, rows, marks, hears), NEW w
  PROVE  Deleted(at, w)
           = Account(ok, live \ {w}, [s \in Subs |-> IF Owner[s] = w THEN "none" ELSE tab[s]],
                     Append(rows, Row("remove_surface", w)), marks, hears)
<1> DEFINE live2 == live \ {w}
           tab2 == [s \in Subs |-> IF Owner[s] = w THEN "none" ELSE tab[s]]
           more == Append(rows, Row("remove_surface", w))
           a == [at EXCEPT !.alive = live2]
           c == [a EXCEPT !.subs = tab2]
<1>1. at.alive = live
  BY DEF Account
<1>2. a = Account(ok, live2, tab, rows, marks, hears)
  <2> HIDE DEF live2
  <2> QED BY DEF Account
<1>3. a.subs = tab
  BY <1>2 DEF Account
<1>4. c = Account(ok, live2, tab2, rows, marks, hears)
  <2> HIDE DEF a, live2, tab2
  <2> QED BY <1>2 DEF Account
<1>5. c.rows = rows
  BY <1>4 DEF Account
<1>6. Deleted(at, w)
        = [[[at EXCEPT !.alive = at.alive \ {w}]
             EXCEPT !.subs = [s \in Subs |-> IF Owner[s] = w THEN "none" ELSE @[s]]]
               EXCEPT !.rows = Append(@, Row("remove_surface", w))]
  BY DEF Deleted
<1>7. Deleted(at, w) = [c EXCEPT !.rows = Append(c.rows, Row("remove_surface", w))]
  BY <1>1, <1>3, <1>6, Zenon
<1> HIDE DEF a, c, live2, tab2, more
<1>8. [c EXCEPT !.rows = more] = Account(ok, live2, tab2, more, marks, hears)
  BY <1>4 DEF Account
<1> QED BY <1>5, <1>7, <1>8, Zenon DEF live2, tab2, more

LEMMA AccountOfStory ==
  ASSUME NEW ok \in BOOLEAN, NEW live, NEW tab, NEW rows, NEW marks, NEW hears,
         StoryOk(live, tab, rows, marks, hears)
  PROVE  Account(ok, live, tab, rows, marks, hears) \in Accounts
BY DEF Account, Accounts, AccountOk, StoryOk

LEMMA ChangeKeeps ==
  ASSUME NEW live, NEW tab, NEW rows, NEW marks, NEW hears, StoryOk(live, tab, rows, marks, hears),
         NEW s \in Subs, NEW effect \in {"add", "remove"} \cup Toggles, NEW state \in States,
         state = Makes(Row(effect, s)), NEW marks2 \in SUBSET marks,
         state # "none" => Owner[s] \in live,
         effect \in Toggles => tab[s] # "none"
  PROVE  StoryOk(live, [tab EXCEPT ![s] = state], Append(rows, Row(effect, s)), marks2, hears)
<1> DEFINE r == Row(effect, s)
           tab2 == [tab EXCEPT ![s] = state]
<1>1. r \in OutboxRow /\ r.status = "pending" /\ r.effect = effect /\ r.of = s
  BY DEF Row, OutboxRow, RowStatus
<1>2. effect # "dispatch" /\ effect # "remove_surface" /\ effect \in AnyEffect
  BY DEF Toggles, AnyEffect, Presence
<1>3. live \in SUBSET live /\ tab \in [Subs -> States] /\ RowsOk(rows, live, tab)
      /\ hears \in [Events -> SUBSET Subs]
  BY DEF StoryOk
<1>4. tab2 \in [Subs -> States] /\ tab2[s] = state /\ \A x \in Subs : x # s => tab2[x] = tab[x]
  BY <1>3
<1>5. \A x \in Subs : Touches(r, x, AnyEffect) <=> x = s
  BY <1>1, <1>2 DEF Touches
<1> HIDE DEF r, tab2
<1>6. RowMakes(r, tab, tab2)
  BY <1>1, <1>4, <1>5 DEF r, RowMakes
<1>7. \A x \in Subs : Owner[x] \notin live => tab2[x] = "none"
  BY <1>3, <1>4 DEF RowsOk
<1>8. FreshRow(r, rows, live) /\ HeardNow(r, tab, hears)
  BY <1>1, <1>2 DEF FreshRow, HeardNow
<1>9. StoryOk(live, tab2, Append(rows, r), marks2, hears)
  BY <1>1, <1>3, <1>4, <1>6, <1>7, <1>8, StoryRow
<1> QED BY <1>9 DEF r, tab2

LEMMA PublishKeeps ==
  ASSUME NEW live, NEW tab, NEW rows, NEW marks, NEW hears, StoryOk(live, tab, rows, marks, hears),
         OutboxAssumption, NEW e \in Events, e \notin Sent(rows),
         \A w \in Surfaces : End[w] = e => w \notin live
  PROVE  StoryOk(live, tab, Append(rows, Row("dispatch", e)), marks,
                 [hears EXCEPT ![e] = {s \in Hears[e] : tab[s] = "on"}])
<1> DEFINE r == Row("dispatch", e)
           hears2 == [hears EXCEPT ![e] = {s \in Hears[e] : tab[s] = "on"}]
<1>1. r \in OutboxRow /\ r.status = "pending" /\ r.effect = "dispatch" /\ r.of = e
  BY DEF Row, OutboxRow, RowStatus
<1>2. live \in SUBSET live /\ tab \in [Subs -> States] /\ RowsOk(rows, live, tab)
      /\ hears \in [Events -> SUBSET Subs] /\ marks \in SUBSET marks
  BY DEF StoryOk
<1>3. {s \in Hears[e] : tab[s] = "on"} \in SUBSET Subs
  BY DEF OutboxAssumption
<1>4. /\ hears2 \in [Events -> SUBSET Subs]
      /\ hears2[e] = {s \in Hears[e] : tab[s] = "on"}
      /\ \A x \in Events : x # e => hears2[x] = hears[x]
  BY <1>2, <1>3
<1>5. \A x \in Subs : ~ Touches(r, x, AnyEffect)
  BY <1>1 DEF Touches, AnyEffect, Presence, Toggles
<1> HIDE DEF r, hears2
<1>6. \A x \in Subs : Owner[x] \notin live => tab[x] = "none"
  BY <1>2 DEF RowsOk
<1>7. /\ r.of \notin Sent(rows) /\ \A w \in Surfaces : End[w] = r.of => w \notin live
      /\ hears2[r.of] = {s \in Hears[r.of] : tab[s] = "on"}
  <2>1. r.of = e
    BY <1>1
  <2>2. {s \in Hears[r.of] : tab[s] = "on"} = {s \in Hears[e] : tab[s] = "on"}
    BY <2>1
  <2>3. hears2[r.of] = {s \in Hears[r.of] : tab[s] = "on"}
    BY <1>4, <2>1, <2>2, Zenon
  <2>4. r.of \notin Sent(rows) /\ \A w \in Surfaces : End[w] = r.of => w \notin live
    BY <2>1
  <2> QED BY <2>3, <2>4
<1>8. \A x \in Events : x # r.of \/ r.effect # "dispatch" => hears2[x] = hears[x]
  BY <1>1, <1>4
<1>9. FreshRow(r, rows, live)
  BY <1>1, <1>7 DEF FreshRow
<1>10. HeardNow(r, tab, hears2)
  BY <1>7, Zenon DEF HeardNow
<1>11. RowMakes(r, tab, tab)
  BY <1>5 DEF RowMakes
<1>12. StoryOk(live, tab, Append(rows, r), marks, hears2)
  BY <1>1, <1>2, <1>4, <1>6, <1>8, <1>9, <1>10, <1>11, StoryRow
<1> QED BY <1>12 DEF r, hears2

LEMMA DeleteKeeps ==
  ASSUME NEW live, NEW tab, NEW rows, NEW marks, NEW hears, StoryOk(live, tab, rows, marks, hears),
         NEW w \in Surfaces, NEW marks2 \in SUBSET marks
  PROVE  StoryOk(live \ {w}, [s \in Subs |-> IF Owner[s] = w THEN "none" ELSE tab[s]],
                 Append(rows, Row("remove_surface", w)), marks2, hears)
<1> DEFINE r == Row("remove_surface", w)
           tab2 == [s \in Subs |-> IF Owner[s] = w THEN "none" ELSE tab[s]]
<1>1. r \in OutboxRow /\ r.status = "pending" /\ r.effect = "remove_surface" /\ r.of = w
  BY DEF Row, OutboxRow, RowStatus
<1>2. live \ {w} \in SUBSET live /\ tab \in [Subs -> States] /\ RowsOk(rows, live, tab)
      /\ hears \in [Events -> SUBSET Subs]
  BY DEF StoryOk
<1>3. tab2 \in [Subs -> States]
  BY <1>2 DEF States
<1>4. \A x \in Subs : tab2[x] = IF Owner[x] = w THEN "none" ELSE tab[x]
  OBVIOUS
<1>5. \A x \in Subs : Touches(r, x, AnyEffect) <=> Owner[x] = w
  BY <1>1 DEF Touches, AnyEffect, Presence
<1>6. Makes(r) = "none" /\ r.effect \notin Toggles /\ r.effect # "dispatch"
  BY <1>1 DEF Makes, Toggles
<1> HIDE DEF r, tab2
<1>7. RowMakes(r, tab, tab2)
  BY <1>4, <1>5, <1>6 DEF RowMakes
<1>8. \A x \in Subs : Owner[x] \notin live \ {w} => tab2[x] = "none"
  BY <1>2, <1>4 DEF RowsOk
<1>9. FreshRow(r, rows, live \ {w}) /\ HeardNow(r, tab, hears)
  BY <1>1 DEF FreshRow, HeardNow
<1>10. StoryOk(live \ {w}, tab2, Append(rows, r), marks2, hears)
  BY <1>1, <1>2, <1>3, <1>6, <1>7, <1>8, <1>9, StoryRow
<1> QED BY <1>10 DEF r, tab2

LEMMA DoneKeeps ==
  ASSUME OutboxAssumption, NEW at \in Accounts, NEW o \in Operations, CanDo(o, at)
  PROVE  Done(o, at) \in Accounts
<1> DEFINE ok == at.ok
           live == at.alive
           tab == at.subs
           rows == at.rows
           marks == at.marks
           hears == at.heard
<1>1. /\ at = Account(ok, live, tab, rows, marks, hears) /\ ok \in BOOLEAN
      /\ StoryOk(live, tab, rows, marks, hears)
  BY DEF Accounts, AccountOk, Account
<1>2. /\ tab \in [Subs -> States]
      /\ \A s \in Subs : tab[s] # "none" => Owner[s] \in live
  BY <1>1 DEF StoryOk, RowsOk
<1>3. /\ o.op = "subscribe" => o.of \in Subs /\ Owner[o.of] \in live
      /\ o.op \in {"unsubscribe", "enable", "disable"} => o.of \in Subs /\ tab[o.of] # "none"
      /\ o.op = "dispatch" => o.of \in Events \ Range(End) /\ o.of \notin Sent(rows)
      /\ o.op = "delete" => o.of \in Surfaces /\ o.of \in live
  BY DEF CanDo, Operations, SubOps
<1>4. o.op \in SubOps \cup {"dispatch", "delete"}
  BY DEF Operations
<1> HIDE DEF ok, live, tab, rows, marks, hears
<1>5. ASSUME NEW s \in Subs, NEW effect \in {"add", "remove"} \cup Toggles, NEW state \in States,
             state = Makes(Row(effect, s)), NEW marks2 \in SUBSET marks,
             state # "none" => Owner[s] \in live,
             effect \in Toggles => tab[s] # "none"
      PROVE  Account(ok, live, [tab EXCEPT ![s] = state], Append(rows, Row(effect, s)),
                     marks2, hears) \in Accounts
  BY <1>1, <1>5, ChangeKeeps, AccountOfStory
<1>6. \A s : Makes(Row("add", s)) = "on" /\ Makes(Row("enable", s)) = "on"
  BY DEF Makes, Row
<1>7. \A s : Makes(Row("remove", s)) = "none" /\ Makes(Row("disable", s)) = "off"
  BY DEF Makes, Row
<1>8. {"on", "off", "none"} \subseteq States /\ marks \in SUBSET marks
  BY DEF States
<1>9. CASE o.op = "subscribe"
  <2> DEFINE tab2 == [tab EXCEPT ![o.of] = "on"]
             more == Append(rows, Row("add", o.of))
             marks2 == {m \in marks : m[2] \notin {o.of}}
  <2>1. Changed(at, o.of, "on", "add") = Account(ok, live, tab2, more, marks, hears)
    BY <1>1, ChangedAccount
  <2>2. Account(ok, live, tab2, more, marks2, hears) \in Accounts
    BY <1>3, <1>5, <1>6, <1>8, <1>9 DEF Toggles
  <2> HIDE DEF tab2, more, marks2
  <2>3. Unmarked(Changed(at, o.of, "on", "add"), {o.of})
          = Account(ok, live, tab2, more, marks2, hears)
    BY <2>1, UnmarkedAccount DEF marks2
  <2> QED BY <1>9, <2>2, <2>3 DEF Done
<1>10. CASE o.op = "unsubscribe"
  <2> DEFINE tab2 == [tab EXCEPT ![o.of] = "none"]
             more == Append(rows, Row("remove", o.of))
             marks2 == {m \in marks : m[2] \notin {o.of}}
  <2>1. Changed(at, o.of, "none", "remove") = Account(ok, live, tab2, more, marks, hears)
    BY <1>1, ChangedAccount
  <2>2. Account(ok, live, tab2, more, marks2, hears) \in Accounts
    BY <1>3, <1>5, <1>7, <1>8, <1>10 DEF Toggles
  <2> HIDE DEF tab2, more, marks2
  <2>3. Unmarked(Changed(at, o.of, "none", "remove"), {o.of})
          = Account(ok, live, tab2, more, marks2, hears)
    BY <2>1, UnmarkedAccount DEF marks2
  <2> QED BY <1>10, <2>2, <2>3 DEF Done
<1>11. CASE o.op = "enable"
  <2> DEFINE tab2 == [tab EXCEPT ![o.of] = "on"]
             more == Append(rows, Row("enable", o.of))
  <2>1. Changed(at, o.of, "on", "enable") = Account(ok, live, tab2, more, marks, hears)
    BY <1>1, ChangedAccount
  <2>2. Account(ok, live, tab2, more, marks, hears) \in Accounts
    BY <1>2, <1>3, <1>5, <1>6, <1>8, <1>11 DEF Toggles
  <2> HIDE DEF tab2, more
  <2> QED BY <1>11, <2>1, <2>2 DEF Done
<1>12. CASE o.op = "disable"
  <2> DEFINE tab2 == [tab EXCEPT ![o.of] = "off"]
             more == Append(rows, Row("disable", o.of))
  <2>1. Changed(at, o.of, "off", "disable") = Account(ok, live, tab2, more, marks, hears)
    BY <1>1, ChangedAccount
  <2>2. Account(ok, live, tab2, more, marks, hears) \in Accounts
    BY <1>2, <1>3, <1>5, <1>7, <1>8, <1>12 DEF Toggles
  <2> HIDE DEF tab2, more
  <2> QED BY <1>12, <2>1, <2>2 DEF Done
<1>13. CASE o.op = "dispatch"
  <2>1. o.of \in Events /\ \A w \in Surfaces : End[w] # o.of
    <3>1. \A w \in Surfaces : End[w] \in Range(End)
      BY DEF OutboxAssumption, Range
    <3> QED BY <1>3, <1>13, <3>1
  <2>2. StoryOk(live, tab, Append(rows, Row("dispatch", o.of)), marks,
                [hears EXCEPT ![o.of] = {s \in Hears[o.of] : tab[s] = "on"}])
    BY <1>1, <1>3, <1>13, <2>1, PublishKeeps
  <2>3. Published(at, o.of) \in Accounts
    BY <1>1, <2>2, PublishedAccount, AccountOfStory
  <2> QED BY <1>13, <2>3 DEF Done
<1>14. CASE o.op = "delete"
  <2> DEFINE w == o.of
             live2 == live \ {w}
             tab2 == [s \in Subs |-> IF Owner[s] = w THEN "none" ELSE tab[s]]
             more == Append(rows, Row("remove_surface", w))
             marks2 == {m \in marks : m[2] \notin OwnedBy(w)}
             gone == Unmarked(Deleted(at, w), OwnedBy(w))
             hears2 == [hears EXCEPT ![End[w]] = {s \in Hears[End[w]] : tab2[s] = "on"}]
  <2>1. w \in Surfaces /\ w \in live
    BY <1>3, <1>14
  <2>2. StoryOk(live2, tab2, more, marks2, hears)
    BY <1>1, <2>1, DeleteKeeps
  <2>3. Deleted(at, w) = Account(ok, live2, tab2, more, marks, hears)
    BY <1>1, DeletedAccount
  <2> HIDE DEF tab2, live2, more, marks2
  <2>4. gone = Account(ok, live2, tab2, more, marks2, hears)
    BY <2>3, UnmarkedAccount DEF marks2
  <2>5. End[w] \in Events /\ \A v \in Surfaces : End[v] = End[w] => v \notin live2
    BY <2>1 DEF OutboxAssumption, IsInjective, live2
  <2>6. End[w] \notin Sent(more)
    <3>1. End[w] \notin Sent(rows) /\ rows \in Seq(OutboxRow)
      BY <1>1, <2>1 DEF StoryOk, RowsOk
    <3>2. Row("remove_surface", w) \in OutboxRow /\ Row("remove_surface", w).effect = "remove_surface"
      BY <2>1 DEF Row, OutboxRow, RowStatus
    <3> DEFINE r == Row("remove_surface", w)
    <3>3. /\ DOMAIN more = 1..(Len(rows) + 1) /\ DOMAIN rows = 1..Len(rows) /\ Len(rows) \in Nat
          /\ \A k \in 1..Len(rows) : more[k] = rows[k]
          /\ more[Len(rows) + 1] = r
      BY <3>1, <3>2, Appended DEF more
    <3> HIDE DEF r
    <3>4. \A k \in DOMAIN more : (k \in DOMAIN rows /\ more[k] = rows[k]) \/ more[k] = r
      BY <3>3
    <3>5. r.effect # "dispatch"
      BY <3>2 DEF r
    <3> QED BY <3>1, <3>4, <3>5 DEF Sent
  <2>7. StoryOk(live2, tab2, Append(more, Row("dispatch", End[w])), marks2, hears2)
    BY <2>2, <2>5, <2>6, PublishKeeps
  <2>8. Published(gone, End[w]) \in Accounts
    <3> HIDE DEF gone
    <3>1. Published(gone, End[w])
            = Account(ok, live2, tab2, Append(more, Row("dispatch", End[w])), marks2, hears2)
      BY <2>4, PublishedAccount
    <3> QED BY <1>1, <2>7, <3>1, AccountOfStory
  <2> QED BY <1>14, <2>8 DEF Done
<1> QED BY <1>4, <1>9, <1>10, <1>11, <1>12, <1>13, <1>14 DEF SubOps

Stepped(at, o) == IF at.ok /\ CanDo(o, at) THEN Done(o, at) ELSE [at EXCEPT !.ok = FALSE]
Before == [ok |-> TRUE, alive |-> alive, subs |-> subs, rows |-> outbox,
           marks |-> delivered, heard |-> heard]
RunBy(h, t) ==
  [p \in SUBSET (DOMAIN t) |->
    IF p = {} THEN Before ELSE Stepped(h[p \ {Max(p)}], t[Max(p)])]

LEMMA SteppedKeeps ==
  ASSUME OutboxAssumption, NEW at \in Accounts, NEW o \in Operations
  PROVE  Stepped(at, o) \in Accounts
<1>1. CASE at.ok /\ CanDo(o, at)
  BY <1>1, DoneKeeps DEF Stepped
<1>2. CASE ~ (at.ok /\ CanDo(o, at))
  <2> DEFINE live == at.alive
             tab == at.subs
             rows == at.rows
             marks == at.marks
             hears == at.heard
  <2>1. at = Account(at.ok, live, tab, rows, marks, hears) /\ StoryOk(live, tab, rows, marks, hears)
    BY DEF Accounts, AccountOk, Account
  <2>2. Stepped(at, o) = [at EXCEPT !.ok = FALSE]
    BY <1>2 DEF Stepped
  <2> HIDE DEF live, tab, rows, marks, hears
  <2>3. ASSUME NEW a, NEW ok, a = Account(ok, live, tab, rows, marks, hears), NEW no
        PROVE  [a EXCEPT !.ok = no] = Account(no, live, tab, rows, marks, hears)
    BY <2>3 DEF Account
  <2>4. Account(FALSE, live, tab, rows, marks, hears) \in Accounts
    BY <2>1, AccountOfStory
  <2> QED BY <2>1, <2>2, <2>3, <2>4, Zenon
<1> QED BY <1>1, <1>2

LEMMA RunAllKeeps ==
  ASSUME OutboxAssumption, Before \in Accounts, NEW t \in Seq(Operations)
  PROVE  RunAll(t) \in Accounts
<1> DEFINE n == Len(t)
           g == [p \in Accounts \X Nat |-> IF p[2] \in 1..n THEN Stepped(p[1], t[p[2]]) ELSE p[1]]
           chosen == CHOOSE h : h = RunBy(h, t)
<1>1. n \in Nat /\ DOMAIN t = 1..n /\ \A k \in 1..n : t[k] \in Operations
  OBVIOUS
<1>2. g \in [Accounts \X Nat -> Accounts]
  <2>1. \A p \in Accounts \X Nat : p[1] \in Accounts
    OBVIOUS
  <2>2. \A p \in Accounts \X Nat : p[2] \in 1..n => Stepped(p[1], t[p[2]]) \in Accounts
    BY <1>1, <2>1, SteppedKeeps
  <2> QED BY <2>1, <2>2
<1>3. \A v \in Accounts, k \in 1..n : g[<<v, k>>] = Stepped(v, t[k])
  <2> TAKE v \in Accounts, k \in 1..n
  <2>1. <<v, k>> \in Accounts \X Nat
    BY <1>1
  <2> QED BY <2>1
<1> HIDE DEF n, g
<1>4. PICK h : h \in [SUBSET (1..n) -> Accounts] /\ Folds(h, n, Before, g)
  BY <1>1, <1>2, FoldExists
<1>5. h = RunBy(h, t)
  <2>1. ASSUME NEW p \in SUBSET (1..n), p # {}
        PROVE  h[p] = Stepped(h[p \ {Max(p)}], t[Max(p)])
    <3>1. Max(p) \in 1..n
      BY <1>1, <2>1, MaxOfPlaces
    <3>2. h[p \ {Max(p)}] \in Accounts
      BY <1>4
    <3>3. h[p] = g[<<h[p \ {Max(p)}], Max(p)>>]
      BY <1>4, <2>1 DEF Folds
    <3> QED BY <1>3, <3>1, <3>2, <3>3
  <2>2. \A p \in SUBSET (1..n) : p = {} => h[p] = Before
    BY <1>4 DEF Folds
  <2> QED BY <1>1, <1>4, <2>1, <2>2 DEF RunBy
<1>6. chosen = RunBy(chosen, t)
  BY <1>5, Zenon
<1>7. RunAll(t) = chosen[DOMAIN t]
  BY Zenon DEF RunAll, RunBy, Stepped, Before, FoldLeft, MapThenFoldSet
<1> HIDE DEF chosen
<1>8. \A p \in SUBSET (1..n) :
        chosen[p] = IF p = {} THEN Before ELSE Stepped(chosen[p \ {Max(p)}], t[Max(p)])
  BY <1>1, <1>6 DEF RunBy
<1>9. chosen[{}] = Before
  BY <1>8
<1>10. Follows(chosen, n, Accounts, g)
  <2> SUFFICES ASSUME NEW p \in SUBSET (1..n), p # {} /\ chosen[p \ {Max(p)}] \in Accounts
               PROVE  chosen[p] = g[<<chosen[p \ {Max(p)}], Max(p)>>]
    BY DEF Follows
  <2>1. Max(p) \in 1..n
    BY <1>1, MaxOfPlaces
  <2> QED BY <1>3, <1>8, <2>1
<1>11. GoesLeft(chosen, n, Accounts, Before, g)
  BY <1>1, <1>2, <1>9, <1>10, FoldGoesLeft
<1>12. PICK f \in [0..n -> Accounts] : chosen[1..n] = f[n]
  BY <1>11 DEF GoesLeft
<1>13. n \in 0..n
  BY <1>1
<1> QED BY <1>1, <1>7, <1>12, <1>13

-----------------------------------------------------------------------------
(* The flush *)

\* A row passed over by the flush for good.
Passed(row, no, out) ==
  \/ row.effect = "dispatch" /\ row.of \in no
  \/ row.effect = "add" /\ row.of \in out
FlushOk(rows, fl, no, out) ==
  /\ fl.rows \subseteq PendingRows(rows)
  /\ \A k \in PendingRows(rows) \ fl.rows, j \in fl.rows : k < j => Passed(rows[k], no, out)
  /\ fl.stage # "next" =>
       /\ fl.rows # {}
       /\ rows[Min(fl.rows)].effect = "dispatch"
       /\ fl.left \subseteq Hears[rows[Min(fl.rows)].of]

LEMMA TakenFirst ==
  ASSUME NEW rows \in Seq(OutboxRow), FlushLimit \in Nat
  PROVE  /\ Taken(rows) \subseteq PendingRows(rows)
         /\ \A k \in PendingRows(rows) \ Taken(rows), j \in Taken(rows) : ~ (k < j)
<1> DEFINE Earlier(k) == {j \in PendingRows(rows) : j < k}
<1>1. PendingRows(rows) \subseteq 1..Len(rows) /\ Len(rows) \in Nat
  BY DEF PendingRows
<1>2. \A k : Earlier(k) \in SUBSET (1..Len(rows))
  BY <1>1
<1>3. IsFiniteSet(1..Len(rows))
  BY <1>1, FS_Interval
<1>4. \A k : IsFiniteSet(Earlier(k)) /\ Cardinality(Earlier(k)) \in Nat
  <2> TAKE k
  <2> DEFINE E == Earlier(k)
  <2>1. E \in SUBSET (1..Len(rows))
    BY <1>2
  <2> HIDE DEF E
  <2>2. IsFiniteSet(E)
    BY <1>3, <2>1, FS_Subset
  <2>3. Cardinality(E) \in Nat
    BY <2>2, FS_CardinalityType
  <2> QED BY <2>2, <2>3 DEF E
<1>5. Taken(rows) = {k \in PendingRows(rows) : Cardinality(Earlier(k)) < FlushLimit}
  BY DEF Taken
<1>6. ASSUME NEW k \in PendingRows(rows) \ Taken(rows), NEW j \in Taken(rows), k < j
      PROVE  FALSE
  <2>1. j \in PendingRows(rows) /\ Cardinality(Earlier(j)) < FlushLimit
    BY <1>5
  <2>2. ~ (Cardinality(Earlier(k)) < FlushLimit)
    BY <1>5, <1>6
  <2>3. k \in Nat /\ j \in Nat
    BY <1>1, <1>6, <2>1
  <2>4. \A i \in PendingRows(rows) : i \in Nat
    BY <1>1
  <2>5. Earlier(k) \in SUBSET Earlier(j)
    <3>1. \A i \in PendingRows(rows) : i < k => i < j
      BY <1>6, <2>3, <2>4
    <3> QED BY <3>1
  <2> DEFINE E == Earlier(k)
             F == Earlier(j)
  <2>6. IsFiniteSet(F) /\ E \in SUBSET F /\ Cardinality(E) \in Nat /\ Cardinality(F) \in Nat
    BY <1>4, <2>5
  <2>7. Cardinality(F) < FlushLimit /\ ~ (Cardinality(E) < FlushLimit)
    BY <2>1, <2>2
  <2> HIDE DEF E, F
  <2>8. Cardinality(E) <= Cardinality(F)
    BY <2>6, FS_Subset
  <2> QED BY <2>6, <2>7, <2>8
<1> QED BY <1>5, <1>6

\* A new flush has passed over nothing.
LEMMA FlushStarts ==
  ASSUME NEW rows \in Seq(OutboxRow), FlushLimit \in Nat, NEW fl, NEW no, NEW out,
         fl = [NoFlush EXCEPT !.rows = Taken(rows)]
  PROVE  FlushOk(rows, fl, no, out) /\ fl.stage = "next"
<1>1. fl.rows = Taken(rows) /\ fl.stage = "next"
  BY DEF NoFlush
<1> QED BY <1>1, TakenFirst DEF FlushOk

\* For what is no stray the first row of the flush is the first that changes it.
LEMMA NoneComing ==
  ASSUME NEW rows \in Seq(OutboxRow), NEW fl, NEW no, NEW out, FlushOk(rows, fl, no, out),
         fl.rows # {}, NEW s \in Subs \ out, NEW effects \in SUBSET AnyEffect
  PROVE  /\ Min(fl.rows) \in fl.rows /\ Min(fl.rows) \in PendingRows(rows)
         /\ \A j \in fl.rows : Min(fl.rows) <= j
         /\ Coming(rows, s, Min(fl.rows), effects) = {}
<1> DEFINE h == Min(fl.rows)
<1>1. fl.rows \in SUBSET Nat /\ fl.rows \subseteq PendingRows(rows)
  BY DEF FlushOk, PendingRows
<1>2. h \in fl.rows /\ \A j \in fl.rows : h <= j
  BY <1>1, MinOfPlaces
<1> HIDE DEF h
<1>3. ASSUME NEW j \in Coming(rows, s, h, effects) PROVE FALSE
  <2>1. j \in PendingRows(rows) /\ j < h /\ Touches(rows[j], s, effects)
    BY DEF Coming, Touches, PendingRows
  <2>2. j \in Nat /\ h \in Nat
    BY <1>1, <1>2, <2>1 DEF PendingRows
  <2>3. j \notin fl.rows
    BY <1>2, <2>1, <2>2
  <2>4. h \in fl.rows /\ j \in PendingRows(rows) \ fl.rows /\ j < h
    BY <1>2, <2>1, <2>3
  <2>5. Passed(rows[j], no, out)
    BY <2>4 DEF FlushOk
  <2> QED BY <2>1, <2>5 DEF Passed, Touches, AnyEffect, Presence, Toggles
<1>4. h \in PendingRows(rows) /\ Coming(rows, s, h, effects) = {}
  BY <1>1, <1>2, <1>3
<1> QED BY <1>2, <1>4 DEF h

-----------------------------------------------------------------------------
(* The inductive invariant *)

Flushes ==
  [rows : SUBSET Nat, stage : {"next", "deliver", "mark"},
   left : SUBSET Subs, now : SUBSET Subs, ok : BOOLEAN]
Types ==
  /\ alive \subseteq Surfaces
  /\ subs \in [Subs -> States] /\ known \in [Subs -> States] /\ listed \in [Subs -> Nat]
  /\ outbox \in Seq(OutboxRow)
  /\ delivered \subseteq Events \X Subs /\ ran \in [Events \X Subs -> Nat]
  /\ flush \in Flushes
  /\ crashes \in 0..MaxCrashes
  /\ heard \in [Events -> SUBSET Subs]

\* What the bus has by id it has in a list.
BusOk(b, list) == \A s \in Subs : b[s] = "none" <=> list[s] = 0

\* A delivery that is marked, or about to be, was run.
MarksOk(rows, marks, r, fl) ==
  /\ \A m \in marks : r[m] > 0
  /\ fl.stage = "mark" => \A s \in fl.now : r[<<rows[Min(fl.rows)].of, s>>] > 0

\* Before the first crash: those left to hear the event under way were
\* subscribed, and until one fails the others of these have heard it.
UnderWay(e, hears, r, fl, out) ==
  /\ fl.left \ out \subseteq hears[e]
  /\ fl.ok => \A s \in hears[e] \ out : s \in fl.left \/ r[<<e, s>>] > 0
UnderWayOk(rows, hears, r, fl, no, out) ==
  fl.stage # "next" /\ rows[Min(fl.rows)].of \notin no
    => UnderWay(rows[Min(fl.rows)].of, hears, r, fl, out)

EarlyOk ==
  crashes = 0 =>
    /\ OrderOk(outbox, known, heard, refused, strays)
    /\ HeardOk(heard, ran, refused, strays)
    /\ AllOk(outbox, heard, ran, refused, strays)
    /\ UnderWayOk(outbox, heard, ran, flush, refused, strays)

OutboxInv ==
  /\ Types
  /\ RowsOk(outbox, alive, subs)
  /\ SyncOk(outbox, subs, known, strays)
  /\ RanOk(outbox, ran, crashes, flush)
  /\ FlushOk(outbox, flush, refused, strays)
  /\ MarksOk(outbox, delivered, ran, flush)
  /\ BusOk(known, listed)
  /\ EarlyOk

LEMMA FlushIdle ==
  /\ NoFlush.rows = {} /\ NoFlush.stage = "next"
  /\ \A r : [NoFlush EXCEPT !.rows = r].rows = r /\ [NoFlush EXCEPT !.rows = r].stage = "next"
  /\ \A r \in SUBSET Nat :
       [NoFlush EXCEPT !.rows = r] \in Flushes
BY DEF NoFlush, Flushes

LEMMA InitOutbox ==
  ASSUME OutboxAssumption, Init
  PROVE  OutboxInv
<1>1. /\ alive = Surfaces /\ subs = [s \in Subs |-> "none"] /\ outbox = << >>
      /\ delivered = {} /\ ran = [m \in Events \X Subs |-> 0] /\ known = subs
      /\ listed = [s \in Subs |-> 0] /\ flush = NoFlush /\ crashes = 0
      /\ heard = [e \in Events |-> {}] /\ refused = {} /\ strays = {}
  BY DEF Init
<1>2. DOMAIN outbox = {} /\ Len(outbox) = 0
  BY <1>1
<1>3. Types
  <2>1. MaxCrashes \in Nat
    BY DEF OutboxAssumption
  <2>2. flush \in Flushes
    BY <1>1 DEF NoFlush, Flushes
  <2>3. outbox \in Seq(OutboxRow)
    BY <1>1
  <2> QED BY <1>1, <2>1, <2>2, <2>3 DEF Types, States
<1>4. RowsOk(outbox, alive, subs)
  BY <1>1, <1>2 DEF RowsOk, Sent, OutboxAssumption
<1>5. SyncOk(outbox, subs, known, strays)
  BY <1>1, <1>2 DEF SyncOk, InStep, ValueAt, Coming
<1>6. RanOk(outbox, ran, crashes, flush)
  <2>1. \A e \in Events, s \in Subs : ran[<<e, s>>] <= crashes
    BY <1>1
  <2> QED BY <2>1 DEF RanOk
<1>7. FlushOk(outbox, flush, refused, strays)
  BY <1>1, FlushIdle DEF FlushOk
<1>8. MarksOk(outbox, delivered, ran, flush)
  BY <1>1, FlushIdle DEF MarksOk
<1>9. BusOk(known, listed)
  BY <1>1 DEF BusOk
<1>10. EarlyOk
  <2>1. HeardOk(heard, ran, refused, strays)
    <3>1. \A e \in Events, s \in Subs : ran[<<e, s>>] = 0
      BY <1>1
    <3> QED BY <3>1 DEF HeardOk
  <2> QED BY <1>1, <1>2, <2>1, FlushIdle DEF EarlyOk, OrderOk, OrderAt, AllOk, UnderWayOk
<1> QED BY <1>3, <1>4, <1>5, <1>6, <1>7, <1>8, <1>9, <1>10 DEF OutboxInv

LEMMA CommitStep ==
  ASSUME OutboxAssumption, OutboxInv, NEW t \in Transactions, CommitTransaction(t)
  PROVE  OutboxInv'
<1> DEFINE at == RunAll(t)
<1>1. /\ flush = NoFlush
      /\ alive' = at.alive /\ subs' = at.subs /\ outbox' = at.rows /\ delivered' = at.marks
      /\ heard' = at.heard /\ flush' = [NoFlush EXCEPT !.rows = Taken(at.rows)]
      /\ UNCHANGED <<ran, known, listed, crashes, refused, strays>>
  BY DEF CommitTransaction, bus
<1>2. t \in Seq(Operations) /\ FlushLimit \in Nat
  BY DEF OutboxAssumption
<1>3. StoryOk(alive, subs, outbox, delivered, heard)
  <2>1. crashes \in Nat
    BY DEF OutboxInv, Types, OutboxAssumption
  <2>2. RanOk(outbox, ran, crashes, NoFlush)
    BY <1>1 DEF OutboxInv
  <2> QED BY <2>1, <2>2 DEF OutboxInv, Types, MarksOk, EarlyOk, StoryOk
<1>4. Before \in Accounts
  <2>1. Account(TRUE, alive, subs, outbox, delivered, heard) \in Accounts
    BY <1>3, AccountOfStory
  <2> QED BY <2>1, Zenon DEF Account, Before
<1>5. at \in Accounts
  BY <1>2, <1>4, RunAllKeeps
<1> HIDE DEF at
<1>6. StoryOk(at.alive, at.subs, at.rows, at.marks, at.heard) /\ at.rows \in Seq(OutboxRow)
  BY <1>5 DEF Accounts, AccountOk
<1>7. /\ FlushOk(at.rows, flush', refused, strays) /\ flush'.stage = "next"
      /\ Taken(at.rows) \in SUBSET Nat
  <2>1. Taken(at.rows) \subseteq PendingRows(at.rows)
    BY <1>2, <1>6, TakenFirst
  <2>2. Taken(at.rows) \in SUBSET Nat
    BY <1>6, <2>1 DEF PendingRows
  <2> QED BY <1>1, <1>2, <1>6, <2>2, FlushStarts
<1>8. Types'
  <2>1. flush' \in Flushes
    BY <1>1, <1>7, FlushIdle
  <2> QED BY <1>1, <1>6, <2>1 DEF StoryOk, OutboxInv, Types
<1>9. RanOk(at.rows, ran, crashes, flush')
  <2>1. \A e, s : Tried(at.rows, NoFlush, e, s) => Tried(at.rows, flush', e, s)
    BY FlushIdle DEF Tried, Under
  <2>2. RanOk(at.rows, ran, crashes, NoFlush)
    BY <1>6 DEF StoryOk
  <2> QED BY <2>1, <2>2 DEF RanOk
<1>10. MarksOk(at.rows, at.marks, ran, flush')
  BY <1>6, <1>7 DEF MarksOk, StoryOk
<1>11. crashes = 0 =>
         /\ OrderOk(at.rows, known, at.heard, refused, strays)
         /\ HeardOk(at.heard, ran, refused, strays)
         /\ AllOk(at.rows, at.heard, ran, refused, strays)
         /\ UnderWayOk(at.rows, at.heard, ran, flush', refused, strays)
  BY <1>6, <1>7 DEF StoryOk, UnderWayOk
<1>12. RowsOk(at.rows, at.alive, at.subs) /\ SyncOk(at.rows, at.subs, known, strays)
  BY <1>6 DEF StoryOk
<1>13. BusOk(known, listed)
  BY DEF OutboxInv
<1> QED BY <1>1, <1>7, <1>8, <1>9, <1>10, <1>11, <1>12, <1>13 DEF OutboxInv, EarlyOk

-----------------------------------------------------------------------------
(* The steps *)

\* More refusals and more strays leave less to be shown.
LEMMA LessSync ==
  ASSUME NEW rows, NEW tab, NEW tab2, NEW b, NEW out, NEW out2, out \subseteq out2,
         \A s \in Subs \ out2 : tab2[s] = tab[s], SyncOk(rows, tab, b, out)
  PROVE  SyncOk(rows, tab2, b, out2)
BY DEF SyncOk, InStep

LEMMA LessOrder ==
  ASSUME NEW rows, NEW b, NEW hears, NEW no, NEW no2, no \subseteq no2,
         NEW out, NEW out2, out \subseteq out2, OrderOk(rows, b, hears, no, out)
  PROVE  OrderOk(rows, b, hears, no2, out2)
BY DEF OrderOk, OrderAt, HeardThen

LEMMA LessHeard ==
  ASSUME NEW r, NEW hears, NEW no, NEW no2, no \subseteq no2,
         NEW out, NEW out2, out \subseteq out2, HeardOk(hears, r, no, out)
  PROVE  HeardOk(hears, r, no2, out2)
BY DEF HeardOk

LEMMA LessAll ==
  ASSUME NEW rows, NEW r, NEW hears, NEW no, NEW no2, no \subseteq no2,
         NEW out, NEW out2, out \subseteq out2, AllOk(rows, hears, r, no, out)
  PROVE  AllOk(rows, hears, r, no2, out2)
BY DEF AllOk

LEMMA LessFlush ==
  ASSUME NEW rows, NEW fl, NEW no, NEW no2, no \subseteq no2,
         NEW out, NEW out2, out \subseteq out2, FlushOk(rows, fl, no, out)
  PROVE  FlushOk(rows, fl, no2, out2)
<1>1. \A row : Passed(row, no, out) => Passed(row, no2, out2)
  BY DEF Passed
<1> QED BY <1>1 DEF FlushOk

LEMMA LessUnderWay ==
  ASSUME NEW rows, NEW r, NEW fl, NEW hears, NEW no, NEW no2, no \subseteq no2,
         NEW out, NEW out2, out \subseteq out2, UnderWayOk(rows, hears, r, fl, no, out)
  PROVE  UnderWayOk(rows, hears, r, fl, no2, out2)
BY DEF UnderWayOk, UnderWay

LEMMA UndoStep ==
  ASSUME OutboxAssumption, OutboxInv, NEW w \in Surfaces, UndoCreation(w)
  PROVE  OutboxInv'
<1>1. /\ flush = NoFlush /\ w \in alive /\ alive' = alive \ {w}
      /\ subs' = [s \in Subs |-> IF Owner[s] = w THEN "none" ELSE subs[s]]
      /\ delivered' = {m \in delivered : Owner[m[2]] # w}
      /\ strays' = strays \cup OwnedBy(w)
      /\ UNCHANGED <<outbox, ran, known, listed, flush, crashes, heard, refused>>
  BY DEF UndoCreation, bus
<1>2. \A s \in Subs : subs'[s] = IF Owner[s] = w THEN "none" ELSE subs[s]
  BY <1>1
<1>3. strays \subseteq strays' /\ \A s \in Subs \ strays' : subs'[s] = subs[s]
  BY <1>1, <1>2 DEF OwnedBy
<1>4. Types'
  <2>1. subs' \in [Subs -> States]
    BY <1>1 DEF OutboxInv, Types, States
  <2> QED BY <1>1, <2>1 DEF OutboxInv, Types
<1>5. RowsOk(outbox', alive', subs')
  BY <1>1, <1>2 DEF OutboxInv, RowsOk
<1>6. SyncOk(outbox', subs', known', strays')
  BY <1>1, <1>3, LessSync DEF OutboxInv
<1>7. RanOk(outbox', ran', crashes', flush') /\ BusOk(known', listed')
  BY <1>1 DEF OutboxInv
<1>8. FlushOk(outbox', flush', refused', strays')
  BY <1>1, <1>3, LessFlush DEF OutboxInv
<1>9. MarksOk(outbox', delivered', ran', flush')
  BY <1>1 DEF OutboxInv, MarksOk
<1>10. EarlyOk'
  BY <1>1, <1>3, LessOrder, LessHeard, LessAll, LessUnderWay DEF OutboxInv, EarlyOk
<1> QED BY <1>4, <1>5, <1>6, <1>7, <1>8, <1>9, <1>10 DEF OutboxInv

NextFlush(rows, h) == [NoFlush EXCEPT !.rows = rows \ {h}]

\* The flush goes to the next row: it settled row h, or leaves it pending.
Leaves(rows, rows2, h, no, out) ==
  /\ \/ PendingRows(rows2) = PendingRows(rows) \ {h}
     \/ PendingRows(rows2) = PendingRows(rows) /\ Passed(rows[h], no, out)
  /\ \A k \in DOMAIN rows : rows2[k].effect = rows[k].effect /\ rows2[k].of = rows[k].of

LEMMA NextRowFlush ==
  ASSUME NEW rows \in Seq(OutboxRow), NEW rows2 \in Seq(OutboxRow), NEW fl, NEW fl2, NEW no, NEW out,
         FlushOk(rows, fl, no, out), fl.rows # {},
         fl2 = NextFlush(fl.rows, Min(fl.rows)),
         Leaves(rows, rows2, Min(fl.rows), no, out)
  PROVE  /\ FlushOk(rows2, fl2, no, out) /\ fl2.stage = "next"
         /\ fl2 \in Flushes
<1> DEFINE h == Min(fl.rows)
<1>1. fl.rows \in SUBSET Nat /\ fl.rows \subseteq PendingRows(rows)
  BY DEF FlushOk, PendingRows
<1>2. h \in fl.rows /\ \A j \in fl.rows : h <= j
  BY <1>1, MinOfPlaces
<1> HIDE DEF h
<1>3. fl2.rows = fl.rows \ {h} /\ fl2.stage = "next"
  BY FlushIdle DEF h, NextFlush
<1>4. \/ PendingRows(rows2) = PendingRows(rows) \ {h}
      \/ PendingRows(rows2) = PendingRows(rows) /\ Passed(rows[h], no, out)
  BY DEF h, Leaves
<1>5. fl2.rows \subseteq PendingRows(rows2)
  BY <1>1, <1>3, <1>4
<1>6. ASSUME NEW k \in PendingRows(rows2) \ fl2.rows, NEW j \in fl2.rows, k < j
      PROVE  Passed(rows2[k], no, out)
  <2>1. k \in PendingRows(rows) /\ j \in fl.rows
    BY <1>3, <1>4, <1>6
  <2>2. Passed(rows[k], no, out)
    <3>1. CASE k = h
      BY <1>3, <1>4, <1>6, <3>1
    <3>2. CASE k # h
      <4>1. k \in PendingRows(rows) \ fl.rows
        BY <1>3, <1>6, <2>1, <3>2
      <4> QED BY <1>6, <2>1, <4>1 DEF FlushOk
    <3> QED BY <3>1, <3>2
  <2>3. k \in DOMAIN rows
    BY <2>1 DEF PendingRows
  <2> QED BY <2>2, <2>3 DEF Passed, Leaves
<1>7. FlushOk(rows2, fl2, no, out)
  BY <1>3, <1>5, <1>6 DEF FlushOk
<1>8. fl2 \in Flushes
  <2>1. fl.rows \ {Min(fl.rows)} \in SUBSET Nat
    BY <1>1
  <2> QED BY <2>1, FlushIdle DEF NextFlush
<1> QED BY <1>3, <1>7, <1>8

LEMMA OverLimitStep ==
  ASSUME OutboxAssumption, OutboxInv, FlushOverLimit
  PROVE  OutboxInv'
<1>1. /\ flush.rows # {} /\ flush.stage = "next"
      /\ outbox[Head1].effect = "add" /\ strays' = strays \cup {outbox[Head1].of}
      /\ flush' = NextFlush(flush.rows, Head1)
      /\ UNCHANGED <<alive, subs, outbox, delivered, ran, known, listed, crashes, heard, refused>>
  BY DEF FlushOverLimit, FlushRow, NextRow, NextFlush, Event1, db, bus
<1>2. strays \subseteq strays' /\ \A s \in Subs \ strays' : subs'[s] = subs[s]
  BY <1>1
<1>3. outbox \in Seq(OutboxRow) /\ FlushOk(outbox, flush, refused, strays')
  BY <1>2, LessFlush DEF OutboxInv, Types
<1>4. Leaves(outbox, outbox, Head1, refused, strays')
  BY <1>1 DEF Passed, Leaves
<1>5. /\ FlushOk(outbox, flush', refused, strays') /\ flush'.stage = "next"
      /\ flush' \in Flushes
  BY <1>1, <1>3, <1>4, NextRowFlush DEF Head1
<1>6. Types'
  BY <1>1, <1>5 DEF OutboxInv, Types
<1>7. SyncOk(outbox', subs', known', strays')
  BY <1>1, <1>2, LessSync DEF OutboxInv
<1>8. RanOk(outbox', ran', crashes', flush')
  BY <1>1 DEF OutboxInv, RanOk, Tried, Under
<1>9. MarksOk(outbox', delivered', ran', flush')
  BY <1>1, <1>5 DEF OutboxInv, MarksOk
<1>10. EarlyOk'
  <2>1. ASSUME crashes = 0
        PROVE  /\ OrderOk(outbox, known, heard, refused, strays')
               /\ HeardOk(heard, ran, refused, strays')
               /\ AllOk(outbox, heard, ran, refused, strays')
    BY <1>2, <2>1, LessOrder, LessHeard, LessAll DEF OutboxInv, EarlyOk
  <2>2. UnderWayOk(outbox, heard, ran, flush', refused, strays')
    BY <1>5 DEF UnderWayOk
  <2> QED BY <1>1, <2>1, <2>2 DEF EarlyOk
<1> QED BY <1>1, <1>5, <1>6, <1>7, <1>8, <1>9, <1>10 DEF OutboxInv

LEMMA RefusedStep ==
  ASSUME OutboxAssumption, OutboxInv, DispatchRefused
  PROVE  OutboxInv'
<1>1. /\ flush.rows # {} /\ flush.stage = "next"
      /\ outbox[Head1].effect = "dispatch" /\ refused' = refused \cup {outbox[Head1].of}
      /\ flush' = NextFlush(flush.rows, Head1)
      /\ UNCHANGED <<alive, subs, outbox, delivered, ran, known, listed, crashes, heard, strays>>
  BY DEF DispatchRefused, FlushRow, NextRow, NextFlush, Event1, db, bus
<1>2. refused \subseteq refused'
  BY <1>1
<1>3. outbox \in Seq(OutboxRow) /\ FlushOk(outbox, flush, refused', strays)
  BY <1>2, LessFlush DEF OutboxInv, Types
<1>4. Leaves(outbox, outbox, Head1, refused', strays)
  BY <1>1 DEF Passed, Leaves
<1>5. /\ FlushOk(outbox, flush', refused', strays) /\ flush'.stage = "next"
      /\ flush' \in Flushes
  BY <1>1, <1>3, <1>4, NextRowFlush DEF Head1
<1>6. Types'
  BY <1>1, <1>5 DEF OutboxInv, Types
<1>7. RanOk(outbox', ran', crashes', flush')
  BY <1>1 DEF OutboxInv, RanOk, Tried, Under
<1>8. MarksOk(outbox', delivered', ran', flush')
  BY <1>1, <1>5 DEF OutboxInv, MarksOk
<1>9. EarlyOk'
  <2>1. ASSUME crashes = 0
        PROVE  /\ OrderOk(outbox, known, heard, refused', strays)
               /\ HeardOk(heard, ran, refused', strays)
               /\ AllOk(outbox, heard, ran, refused', strays)
    BY <1>2, <2>1, LessOrder, LessHeard, LessAll DEF OutboxInv, EarlyOk
  <2>2. UnderWayOk(outbox, heard, ran, flush', refused', strays)
    BY <1>5 DEF UnderWayOk
  <2> QED BY <1>1, <2>1, <2>2 DEF EarlyOk
<1> QED BY <1>1, <1>5, <1>6, <1>7, <1>8, <1>9 DEF OutboxInv

\* The event of the row under way.
LEMMA EventUnderWay ==
  ASSUME NEW rows \in Seq(OutboxRow), NEW fl, NEW no, NEW out, FlushOk(rows, fl, no, out),
         fl.rows # {}, rows[Min(fl.rows)].effect = "dispatch"
  PROVE  /\ Min(fl.rows) \in fl.rows /\ Min(fl.rows) \in PendingRows(rows)
         /\ Min(fl.rows) \in DOMAIN rows /\ rows[Min(fl.rows)].of \in Events
         /\ rows[Min(fl.rows)].status = "pending"
<1>1. fl.rows \in SUBSET Nat /\ fl.rows \subseteq PendingRows(rows)
  BY DEF FlushOk, PendingRows
<1>2. Min(fl.rows) \in fl.rows
  BY <1>1, MinOfPlaces
<1> DEFINE h == Min(fl.rows)
<1> HIDE DEF h
<1>3. h \in DOMAIN rows /\ rows[h] \in OutboxRow /\ rows[h].status = "pending"
  BY <1>1, <1>2 DEF h, PendingRows
<1>4. rows[h].of \in Events
  BY <1>3 DEF OutboxRow, Toggles, h
<1> QED BY <1>1, <1>2, <1>3, <1>4 DEF h

LEMMA RanStays ==
  ASSUME NEW rows, NEW rows2, NEW fl, NEW fl2, NEW r, NEW c, RanOk(rows, r, c, fl),
         \A e \in Events, s \in Subs : Tried(rows, fl, e, s) => Tried(rows2, fl2, e, s)
  PROVE  RanOk(rows2, r, c, fl2)
BY DEF RanOk

LEMMA DispatchStep ==
  ASSUME OutboxAssumption, OutboxInv, Dispatch
  PROVE  OutboxInv'
<1> DEFINE e == outbox[Head1].of
           hear == {s \in Hears[e] : known[s] = "on"}
<1>1. /\ flush.rows # {} /\ flush.stage = "next" /\ outbox[Head1].effect = "dispatch"
      /\ flush' = [flush EXCEPT !.stage = "deliver", !.left = hear]
      /\ UNCHANGED <<alive, subs, outbox, delivered, ran, known, listed, crashes, heard,
                     refused, strays>>
  BY DEF Dispatch, FlushRow, Event1, db, bus, history
<1>2. outbox \in Seq(OutboxRow) /\ FlushOk(outbox, flush, refused, strays) /\ flush \in Flushes
  BY DEF OutboxInv, Types
<1>3. /\ Head1 \in flush.rows /\ Head1 \in PendingRows(outbox) /\ Head1 \in DOMAIN outbox
      /\ e \in Events /\ outbox[Head1].status = "pending"
  BY <1>1, <1>2, EventUnderWay DEF Head1
<1>4. hear \in SUBSET Subs /\ hear \subseteq Hears[e]
  BY <1>3 DEF OutboxAssumption
<1> HIDE DEF hear
<1>5. /\ flush' \in Flushes /\ flush'.rows = flush.rows /\ flush'.stage = "deliver"
      /\ flush'.left = hear /\ flush'.ok = flush.ok
  BY <1>1, <1>2, <1>4 DEF Flushes
<1>6. Types'
  BY <1>1, <1>5 DEF OutboxInv, Types
<1>7. RanOk(outbox, ran, crashes, flush')
  <2>1. \A ev \in Events, s \in Subs : Tried(outbox, flush, ev, s) => Tried(outbox, flush', ev, s)
    BY <1>1 DEF Tried, Under
  <2>2. RanOk(outbox, ran, crashes, flush)
    BY DEF OutboxInv
  <2> QED BY <2>1, <2>2, RanStays
<1>8. FlushOk(outbox, flush', refused, strays)
  BY <1>1, <1>2, <1>4, <1>5 DEF FlushOk, Head1
<1>9. MarksOk(outbox, delivered, ran, flush')
  BY <1>5 DEF OutboxInv, MarksOk
<1>10. ASSUME crashes = 0 PROVE UnderWayOk(outbox, heard, ran, flush', refused, strays)
  <2> SUFFICES ASSUME e \notin refused PROVE UnderWay(e, heard, ran, flush', strays)
    BY <1>5 DEF UnderWayOk, Head1
  <2>1. ASSUME NEW s \in Subs \ strays PROVE s \in heard[e] <=> s \in hear
    <3>1. OrderAt(outbox, known, heard, refused, s)
      BY <1>10 DEF OutboxInv, EarlyOk, OrderOk
    <3>2. HeardThen(outbox, known, heard, refused, s, Head1)
      BY <1>3, <3>1 DEF OrderAt
    <3>3. s \in heard[e] <=> s \in Hears[e] /\ ValueAt(outbox, known, s, Head1, AnyEffect) = "on"
      BY <1>1, <1>3, <3>2 DEF HeardThen
    <3>4. Coming(outbox, s, Head1, AnyEffect) = {}
      BY <1>1, <1>2, NoneComing DEF Head1
    <3> QED BY <3>3, <3>4 DEF ValueAt, hear
  <2>2. heard[e] \in SUBSET Subs
    BY <1>3 DEF OutboxInv, Types
  <2> QED BY <1>4, <1>5, <2>1, <2>2 DEF UnderWay
<1>11. EarlyOk'
  BY <1>1, <1>10 DEF OutboxInv, EarlyOk
<1> QED BY <1>1, <1>6, <1>7, <1>8, <1>9, <1>11 DEF OutboxInv

LEMMA MarkStep ==
  ASSUME OutboxAssumption, OutboxInv, MarkDelivered
  PROVE  OutboxInv'
<1> DEFINE e == outbox[Head1].of
<1>1. /\ flush.stage = "mark" /\ delivered' = delivered \cup {<<e, s>> : s \in flush.now}
      /\ flush' = [flush EXCEPT !.stage = "deliver", !.now = {}]
      /\ UNCHANGED <<alive, subs, outbox, ran, known, listed, crashes, heard, refused, strays>>
  BY DEF MarkDelivered, Event1, bus, history
<1>2. outbox \in Seq(OutboxRow) /\ FlushOk(outbox, flush, refused, strays) /\ flush \in Flushes
  BY DEF OutboxInv, Types
<1>3. flush.rows # {} /\ outbox[Head1].effect = "dispatch"
  BY <1>1, <1>2 DEF FlushOk, Head1
<1>4. e \in Events
  BY <1>2, <1>3, EventUnderWay DEF Head1
<1>5. /\ flush' \in Flushes /\ flush'.rows = flush.rows /\ flush'.stage = "deliver"
      /\ flush'.left = flush.left /\ flush'.ok = flush.ok
  BY <1>1, <1>2 DEF Flushes
<1>6. Types'
  <2>1. delivered' \subseteq Events \X Subs
    BY <1>1, <1>2, <1>4 DEF OutboxInv, Types, Flushes
  <2> QED BY <1>1, <1>5, <2>1 DEF OutboxInv, Types
<1>7. RanOk(outbox, ran, crashes, flush')
  <2>1. \A ev \in Events, s \in Subs : Tried(outbox, flush, ev, s) => Tried(outbox, flush', ev, s)
    BY <1>1, <1>5 DEF Tried, Under
  <2>2. RanOk(outbox, ran, crashes, flush)
    BY DEF OutboxInv
  <2> QED BY <2>1, <2>2, RanStays
<1>8. FlushOk(outbox, flush', refused, strays)
  BY <1>1, <1>2, <1>5 DEF FlushOk
<1>9. MarksOk(outbox, delivered', ran, flush')
  <2>1. (\A m \in delivered : ran[m] > 0) /\ (\A s \in flush.now : ran[<<e, s>>] > 0)
    BY <1>1 DEF OutboxInv, MarksOk, Head1
  <2> QED BY <1>1, <1>5, <2>1 DEF MarksOk
<1>10. UnderWayOk(outbox, heard, ran, flush, refused, strays)
         => UnderWayOk(outbox, heard, ran, flush', refused, strays)
  BY <1>1, <1>5 DEF UnderWayOk, UnderWay
<1>11. EarlyOk'
  BY <1>1, <1>10 DEF OutboxInv, EarlyOk
<1> QED BY <1>1, <1>6, <1>7, <1>8, <1>9, <1>11 DEF OutboxInv

\* What a delivery does to the table, and the three ways it goes on.
DeliverWrites(s) ==
  \/ UNCHANGED <<subs, strays>>
  \/ /\ Owner[s] \in alive
     /\ subs' = [subs EXCEPT ![s] = IF @ = "none" THEN "on" ELSE @]
     /\ strays' = IF subs[s] = "none" THEN strays \cup {s} ELSE strays
DeliverSkips(e, s) ==
  /\ <<e, s>> \in delivered /\ ran' = ran
  /\ flush' = [flush EXCEPT !.left = @ \ {s}]
DeliverRuns(e, s) ==
  /\ ran' = [ran EXCEPT ![<<e, s>>] = @ + 1]
  /\ flush' = [flush EXCEPT !.stage = "mark", !.left = @ \ {s}, !.now = {s}]
DeliverFails ==
  /\ ran' = ran
  /\ flush' = [flush EXCEPT !.left = {}, !.ok = FALSE]

LEMMA DeliverTable ==
  ASSUME OutboxInv, NEW s \in Subs, DeliverWrites(s), UNCHANGED <<alive, outbox, known>>
  PROVE  /\ subs' \in [Subs -> States] /\ strays \subseteq strays'
         /\ RowsOk(outbox', alive', subs')
         /\ SyncOk(outbox', subs', known', strays')
<1>1. CASE UNCHANGED <<subs, strays>>
  BY <1>1 DEF OutboxInv, Types
<1>2. CASE /\ Owner[s] \in alive
           /\ subs' = [subs EXCEPT ![s] = IF @ = "none" THEN "on" ELSE @]
           /\ strays' = IF subs[s] = "none" THEN strays \cup {s} ELSE strays
  <2>1. subs \in [Subs -> States] /\ {"none", "on"} \subseteq States
    BY DEF OutboxInv, Types, States
  <2>2. subs' \in [Subs -> States]
    BY <1>2, <2>1
  <2>3. \A x \in Subs : subs'[x] = IF x = s /\ subs[s] = "none" THEN "on" ELSE subs[x]
    BY <1>2, <2>1
  <2>4. strays \subseteq strays' /\ \A x \in Subs \ strays' : subs'[x] = subs[x]
    BY <1>2, <2>3
  <2>5. RowsOk(outbox, alive, subs')
    <3>1. \A x \in Subs : Owner[x] \notin alive => subs'[x] = "none"
      BY <1>2, <2>3 DEF OutboxInv, RowsOk
    <3> QED BY <3>1 DEF OutboxInv, RowsOk
  <2>6. SyncOk(outbox, subs', known, strays')
    BY <2>4, LessSync DEF OutboxInv
  <2> QED BY <2>2, <2>4, <2>5, <2>6
<1> QED BY <1>1, <1>2 DEF DeliverWrites

LEMMA DeliverStep ==
  ASSUME OutboxAssumption, OutboxInv, NEW s \in Subs, Deliver(s)
  PROVE  OutboxInv'
<1> DEFINE e == outbox[Head1].of
<1>1. /\ flush.stage = "deliver" /\ s \in flush.left
      /\ UNCHANGED <<alive, outbox, delivered, known, listed, crashes, heard, refused>>
      /\ DeliverWrites(s)
      /\ DeliverSkips(e, s) \/ DeliverRuns(e, s) \/ DeliverFails
  BY DEF Deliver, Event1, bus, Skippable, DeliverWrites, DeliverSkips, DeliverRuns, DeliverFails
<1>2. outbox \in Seq(OutboxRow) /\ FlushOk(outbox, flush, refused, strays) /\ flush \in Flushes
  BY DEF OutboxInv, Types
<1>3. /\ flush.rows # {} /\ outbox[Head1].effect = "dispatch" /\ flush.left \subseteq Hears[e]
      /\ flush.left \in SUBSET Subs
  BY <1>1, <1>2 DEF FlushOk, Head1, Flushes
<1>4. /\ Head1 \in flush.rows /\ Head1 \in DOMAIN outbox /\ e \in Events
      /\ outbox[Head1].status = "pending"
  BY <1>2, <1>3, EventUnderWay DEF Head1
<1>5. /\ subs' \in [Subs -> States] /\ strays \subseteq strays'
      /\ RowsOk(outbox', alive', subs') /\ SyncOk(outbox', subs', known', strays')
  BY <1>1, DeliverTable
<1>6. ran \in [Events \X Subs -> Nat] /\ <<e, s>> \in Events \X Subs
  BY <1>4 DEF OutboxInv, Types
<1>7. \/ /\ DeliverSkips(e, s) /\ flush'.stage = "deliver"
         /\ flush'.left = flush.left \ {s} /\ flush'.ok = flush.ok
      \/ /\ DeliverRuns(e, s) /\ flush'.stage = "mark" /\ flush'.now = {s}
         /\ flush'.left = flush.left \ {s} /\ flush'.ok = flush.ok
      \/ /\ DeliverFails /\ flush'.stage = "deliver" /\ flush'.left = {} /\ flush'.ok = FALSE
  BY <1>1, <1>2 DEF Flushes, DeliverSkips, DeliverRuns, DeliverFails
<1>8. flush' \in Flushes /\ flush'.rows = flush.rows
  <2>1. CASE DeliverSkips(e, s)
    BY <1>2, <2>1 DEF Flushes, DeliverSkips
  <2>2. CASE DeliverRuns(e, s)
    BY <1>2, <2>2 DEF Flushes, DeliverRuns
  <2>3. CASE DeliverFails
    BY <1>2, <2>3 DEF Flushes, DeliverFails
  <2> QED BY <1>1, <2>1, <2>2, <2>3
<1>9. /\ ran' \in [Events \X Subs -> Nat]
      /\ \A m \in Events \X Subs : ran'[m] >= ran[m] /\ (ran'[m] # ran[m] => m = <<e, s>>)
  <2>1. CASE ran' = ran
    BY <1>6, <2>1
  <2>2. CASE DeliverRuns(e, s)
    <3>1. ran' = [ran EXCEPT ![<<e, s>>] = ran[<<e, s>>] + 1]
      BY <2>2 DEF DeliverRuns
    <3>2. ran[<<e, s>>] + 1 \in Nat
      BY <1>6
    <3>3. \A m \in Events \X Subs : ran'[m] = IF m = <<e, s>> THEN ran[m] + 1 ELSE ran[m]
      BY <1>6, <3>1
    <3>4. ran' \in [Events \X Subs -> Nat]
      BY <1>6, <3>1, <3>2
    <3>5. \A m \in Events \X Subs : ran[m] \in Nat
      BY <1>6
    <3> QED BY <3>3, <3>4, <3>5
  <2> QED BY <1>1, <2>1, <2>2 DEF DeliverSkips, DeliverFails
<1>10. DeliverRuns(e, s) => ran'[<<e, s>>] = ran[<<e, s>>] + 1
  BY <1>6 DEF DeliverRuns
<1>11. ~ DeliverRuns(e, s) => ran' = ran
  BY <1>1 DEF DeliverSkips, DeliverFails
<1> HIDE DEF e
<1>12. Types'
  BY <1>1, <1>5, <1>8, <1>9 DEF OutboxInv, Types
<1>13. RanOk(outbox, ran', crashes, flush')
  <2>1. \A ev \in Events, x \in Subs : Tried(outbox, flush, ev, x) => Tried(outbox, flush', ev, x)
    <3>1. flush'.left \subseteq flush.left /\ flush'.stage # "next"
      BY <1>7
    <3> QED BY <1>8, <3>1 DEF Tried, Under
  <2>2. RanOk(outbox, ran, crashes, flush)
    BY DEF OutboxInv
  <2>3. RanOk(outbox, ran, crashes, flush')
    BY <2>1, <2>2, RanStays
  <2>4. CASE DeliverRuns(e, s)
    <3>1. ~ Tried(outbox, flush, e, s)
      <4>1. ASSUME NEW k \in DOMAIN outbox, outbox[k].effect = "dispatch", outbox[k].of = e
            PROVE  k = Head1
        BY <1>3, <1>4, <4>1 DEF OutboxInv, RowsOk, e
      <4> QED BY <1>1, <1>4, <4>1 DEF Tried, Under
    <3>2. Tried(outbox, flush', e, s)
      <4>1. s \notin flush'.left /\ flush'.stage # "next" /\ Head1 = Min(flush'.rows)
        BY <1>7, <1>8 DEF Head1
      <4> QED BY <1>3, <1>4, <4>1 DEF Tried, Under, e
    <3>3. ran[<<e, s>>] <= crashes
      BY <1>4, <2>2, <3>1 DEF RanOk, e
    <3>4. crashes \in Nat /\ ran[<<e, s>>] \in Nat
      BY <1>6 DEF OutboxInv, Types, OutboxAssumption
    <3>5. ran'[<<e, s>>] <= crashes + 1
      BY <1>10, <2>4, <3>3, <3>4
    <3>6. ASSUME NEW ev \in Events, NEW x \in Subs
          PROVE  \/ ran'[<<ev, x>>] <= crashes
                 \/ ran'[<<ev, x>>] <= crashes + 1 /\ Tried(outbox, flush', ev, x)
      <4>1. CASE ev = e /\ x = s
        BY <3>2, <3>5, <4>1
      <4>2. CASE ~ (ev = e /\ x = s)
        <5>1. ran'[<<ev, x>>] = ran[<<ev, x>>]
          BY <1>9, <4>2
        <5> QED BY <2>3, <5>1 DEF RanOk
      <4> QED BY <4>1, <4>2
    <3> QED BY <3>6 DEF RanOk
  <2> QED BY <1>11, <2>3, <2>4
<1>14. FlushOk(outbox, flush', refused, strays')
  <2>1. FlushOk(outbox, flush, refused, strays')
    BY <1>2, <1>5, LessFlush
  <2>2. flush'.left \subseteq flush.left
    BY <1>7
  <2> QED BY <1>1, <1>8, <2>1, <2>2 DEF FlushOk
<1>15. MarksOk(outbox, delivered, ran', flush')
  <2>1. \A m \in delivered : ran[m] > 0 /\ m \in Events \X Subs
    BY DEF OutboxInv, MarksOk, Types
  <2>2. \A m \in Events \X Subs : ran[m] \in Nat /\ ran'[m] \in Nat
    BY <1>6, <1>9
  <2>3. \A m \in delivered : ran'[m] > 0
    BY <1>9, <2>1, <2>2
  <2>4. ASSUME flush'.stage = "mark" PROVE flush'.now = {s} /\ ran'[<<e, s>>] > 0
    <3>1. DeliverRuns(e, s) /\ flush'.now = {s}
      BY <1>7, <2>4
    <3> QED BY <1>6, <1>10, <2>2, <3>1
  <2> QED BY <1>8, <2>3, <2>4 DEF MarksOk, e, Head1
<1>16. ASSUME crashes = 0
       PROVE  /\ OrderOk(outbox, known, heard, refused, strays')
              /\ HeardOk(heard, ran', refused, strays')
              /\ AllOk(outbox, heard, ran', refused, strays')
              /\ UnderWayOk(outbox, heard, ran', flush', refused, strays')
  <2>1. /\ OrderOk(outbox, known, heard, refused, strays)
        /\ HeardOk(heard, ran, refused, strays)
        /\ AllOk(outbox, heard, ran, refused, strays)
        /\ e \notin refused => UnderWay(e, heard, ran, flush, strays)
    BY <1>1, <1>16 DEF OutboxInv, EarlyOk, UnderWayOk, e, Head1
  <2>2. OrderOk(outbox, known, heard, refused, strays')
    BY <1>5, <2>1, LessOrder
  <2>3. \A m \in Events \X Subs : ran[m] \in Nat /\ ran'[m] \in Nat
    BY <1>6, <1>9
  <2>4. HeardOk(heard, ran', refused, strays')
    <3> SUFFICES ASSUME NEW ev \in Events \ refused, NEW x \in Subs \ strays', ran'[<<ev, x>>] > 0
                 PROVE  x \in heard[ev]
      BY DEF HeardOk
    <3>1. CASE ran'[<<ev, x>>] = ran[<<ev, x>>]
      BY <1>5, <2>1, <3>1 DEF HeardOk
    <3>2. CASE ran'[<<ev, x>>] # ran[<<ev, x>>]
      <4>1. ev = e /\ x = s
        BY <1>9, <3>2
      <4> QED BY <1>1, <1>5, <2>1, <4>1 DEF UnderWay
    <3> QED BY <3>1, <3>2
  <2>5. AllOk(outbox, heard, ran', refused, strays')
    <3>1. AllOk(outbox, heard, ran, refused, strays')
      BY <1>5, <2>1, LessAll
    <3>2. ASSUME NEW k \in DOMAIN outbox, outbox[k].effect = "dispatch", NEW x \in heard[outbox[k].of],
                 ran[<<outbox[k].of, x>>] > 0
          PROVE  ran'[<<outbox[k].of, x>>] > 0
      <4>1. outbox[k].of \in Events
        <5>1. outbox[k] \in OutboxRow
          BY <1>2
        <5> QED BY <3>2, <5>1 DEF OutboxRow, Toggles
      <4>2. x \in Subs
        BY <4>1 DEF OutboxInv, Types
      <4>3. <<outbox[k].of, x>> \in Events \X Subs
        BY <4>1, <4>2
      <4> DEFINE m == <<outbox[k].of, x>>
      <4> HIDE DEF m
      <4>4. m \in Events \X Subs /\ ran[m] > 0
        BY <3>2, <4>3 DEF m
      <4>5. ran'[m] > 0
        BY <1>9, <2>3, <4>4
      <4> QED BY <4>5 DEF m
    <3> QED BY <3>1, <3>2 DEF AllOk
  <2>6. UnderWayOk(outbox, heard, ran', flush', refused, strays')
    <3> SUFFICES ASSUME e \notin refused PROVE UnderWay(e, heard, ran', flush', strays')
      BY <1>8 DEF UnderWayOk, e, Head1
    <3>1. UnderWay(e, heard, ran, flush, strays)
      BY <2>1
    <3>2. flush'.left \ strays' \subseteq heard[e]
      BY <1>5, <1>7, <3>1 DEF UnderWay
    <3>3. ASSUME flush'.ok, NEW x \in heard[e] \ strays'
          PROVE  x \in flush'.left \/ ran'[<<e, x>>] > 0
      <4>1. /\ flush.ok /\ flush'.left = flush.left \ {s}
            /\ DeliverSkips(e, s) \/ DeliverRuns(e, s)
        BY <1>7, <3>3
      <4>2. x \in Subs /\ <<e, x>> \in Events \X Subs
        BY <1>4 DEF OutboxInv, Types, e
      <4>3. x \in flush.left \/ ran[<<e, x>>] > 0
        BY <1>5, <3>1, <4>1 DEF UnderWay
      <4>4. ran[<<e, x>>] > 0 => ran'[<<e, x>>] > 0
        BY <1>9, <2>3, <4>2
      <4>5. ran'[<<e, s>>] > 0
        <5>1. CASE DeliverSkips(e, s)
          BY <5>1 DEF DeliverSkips, OutboxInv, MarksOk
        <5>2. CASE DeliverRuns(e, s)
          BY <1>6, <1>10, <2>3, <5>2
        <5> QED BY <4>1, <5>1, <5>2
      <4> QED BY <4>1, <4>3, <4>4, <4>5
    <3> QED BY <3>2, <3>3 DEF UnderWay
  <2> QED BY <2>2, <2>4, <2>5, <2>6
<1>17. EarlyOk'
  BY <1>1, <1>16 DEF EarlyOk
<1> QED BY <1>1, <1>5, <1>12, <1>13, <1>14, <1>15, <1>17 DEF OutboxInv

\* A row is settled and the flush goes on: what does not depend on the bus.
LEMMA RowDone ==
  ASSUME OutboxAssumption, OutboxInv, flush.rows # {}, NEW st \in {"delivered", "failed"},
         RowSettled(st), NextRow,
         UNCHANGED <<alive, subs, delivered, ran, crashes, heard, refused, strays>>
  PROVE  /\ Settles(outbox', outbox, Head1, st) /\ Head1 \in PendingRows(outbox)
         /\ outbox' \in Seq(OutboxRow) /\ flush' \in Flushes /\ flush'.stage = "next"
         /\ RowsOk(outbox', alive', subs') /\ RanOk(outbox', ran', crashes', flush')
         /\ FlushOk(outbox', flush', refused', strays')
         /\ MarksOk(outbox', delivered', ran', flush')
         /\ UnderWayOk(outbox', heard', ran', flush', refused', strays')
<1>1. /\ outbox' = [outbox EXCEPT ![Head1].status = st]
      /\ flush' = NextFlush(flush.rows, Head1)
  BY DEF RowSettled, NextRow, NextFlush
<1>2. outbox \in Seq(OutboxRow) /\ FlushOk(outbox, flush, refused, strays)
  BY DEF OutboxInv, Types
<1>3. Head1 \in PendingRows(outbox) /\ Head1 \in flush.rows
  <2>1. flush.rows \in SUBSET Nat /\ flush.rows \subseteq PendingRows(outbox)
    BY <1>2 DEF FlushOk, PendingRows
  <2> QED BY <2>1, MinOfPlaces DEF Head1
<1>4. Settles(outbox', outbox, Head1, st)
  <2>1. Head1 \in DOMAIN outbox /\ st \in RowStatus
    BY <1>3 DEF PendingRows, RowStatus
  <2> QED BY <1>1, <1>2, <2>1, RowSettles
<1> DEFINE rows2 == outbox'
<1>5. rows2 \in Seq(OutboxRow) /\ DOMAIN rows2 = DOMAIN outbox
  BY <1>2, <1>4 DEF Settles
<1>6. \A k \in DOMAIN outbox :
        /\ rows2[k].effect = outbox[k].effect /\ rows2[k].of = outbox[k].of
        /\ rows2[k].status = IF k = Head1 THEN st ELSE outbox[k].status
  BY <1>4 DEF Settles
<1> HIDE DEF rows2
<1>7. PendingRows(rows2) = PendingRows(outbox) \ {Head1}
  BY <1>5, <1>6 DEF PendingRows
<1>8. Leaves(outbox, rows2, Head1, refused, strays)
  BY <1>6, <1>7 DEF Leaves
<1>9. FlushOk(rows2, flush', refused, strays) /\ flush'.stage = "next" /\ flush' \in Flushes
  BY <1>1, <1>2, <1>5, <1>8, NextRowFlush DEF Head1
<1>10. RowsOk(rows2, alive, subs)
  <2>1. Sent(rows2) = Sent(outbox)
    BY <1>5, <1>6 DEF Sent
  <2> QED BY <1>5, <1>6, <2>1 DEF OutboxInv, RowsOk
<1>11. RanOk(rows2, ran, crashes, flush')
  <2>1. \A e \in Events, s \in Subs : Tried(outbox, flush, e, s) => Tried(rows2, flush', e, s)
    <3> SUFFICES ASSUME NEW e \in Events, NEW s \in Subs, Tried(outbox, flush, e, s)
                 PROVE  Tried(rows2, flush', e, s)
      OBVIOUS
    <3>1. PICK k \in DOMAIN outbox :
            /\ outbox[k].effect = "dispatch" /\ outbox[k].of = e
            /\ outbox[k].status # "pending" \/ (Under(flush, k) /\ s \notin flush.left)
      BY DEF Tried
    <3>2. rows2[k].status # "pending"
      BY <1>6, <3>1 DEF Under, Head1
    <3> QED BY <1>5, <1>6, <3>1, <3>2 DEF Tried
  <2>2. RanOk(outbox, ran, crashes, flush)
    BY DEF OutboxInv
  <2> QED BY <2>1, <2>2, RanStays
<1>12. MarksOk(rows2, delivered, ran, flush')
  BY <1>9 DEF OutboxInv, MarksOk
<1>13. UnderWayOk(rows2, heard, ran, flush', refused, strays)
  BY <1>9 DEF UnderWayOk
<1> QED BY <1>3, <1>4, <1>5, <1>9, <1>10, <1>11, <1>12, <1>13 DEF rows2

LEMMA DoneStep ==
  ASSUME OutboxAssumption, OutboxInv, DispatchDone
  PROVE  OutboxInv'
<1> DEFINE st == Outcome(flush.ok)
           e == outbox[Head1].of
<1>1. /\ flush.stage = "deliver" /\ flush.left = {} /\ RowSettled(st) /\ NextRow
      /\ UNCHANGED <<alive, subs, delivered, ran, known, listed, crashes, heard, refused, strays>>
  BY DEF DispatchDone, bus, history
<1>2. outbox \in Seq(OutboxRow) /\ FlushOk(outbox, flush, refused, strays)
  BY DEF OutboxInv, Types
<1>3. flush.rows # {} /\ outbox[Head1].effect = "dispatch"
  BY <1>1, <1>2 DEF FlushOk, Head1
<1>4. st \in {"delivered", "failed"} /\ (st = "delivered" => flush.ok)
  BY DEF Outcome
<1> HIDE DEF st
<1>5. /\ Settles(outbox', outbox, Head1, st)
      /\ outbox' \in Seq(OutboxRow) /\ flush' \in Flushes /\ flush'.stage = "next"
      /\ RowsOk(outbox', alive', subs') /\ RanOk(outbox', ran', crashes', flush')
      /\ FlushOk(outbox', flush', refused', strays')
      /\ MarksOk(outbox', delivered', ran', flush')
      /\ UnderWayOk(outbox', heard', ran', flush', refused', strays')
  BY <1>1, <1>3, <1>4, RowDone
<1>6. Types'
  BY <1>1, <1>5 DEF OutboxInv, Types
<1> DEFINE rows2 == outbox'
<1>7. /\ Settles(rows2, outbox, Head1, st) /\ st # "pending"
      /\ DOMAIN rows2 = DOMAIN outbox /\ Len(rows2) = Len(outbox)
      /\ rows2 \in Seq(OutboxRow) /\ Head1 \in DOMAIN outbox
      /\ \A k \in DOMAIN outbox :
           /\ rows2[k].effect = outbox[k].effect /\ rows2[k].of = outbox[k].of
           /\ rows2[k].status = IF k = Head1 THEN st ELSE outbox[k].status
  BY <1>2, <1>4, <1>5 DEF Settles
<1> HIDE DEF rows2
<1>8. \A s, k : \A effects \in {AnyEffect, Presence} :
        ValueAt(rows2, known, s, k, effects) = ValueAt(outbox, known, s, k, effects)
  <2> TAKE s, k
  <2> TAKE effects \in {AnyEffect, Presence}
  <2>1. ~ Touches(outbox[Head1], s, effects)
    BY <1>3 DEF Touches, AnyEffect, Presence, Toggles
  <2> QED BY <1>2, <1>7, <2>1, ValueBeside
<1>9. SyncOk(rows2, subs, known, strays)
  BY <1>7, <1>8 DEF OutboxInv, SyncOk, InStep
<1>10. ASSUME crashes = 0
       PROVE  OrderOk(rows2, known, heard, refused, strays) /\ AllOk(rows2, heard, ran, refused, strays)
  <2>1. OrderOk(outbox, known, heard, refused, strays) /\ AllOk(outbox, heard, ran, refused, strays)
    BY <1>10 DEF OutboxInv, EarlyOk
  <2>2. OrderOk(rows2, known, heard, refused, strays)
    <3> SUFFICES ASSUME NEW s \in Subs \ strays, NEW k \in DOMAIN rows2
                 PROVE  Toggled(rows2, known, s, k) /\ HeardThen(rows2, known, heard, refused, s, k)
      BY DEF OrderOk, OrderAt
    <3>1. Toggled(outbox, known, s, k) /\ HeardThen(outbox, known, heard, refused, s, k)
      BY <1>7, <2>1 DEF OrderOk, OrderAt
    <3>2. ValueAt(rows2, known, s, k, AnyEffect) = ValueAt(outbox, known, s, k, AnyEffect)
      BY <1>8
    <3>3. rows2[k].status = "pending" => outbox[k].status = "pending"
      BY <1>7
    <3> QED BY <1>7, <3>1, <3>2, <3>3 DEF Toggled, HeardThen
  <2>3. ASSUME st = "delivered", e \notin refused PROVE \A s \in heard[e] \ strays : ran[<<e, s>>] > 0
    <3>1. UnderWay(e, heard, ran, flush, strays)
      BY <1>1, <1>10, <2>3 DEF OutboxInv, EarlyOk, UnderWayOk, Head1
    <3> QED BY <1>1, <1>4, <2>3, <3>1 DEF UnderWay
  <2>4. AllOk(rows2, heard, ran, refused, strays)
    <3> SUFFICES ASSUME NEW k \in DOMAIN rows2,
                        rows2[k].effect = "dispatch", rows2[k].status = "delivered",
                        rows2[k].of \notin refused
                 PROVE  \A s \in heard[rows2[k].of] \ strays : ran[<<rows2[k].of, s>>] > 0
      BY DEF AllOk
    <3>1. CASE k = Head1
      BY <1>7, <2>3, <3>1
    <3>2. CASE k # Head1
      BY <1>7, <2>1, <3>2 DEF AllOk
    <3> QED BY <3>1, <3>2
  <2> QED BY <2>2, <2>4
<1>11. EarlyOk'
  BY <1>1, <1>5, <1>10 DEF OutboxInv, EarlyOk, rows2
<1>12. SyncOk(outbox', subs', known', strays') /\ BusOk(known', listed')
  BY <1>1, <1>9 DEF rows2, OutboxInv
<1> QED BY <1>5, <1>6, <1>11, <1>12 DEF OutboxInv

\* What an effect makes of the bus.
LEMMA EffectOnBus ==
  ASSUME known \in [Subs -> States], listed \in [Subs -> Nat], BusOk(known, listed),
         NEW row \in OutboxRow, row.status = "pending", ApplyEffect(row)
  PROVE  /\ row.effect \in AnyEffect
         /\ known' \in [Subs -> States] /\ listed' \in [Subs -> Nat] /\ BusOk(known', listed')
         /\ \A s \in Subs : ~ Touches(row, s, AnyEffect) => known'[s] = known[s]
         /\ \A s \in Subs : Touches(row, s, AnyEffect) =>
              \/ known'[s] = Makes(row)
              \/ row.effect \in Toggles /\ known[s] = "none" /\ known'[s] = "none"
         /\ \A s \in Subs : row.effect \in Toggles => (known'[s] = "none" <=> known[s] = "none")
<1>1. row.effect # "remove_surface" /\ row.effect \in AnyEffect => row.of \in Subs
  BY DEF OutboxRow, AnyEffect, Presence, Toggles
<1>2. \A s \in Subs : known[s] = "none" <=> listed[s] = 0
  BY DEF BusOk
<1>3. {"none", "on", "off"} \subseteq States
  BY DEF States
<1>4. CASE row.effect = "add" /\ AddToBus(row.of)
  <2>1. row.of \in Subs /\ row.effect \in AnyEffect /\ row.effect \notin Toggles /\ Makes(row) = "on"
    BY <1>1, <1>4 DEF AnyEffect, Presence, Toggles, Makes
  <2>2. /\ known' = [known EXCEPT ![row.of] = "on"]
        /\ listed' = [listed EXCEPT ![row.of] = listed[row.of] + 1]
    BY <1>4 DEF AddToBus
  <2>3. listed[row.of] \in Nat /\ listed[row.of] + 1 \in Nat /\ listed[row.of] + 1 # 0
    BY <2>1
  <2>4. known' \in [Subs -> States] /\ listed' \in [Subs -> Nat]
    BY <1>3, <2>1, <2>2, <2>3
  <2>5. \A s \in Subs : /\ known'[s] = IF s = row.of THEN "on" ELSE known[s]
                        /\ listed'[s] = IF s = row.of THEN listed[s] + 1 ELSE listed[s]
    BY <2>1, <2>2
  <2>6. \A s \in Subs : Touches(row, s, AnyEffect) <=> s = row.of
    BY <1>4, <2>1 DEF Touches
  <2>7. BusOk(known', listed')
    BY <1>2, <2>3, <2>5 DEF BusOk
  <2> QED BY <2>1, <2>4, <2>5, <2>6, <2>7
<1>5. CASE row.effect = "remove" /\ RemoveFromBus(row.of)
  <2>1. row.of \in Subs /\ row.effect \in AnyEffect /\ row.effect \notin Toggles /\ Makes(row) = "none"
    BY <1>1, <1>5 DEF AnyEffect, Presence, Toggles, Makes
  <2>2. /\ known' = [known EXCEPT ![row.of] = "none"]
        /\ listed' = [listed EXCEPT ![row.of] = IF known[row.of] = "none" THEN listed[row.of] ELSE 0]
    BY <1>5 DEF RemoveFromBus
  <2>3. (IF known[row.of] = "none" THEN listed[row.of] ELSE 0) = 0
    BY <1>2, <2>1
  <2>4. known' \in [Subs -> States] /\ listed' \in [Subs -> Nat]
    BY <1>3, <2>1, <2>2, <2>3
  <2>5. \A s \in Subs : /\ known'[s] = IF s = row.of THEN "none" ELSE known[s]
                        /\ listed'[s] = IF s = row.of THEN 0 ELSE listed[s]
    BY <2>1, <2>2, <2>3
  <2>6. \A s \in Subs : Touches(row, s, AnyEffect) <=> s = row.of
    BY <1>5, <2>1 DEF Touches
  <2>7. BusOk(known', listed')
    BY <1>2, <2>5 DEF BusOk
  <2> QED BY <2>1, <2>4, <2>5, <2>6, <2>7
<1>6. ASSUME NEW state \in {"on", "off"}, row.effect \in Toggles, Makes(row) = state,
             SetEnabled(row.of, state)
      PROVE  /\ row.effect \in AnyEffect
             /\ known' \in [Subs -> States] /\ listed' \in [Subs -> Nat] /\ BusOk(known', listed')
             /\ \A s \in Subs : ~ Touches(row, s, AnyEffect) => known'[s] = known[s]
             /\ \A s \in Subs : Touches(row, s, AnyEffect) =>
                  \/ known'[s] = Makes(row)
                  \/ row.effect \in Toggles /\ known[s] = "none" /\ known'[s] = "none"
             /\ \A s \in Subs : known'[s] = "none" <=> known[s] = "none"
  <2>1. row.of \in Subs /\ row.effect \in AnyEffect /\ row.effect # "remove_surface"
    BY <1>1, <1>6 DEF AnyEffect, Toggles
  <2>2. /\ known' = [known EXCEPT ![row.of] = IF known[row.of] = "none" THEN known[row.of] ELSE state]
        /\ listed' = listed
    BY <1>6 DEF SetEnabled
  <2>3. (IF known[row.of] = "none" THEN known[row.of] ELSE state) \in States
    BY <1>3, <2>1
  <2>4. known' \in [Subs -> States] /\ listed' \in [Subs -> Nat]
    BY <2>2, <2>3
  <2>5. \A s \in Subs : known'[s] = IF s = row.of /\ known[s] # "none" THEN state ELSE known[s]
    BY <2>1, <2>2
  <2>6. \A s \in Subs : Touches(row, s, AnyEffect) <=> s = row.of
    BY <2>1 DEF Touches
  <2>7. \A s \in Subs : known'[s] = "none" <=> known[s] = "none"
    BY <2>5
  <2>8. BusOk(known', listed')
    BY <1>2, <2>2, <2>7 DEF BusOk
  <2> QED BY <1>6, <2>1, <2>4, <2>5, <2>6, <2>7, <2>8
<1>7. CASE row.effect = "enable" /\ SetEnabled(row.of, "on")
  <2>1. row.effect \in Toggles /\ Makes(row) = "on"
    BY <1>7 DEF Toggles, Makes
  <2> QED BY <1>6, <1>7, <2>1
<1>8. CASE row.effect = "disable" /\ SetEnabled(row.of, "off")
  <2>1. row.effect \in Toggles /\ Makes(row) = "off"
    BY <1>8 DEF Toggles, Makes
  <2> QED BY <1>6, <1>8, <2>1
<1>9. CASE row.effect = "remove_surface" /\ ForgetSurface(row.of)
  <2>1. row.effect \in AnyEffect /\ row.effect \notin Toggles /\ Makes(row) = "none"
    BY <1>9 DEF AnyEffect, Presence, Toggles, Makes
  <2>2. /\ known' = [s \in Subs |-> IF Owner[s] = row.of /\ listed[s] > 0 THEN "none" ELSE known[s]]
        /\ listed' = [s \in Subs |-> IF Owner[s] = row.of THEN 0 ELSE listed[s]]
    BY <1>9 DEF ForgetSurface
  <2>3. \A s \in Subs : listed[s] \in Nat /\ (listed[s] > 0 <=> listed[s] # 0)
    OBVIOUS
  <2>4. \A s \in Subs : /\ known'[s] = IF Owner[s] = row.of THEN "none" ELSE known[s]
                        /\ listed'[s] = IF Owner[s] = row.of THEN 0 ELSE listed[s]
    BY <1>2, <2>2, <2>3
  <2>5. known' \in [Subs -> States] /\ listed' \in [Subs -> Nat]
    BY <1>3, <2>2
  <2>6. \A s \in Subs : Touches(row, s, AnyEffect) <=> Owner[s] = row.of
    BY <1>9, <2>1 DEF Touches
  <2>7. BusOk(known', listed')
    BY <1>2, <2>4 DEF BusOk
  <2> QED BY <2>1, <2>4, <2>5, <2>6, <2>7
<1> QED BY <1>4, <1>5, <1>7, <1>8, <1>9 DEF ApplyEffect

LEMMA EffectStep ==
  ASSUME OutboxAssumption, OutboxInv, FlushEffect
  PROVE  OutboxInv'
<1> DEFINE h == Head1
           n == Len(outbox) + 1
<1>1. /\ flush.rows # {} /\ flush.stage = "next" /\ ApplyEffect(outbox[h])
      /\ RowSettled("delivered") /\ NextRow
      /\ UNCHANGED <<alive, subs, delivered, ran, crashes, heard, refused, strays>>
  BY DEF FlushEffect, FlushRow, history
<1>2. /\ outbox \in Seq(OutboxRow) /\ FlushOk(outbox, flush, refused, strays)
      /\ known \in [Subs -> States] /\ listed \in [Subs -> Nat] /\ BusOk(known, listed)
  BY DEF OutboxInv, Types
<1>3. /\ Settles(outbox', outbox, h, "delivered") /\ h \in PendingRows(outbox)
      /\ outbox' \in Seq(OutboxRow) /\ flush' \in Flushes /\ flush'.stage = "next"
      /\ RowsOk(outbox', alive', subs') /\ RanOk(outbox', ran', crashes', flush')
      /\ FlushOk(outbox', flush', refused', strays')
      /\ MarksOk(outbox', delivered', ran', flush')
      /\ UnderWayOk(outbox', heard', ran', flush', refused', strays')
  BY <1>1, RowDone
<1>4. h \in DOMAIN outbox /\ outbox[h] \in OutboxRow /\ outbox[h].status = "pending"
  BY <1>2, <1>3 DEF PendingRows
<1>5. /\ outbox[h].effect \in AnyEffect
      /\ known' \in [Subs -> States] /\ listed' \in [Subs -> Nat] /\ BusOk(known', listed')
      /\ \A s \in Subs : ~ Touches(outbox[h], s, AnyEffect) => known'[s] = known[s]
      /\ \A s \in Subs : Touches(outbox[h], s, AnyEffect) =>
           \/ known'[s] = Makes(outbox[h])
           \/ outbox[h].effect \in Toggles /\ known[s] = "none" /\ known'[s] = "none"
      /\ \A s \in Subs : outbox[h].effect \in Toggles => (known'[s] = "none" <=> known[s] = "none")
  BY <1>1, <1>2, <1>4, EffectOnBus
<1>6. Types'
  BY <1>1, <1>3, <1>5 DEF OutboxInv, Types
<1> DEFINE rows2 == outbox'
           b2 == known'
<1>15. Settles(rows2, outbox, h, "delivered") /\ "delivered" # "pending" /\ outbox \in Seq(OutboxRow)
  BY <1>2, <1>3
<1>7. /\ DOMAIN rows2 = DOMAIN outbox
      /\ Len(rows2) = Len(outbox) /\ rows2 \in Seq(OutboxRow)
      /\ \A k \in DOMAIN outbox :
           /\ rows2[k].effect = outbox[k].effect /\ rows2[k].of = outbox[k].of
           /\ rows2[k].status = IF k = h THEN "delivered" ELSE outbox[k].status
  BY <1>2, <1>3 DEF Settles
<1>8. DOMAIN outbox = 1..Len(outbox) /\ Len(outbox) \in Nat /\ h < n /\ n \in Nat
  BY <1>2, <1>4
<1> HIDE DEF rows2, b2, h, n
<1>9. ASSUME NEW s \in Subs \ strays, NEW effects \in SUBSET AnyEffect
      PROVE  Coming(outbox, s, h, effects) = {}
  BY <1>1, <1>2, NoneComing DEF h, Head1
<1>10. ASSUME NEW s \in Subs \ strays PROVE InStep(rows2, subs, b2, s)
  <2>1. /\ ValueAt(outbox, known, s, n, AnyEffect) = subs[s]
        /\ ValueAt(outbox, known, s, n, Presence) = "none" <=> subs[s] = "none"
    BY DEF OutboxInv, SyncOk, InStep, n
  <2>2. Len(rows2) + 1 = n
    BY <1>7 DEF n
  <2>3. CASE ~ Touches(outbox[h], s, AnyEffect)
    <3>1. b2[s] = known[s] /\ ~ Touches(outbox[h], s, Presence)
      BY <1>5, <2>3 DEF b2, Touches, AnyEffect
    <3>2. ValueAt(rows2, b2, s, n, AnyEffect) = ValueAt(outbox, known, s, n, AnyEffect)
      BY <1>15, <2>3, <3>1, ValueBeside
    <3>3. ValueAt(rows2, b2, s, n, Presence) = ValueAt(outbox, known, s, n, Presence)
      BY <1>15, <3>1, ValueBeside
    <3> QED BY <2>1, <2>2, <3>2, <3>3 DEF InStep
  <2>4. CASE Touches(outbox[h], s, AnyEffect)
    <3>1. h \in Coming(outbox, s, n, AnyEffect)
      BY <1>4, <1>8, <2>4 DEF Coming
    <3>2. Coming(outbox, s, n, Presence) \subseteq Coming(outbox, s, n, AnyEffect)
      BY DEF Coming, Touches, AnyEffect
    <3>3. Coming(outbox, s, h, AnyEffect) = {} /\ Coming(outbox, s, h, Presence) = {}
      BY <1>9 DEF AnyEffect
    <3>4. ValueAt(rows2, b2, s, n, Presence) = "none" <=> ValueAt(outbox, known, s, n, Presence) = "none"
      <4>1. CASE outbox[h].effect \in Toggles
        <5>1. ~ Touches(outbox[h], s, Presence)
          BY <4>1 DEF Touches, Presence, Toggles
        <5>2. CASE Coming(outbox, s, n, Presence) = {}
          <6>1. Coming(rows2, s, n, Presence) = {}
            BY <1>15, <5>2, SettledComing
          <6>2. b2[s] = "none" <=> known[s] = "none"
            BY <1>5, <4>1 DEF b2
          <6> QED BY <5>2, <6>1, <6>2 DEF ValueAt
        <5>3. CASE Coming(outbox, s, n, Presence) # {}
          BY <1>15, <5>1, <5>3, ValueBeside
        <5> QED BY <5>2, <5>3
      <4>2. CASE outbox[h].effect \notin Toggles
        <5>1. b2[s] = Makes(outbox[h])
          BY <1>5, <2>4, <4>2 DEF b2
        <5>2. Touches(outbox[h], s, Presence)
          BY <2>4, <4>2 DEF Touches, AnyEffect
        <5>3. Coming(outbox, s, n, Presence) = {h} => b2[s] = Makes(outbox[h])
          BY <5>1
        <5>4. n \in Nat /\ h < n
          BY <1>8
        <5>5. ValueAt(rows2, b2, s, n, Presence) = ValueAt(outbox, known, s, n, Presence)
          BY <1>15, <3>3, <5>2, <5>3, <5>4, ValueApplied
        <5> QED BY <5>5
      <4> QED BY <4>1, <4>2
    <3>5. ASSUME Coming(outbox, s, n, AnyEffect) = {h} PROVE b2[s] = Makes(outbox[h])
      <4> SUFFICES ASSUME outbox[h].effect \in Toggles, known[s] = "none" PROVE FALSE
        BY <1>5, <2>4 DEF b2
      <4>1. ValueAt(outbox, known, s, n, AnyEffect) = Makes(outbox[h])
        <5>1. Max({h}) = h
          <6>1. {h} \in SUBSET (1..Len(outbox)) /\ {h} # {}
            BY <1>4, <1>8
          <6>2. Max({h}) \in {h}
            BY <1>8, <6>1, MaxOfPlaces
          <6> QED BY <6>2
        <5> QED BY <3>5, <5>1 DEF ValueAt
      <4>2. Coming(outbox, s, n, Presence) = {}
        <5>1. h \notin Coming(outbox, s, n, Presence)
          BY DEF Coming, Touches, Presence, Toggles
        <5> QED BY <3>2, <3>5, <5>1
      <4>3. ValueAt(outbox, known, s, n, Presence) = "none"
        BY <4>2 DEF ValueAt
      <4>4. Makes(outbox[h]) # "none"
        BY DEF Makes, Toggles
      <4> QED BY <2>1, <4>1, <4>3, <4>4
    <3>6. ValueAt(rows2, b2, s, n, AnyEffect) = ValueAt(outbox, known, s, n, AnyEffect)
      <4>1. n \in Nat /\ h < n
        BY <1>8
      <4> QED BY <1>15, <2>4, <3>3, <3>5, <4>1, ValueApplied
    <3> QED BY <2>1, <2>2, <3>4, <3>6 DEF InStep
  <2> QED BY <2>3, <2>4
<1>11. SyncOk(rows2, subs, b2, strays)
  BY <1>10 DEF SyncOk
<1>12. ASSUME crashes = 0
       PROVE  OrderOk(rows2, b2, heard, refused, strays) /\ AllOk(rows2, heard, ran, refused, strays)
  <2>1. OrderOk(outbox, known, heard, refused, strays) /\ AllOk(outbox, heard, ran, refused, strays)
    BY <1>12 DEF OutboxInv, EarlyOk
  <2>2. ASSUME NEW s \in Subs \ strays, NEW k \in DOMAIN rows2
        PROVE  Toggled(rows2, b2, s, k) /\ HeardThen(rows2, b2, heard, refused, s, k)
    <3>1. Toggled(outbox, known, s, k) /\ HeardThen(outbox, known, heard, refused, s, k)
      BY <1>7, <2>1 DEF OrderOk, OrderAt
    <3>2. CASE rows2[k].status # "pending"
      BY <3>2 DEF Toggled, HeardThen
    <3>3. CASE rows2[k].status = "pending" /\ k < h
      <4>1. k \in PendingRows(outbox) \ flush.rows /\ h \in flush.rows
        <5>1. k \in PendingRows(outbox)
          BY <1>7, <3>3 DEF PendingRows
        <5>2. h \in flush.rows /\ \A j \in flush.rows : h <= j
          BY <1>1, <1>2, NoneComing DEF h, Head1, AnyEffect
        <5>3. k \in Nat /\ h \in Nat
          BY <1>4, <1>7, <1>8
        <5>4. k \notin flush.rows
          BY <3>3, <5>2, <5>3
        <5> QED BY <5>1, <5>2, <5>4
      <4>2. Passed(outbox[k], refused, strays)
        BY <1>2, <3>3, <4>1 DEF FlushOk
      <4> QED BY <1>7, <4>2 DEF Passed, Toggled, HeardThen, Toggles
    <3>4. CASE rows2[k].status = "pending" /\ ~ (k < h)
      <4>1. k \in Nat /\ h < k /\ outbox[k].status = "pending"
        <5>1. k \in 1..Len(outbox) /\ h \in 1..Len(outbox) /\ k # h
          BY <1>4, <1>7, <1>8, <3>4
        <5> QED BY <1>7, <1>8, <3>4, <5>1
      <4>2. ValueAt(rows2, b2, s, k, AnyEffect) = ValueAt(outbox, known, s, k, AnyEffect)
        <5>1. CASE ~ Touches(outbox[h], s, AnyEffect)
          <6>1. b2[s] = known[s]
            BY <1>5, <5>1 DEF b2
          <6> QED BY <1>15, <5>1, <6>1, ValueBeside
        <5>2. CASE Touches(outbox[h], s, AnyEffect)
          <6>1. Coming(outbox, s, h, AnyEffect) = {}
            BY <1>9
          <6>2. outbox[h].effect \in Toggles => known[s] # "none"
            <7>1. Toggled(outbox, known, s, h)
              BY <1>4, <2>1 DEF OrderOk, OrderAt
            <7>2. outbox[h].effect \in Toggles => outbox[h].of = s
              BY <5>2 DEF Touches, Toggles
            <7> QED BY <1>4, <6>1, <7>1, <7>2 DEF Toggled, ValueAt
          <6>3. b2[s] = Makes(outbox[h])
            BY <1>5, <5>2, <6>2 DEF b2
          <6>4. Coming(outbox, s, k, AnyEffect) = {h} => b2[s] = Makes(outbox[h])
            BY <6>3
          <6> QED BY <1>15, <4>1, <5>2, <6>1, <6>4, ValueApplied
        <5> QED BY <5>1, <5>2
      <4> QED BY <1>7, <3>1, <4>1, <4>2 DEF Toggled, HeardThen
    <3> QED BY <3>2, <3>3, <3>4
  <2>3. OrderOk(rows2, b2, heard, refused, strays)
    BY <2>2 DEF OrderOk, OrderAt
  <2>4. AllOk(rows2, heard, ran, refused, strays)
    <3>1. outbox[h].effect # "dispatch"
      BY <1>5 DEF AnyEffect, Presence, Toggles
    <3> SUFFICES ASSUME NEW k \in DOMAIN rows2,
                        rows2[k].effect = "dispatch", rows2[k].status = "delivered",
                        rows2[k].of \notin refused
                 PROVE  \A s \in heard[rows2[k].of] \ strays : ran[<<rows2[k].of, s>>] > 0
      BY DEF AllOk
    <3>2. k # h
      BY <1>7, <3>1
    <3> QED BY <1>7, <2>1, <3>2 DEF AllOk
  <2> QED BY <2>3, <2>4
<1>13. EarlyOk'
  BY <1>1, <1>3, <1>12 DEF OutboxInv, EarlyOk, rows2, b2
<1>14. SyncOk(outbox', subs', known', strays')
  BY <1>1, <1>11 DEF rows2, b2
<1> QED BY <1>3, <1>5, <1>6, <1>13, <1>14 DEF OutboxInv

LEMMA RestartStep ==
  ASSUME OutboxAssumption, OutboxInv, Restart
  PROVE  OutboxInv'
<1>1. /\ crashes < MaxCrashes /\ crashes' = crashes + 1
      /\ flush' = [NoFlush EXCEPT !.rows = Taken(outbox)]
      /\ UNCHANGED <<alive, subs, outbox, delivered, ran, heard, refused>>
  BY DEF Restart, db
<1>2. PICK kept \in SUBSET Subs :
        /\ WithinLimit(kept)
        /\ known' = Loaded(kept)
        /\ listed' = [s \in Subs |-> IF s \in kept THEN 1 ELSE 0]
        /\ strays' = {s \in Subs : subs[s] # "none" /\ s \notin kept}
                       \cup {s \in strays : \E k \in DOMAIN outbox :
                                outbox[k].of = s /\ outbox[k].status = "pending"}
  BY DEF Restart
<1>3. outbox \in Seq(OutboxRow) /\ subs \in [Subs -> States] /\ Owner \in [Subs -> Surfaces]
      /\ FlushLimit \in Nat /\ MaxCrashes \in Nat
  BY DEF OutboxInv, Types, OutboxAssumption
<1>4. crashes \in Nat /\ crashes' \in 0..MaxCrashes /\ crashes' # 0
  <2>1. crashes \in Nat
    BY <1>3 DEF OutboxInv, Types
  <2> QED BY <1>1, <1>3, <2>1
<1>5. \A s \in kept : subs[s] # "none"
  <2> TAKE s \in kept
  <2>1. Owner[s] \in Surfaces /\ s \in OwnedBy(Owner[s])
    BY <1>3 DEF OwnedBy
  <2> QED BY <1>2, <2>1 DEF WithinLimit
<1>6. /\ \A s \in Subs : known'[s] = IF s \in kept THEN subs[s] ELSE "none"
      /\ known' \in [Subs -> States] /\ listed' \in [Subs -> Nat]
  <2>1. known' = [s \in Subs |-> IF s \in kept THEN subs[s] ELSE "none"]
    BY <1>2 DEF Loaded
  <2>2. "none" \in States
    BY DEF States
  <2> QED BY <1>2, <1>3, <2>1, <2>2
<1>7. BusOk(known', listed')
  <2>1. \A s \in Subs : listed'[s] = IF s \in kept THEN 1 ELSE 0
    BY <1>2
  <2> QED BY <1>5, <1>6, <2>1 DEF BusOk
<1>8. /\ FlushOk(outbox, flush', refused, strays') /\ flush'.stage = "next" /\ flush' \in Flushes
  <2>1. Taken(outbox) \in SUBSET Nat
    BY <1>3, TakenFirst DEF PendingRows
  <2> QED BY <1>1, <1>3, <2>1, FlushStarts, FlushIdle
<1>9. Types'
  BY <1>1, <1>4, <1>6, <1>8 DEF OutboxInv, Types
<1>10. RanOk(outbox, ran, crashes', flush')
  <2>1. \A e \in Events, s \in Subs : ran[<<e, s>>] <= crashes'
    <3> TAKE e \in Events, s \in Subs
    <3>1. <<e, s>> \in Events \X Subs
      OBVIOUS
    <3>2. ran[<<e, s>>] \in Nat
      BY <3>1 DEF OutboxInv, Types
    <3>3. ran[<<e, s>>] <= crashes \/ ran[<<e, s>>] <= crashes + 1
      BY DEF OutboxInv, RanOk
    <3> QED BY <1>1, <1>4, <3>2, <3>3
  <2> QED BY <2>1 DEF RanOk
<1>11. MarksOk(outbox, delivered, ran, flush')
  BY <1>8 DEF OutboxInv, MarksOk
<1> DEFINE b2 == known'
           n == Len(outbox) + 1
<1>12. ASSUME NEW s \in Subs \ strays' PROVE InStep(outbox, subs, b2, s)
  <2>1. b2[s] = subs[s]
    BY <1>2, <1>6
  <2>2. s \in strays => \A k \in DOMAIN outbox : ~ (outbox[k].of = s /\ outbox[k].status = "pending")
    BY <1>2
  <2> HIDE DEF b2, n
  <2>3. ASSUME NEW effects \in {AnyEffect, Presence}, Coming(outbox, s, n, effects) # {}, s \in strays
        PROVE  ValueAt(outbox, b2, s, n, effects) = "none" /\ subs[s] = "none"
    <3>1. Max(Coming(outbox, s, n, effects)) \in Coming(outbox, s, n, effects)
      <4>1. Coming(outbox, s, n, effects) \in SUBSET (1..Len(outbox)) /\ Len(outbox) \in Nat
        BY <1>3, ComingPlaces
      <4> QED BY <2>3, <4>1, MaxOfPlaces
    <3>2. PICK k \in DOMAIN outbox : /\ k = Max(Coming(outbox, s, n, effects))
                                     /\ Touches(outbox[k], s, effects)
      BY <3>1 DEF Coming
    <3>3. outbox[k].effect = "remove_surface" /\ outbox[k].of = Owner[s]
      BY <2>2, <2>3, <3>2 DEF Touches
    <3>4. Owner[s] \notin alive
      BY <3>3 DEF OutboxInv, RowsOk
    <3>5. subs[s] = "none"
      BY <3>4 DEF OutboxInv, RowsOk
    <3>6. Makes(outbox[k]) = "none"
      BY <3>3 DEF Makes
    <3> QED BY <2>3, <3>2, <3>5, <3>6 DEF ValueAt
  <2>4. ASSUME NEW effects \in {AnyEffect, Presence}, Coming(outbox, s, n, effects) = {}
        PROVE  ValueAt(outbox, b2, s, n, effects) = subs[s]
    BY <2>1, <2>4 DEF ValueAt
  <2>5. ASSUME NEW effects \in {AnyEffect, Presence}, Coming(outbox, s, n, effects) # {}
        PROVE  ValueAt(outbox, b2, s, n, effects) = ValueAt(outbox, known, s, n, effects)
    BY <2>5 DEF ValueAt
  <2>6. s \notin strays =>
          /\ ValueAt(outbox, known, s, n, AnyEffect) = subs[s]
          /\ ValueAt(outbox, known, s, n, Presence) = "none" <=> subs[s] = "none"
    BY DEF OutboxInv, SyncOk, InStep, n
  <2>7. ValueAt(outbox, b2, s, n, AnyEffect) = subs[s]
    BY <2>3, <2>4, <2>5, <2>6
  <2>8. ValueAt(outbox, b2, s, n, Presence) = "none" <=> subs[s] = "none"
    BY <2>3, <2>4, <2>5, <2>6
  <2> QED BY <2>7, <2>8 DEF InStep, n
<1>13. SyncOk(outbox', subs', known', strays')
  BY <1>1, <1>12 DEF SyncOk
<1>14. RowsOk(outbox', alive', subs')
  BY <1>1 DEF OutboxInv
<1>15. EarlyOk'
  BY <1>4 DEF EarlyOk
<1> QED BY <1>1, <1>7, <1>8, <1>9, <1>10, <1>11, <1>13, <1>14, <1>15 DEF OutboxInv

LEMMA NothingElse ==
  ASSUME OutboxInv, UNCHANGED vars
  PROVE  OutboxInv'
<1>1. UNCHANGED <<alive, subs, outbox, delivered, ran, known, listed, flush, crashes, heard,
                  refused, strays>>
  BY DEF vars, db, bus, history
<1>2. Types' /\ EarlyOk'
  BY <1>1 DEF OutboxInv, Types, EarlyOk
<1> QED BY <1>1, <1>2 DEF OutboxInv

LEMMA OutboxInvariant ==
  Spec => []OutboxInv
<1>1. Init => OutboxInv
  BY OutboxAssumption, InitOutbox
<1>2. OutboxInv /\ [Next]_vars => OutboxInv'
  <2> SUFFICES ASSUME OutboxInv, [Next]_vars PROVE OutboxInv'
    OBVIOUS
  <2>1. ASSUME NEW t \in Transactions, CommitTransaction(t) PROVE OutboxInv'
    BY <2>1, OutboxAssumption, CommitStep
  <2>2. ASSUME NEW w \in Surfaces, UndoCreation(w) PROVE OutboxInv'
    BY <2>2, OutboxAssumption, UndoStep
  <2>3. ASSUME NEW s \in Subs, Deliver(s) PROVE OutboxInv'
    BY <2>3, OutboxAssumption, DeliverStep
  <2>4. CASE FlushEffect
    BY <2>4, OutboxAssumption, EffectStep
  <2>5. CASE FlushOverLimit
    BY <2>5, OutboxAssumption, OverLimitStep
  <2>6. CASE DispatchRefused
    BY <2>6, OutboxAssumption, RefusedStep
  <2>7. CASE Dispatch
    BY <2>7, OutboxAssumption, DispatchStep
  <2>8. CASE MarkDelivered
    BY <2>8, OutboxAssumption, MarkStep
  <2>9. CASE DispatchDone
    BY <2>9, OutboxAssumption, DoneStep
  <2>10. CASE Restart
    BY <2>10, OutboxAssumption, RestartStep
  <2>11. CASE UNCHANGED vars
    BY <2>11, NothingElse
  <2> QED BY <2>1, <2>2, <2>3, <2>4, <2>5, <2>6, <2>7, <2>8, <2>9, <2>10, <2>11 DEF Next
<1> QED BY <1>1, <1>2, PTL DEF Spec

-----------------------------------------------------------------------------
(* How many entries the list of a surface has *)

OneOf(t) == CHOOSE x \in t : TRUE
\* What h must be to be the sums of f over the parts of S, and the one chosen.
SumsBy(h, S, f) ==
  h = [t \in SUBSET S |-> IF t = {} THEN 0 ELSE f[OneOf(t)] + h[t \ {OneOf(t)}]]
Sums(S, f) == CHOOSE h : SumsBy(h, S, f)

LEMMA SubsetInduction ==
  ASSUME NEW S, IsFiniteSet(S), NEW T, {} \in T,
         \A t \in SUBSET S : t # {} /\ t \ {OneOf(t)} \in T => t \in T
  PROVE  SUBSET S \subseteq T
<1> DEFINE U == {m \in Nat : \A t \in SUBSET S : Cardinality(t) = m => t \in T}
<1>1. \A t \in SUBSET S : IsFiniteSet(t) /\ Cardinality(t) \in Nat
  BY FS_Subset, FS_CardinalityType
<1>2. 0 \in U
  BY <1>1, FS_EmptySet
<1>3. ASSUME NEW m \in Nat, m \in U PROVE m + 1 \in U
  <2>1. ASSUME NEW t \in SUBSET S, Cardinality(t) = m + 1 PROVE t \in T
    <3>1. t # {}
      BY <2>1, FS_EmptySet
    <3>2. OneOf(t) \in t
      BY <3>1 DEF OneOf
    <3>3. Cardinality(t \ {OneOf(t)}) = m
      BY <1>1, <2>1, <3>2, FS_RemoveElement
    <3>4. t \ {OneOf(t)} \in T
      BY <1>3, <3>3
    <3> QED BY <3>1, <3>4
  <2> QED BY <2>1
<1>4. Nat \subseteq U
  <2> HIDE DEF U
  <2> QED BY <1>2, <1>3, SetInduction
<1> QED BY <1>1, <1>4

LEMMA SumsExist ==
  ASSUME NEW S, IsFiniteSet(S), NEW f, \A x \in S : f[x] \in Nat
  PROVE  /\ Sums(S, f)[{}] = 0
         /\ \A t \in SUBSET S : t # {} =>
              Sums(S, f)[t] = f[OneOf(t)] + Sums(S, f)[t \ {OneOf(t)}]
<1> DEFINE Small(m) == {t \in SUBSET S : Cardinality(t) <= m}
           Next1(h, t) == IF t = {} THEN 0 ELSE f[OneOf(t)] + h[t \ {OneOf(t)}]
           Good(h, m) == h = [t \in Small(m) |-> Next1(h, t)]
           T == {m \in Nat : \E h : Good(h, m)}
<1>1. \A t \in SUBSET S : IsFiniteSet(t) /\ Cardinality(t) \in Nat
  BY FS_Subset, FS_CardinalityType
<1>2. \A t \in SUBSET S : t # {} =>
        OneOf(t) \in t /\ t \ {OneOf(t)} \in SUBSET S /\ Cardinality(t \ {OneOf(t)}) = Cardinality(t) - 1
  <2> SUFFICES ASSUME NEW t \in SUBSET S, t # {}
               PROVE  /\ OneOf(t) \in t /\ t \ {OneOf(t)} \in SUBSET S
                      /\ Cardinality(t \ {OneOf(t)}) = Cardinality(t) - 1
    OBVIOUS
  <2>1. OneOf(t) \in t
    BY DEF OneOf
  <2> QED BY <1>1, <2>1, FS_RemoveElement
<1>3. 0 \in T
  <2> DEFINE h0 == [t \in Small(0) |-> 0]
  <2>1. \A t \in Small(0) : t = {}
    BY <1>1, FS_EmptySet
  <2>2. h0 = [t \in Small(0) |-> Next1(h0, t)]
    BY <2>1
  <2> QED BY <2>2
<1>4. ASSUME NEW m \in Nat, m \in T PROVE m + 1 \in T
  <2>1. PICK h : Good(h, m)
    BY <1>4
  <2> DEFINE k == [t \in Small(m + 1) |-> Next1(h, t)]
  <2>2. \A t \in Small(m + 1) : t # {} => t \ {OneOf(t)} \in Small(m) /\ t \ {OneOf(t)} \in Small(m + 1)
    BY <1>1, <1>2
  <2>3. \A t \in Small(m) : t \in Small(m + 1) /\ h[t] = Next1(h, t)
    <3>1. \A t \in Small(m) : t \in Small(m + 1)
      BY <1>1
    <3> HIDE DEF Small, Next1
    <3> QED BY <2>1, <3>1
  <2> HIDE DEF Small
  <2>4. \A t \in Small(m) : k[t] = h[t]
    BY <2>3
  <2>5. \A t \in Small(m + 1) : Next1(h, t) = Next1(k, t)
    BY <2>2, <2>4
  <2>6. k = [t \in Small(m + 1) |-> Next1(k, t)]
    <3> HIDE DEF Next1
    <3> QED BY <2>5
  <2> HIDE DEF k
  <2>7. Good(k, m + 1)
    BY <2>6
  <2> HIDE DEF Good
  <2>8. \E e : Good(e, m + 1)
    BY <2>7
  <2> QED BY <2>8
<1>5. Nat \subseteq T
  <2> HIDE DEF T
  <2> QED BY <1>3, <1>4, SetInduction
<1>6. PICK h : Good(h, Cardinality(S))
  BY <1>1, <1>5
<1>7. Small(Cardinality(S)) = SUBSET S
  BY FS_Subset
<1>8. SumsBy(h, S, f)
  <2> HIDE DEF Small
  <2> QED BY <1>6, <1>7 DEF SumsBy
<1>9. SumsBy(Sums(S, f), S, f)
  BY <1>8, Zenon DEF Sums
<1> DEFINE g == Sums(S, f)
<1> HIDE DEF g
<1>10. g = [t \in SUBSET S |-> Next1(g, t)]
  BY <1>9 DEF SumsBy, g
<1>11. g[{}] = 0 /\ \A t \in SUBSET S : t # {} => g[t] = f[OneOf(t)] + g[t \ {OneOf(t)}]
  BY <1>10
<1> QED BY <1>11 DEF g

LEMMA SumsAreNat ==
  ASSUME NEW S, IsFiniteSet(S), NEW f, \A x \in S : f[x] \in Nat
  PROVE  \A t \in SUBSET S : Sums(S, f)[t] \in Nat
<1> DEFINE T == {t \in SUBSET S : Sums(S, f)[t] \in Nat}
<1>0. \A t \in SUBSET S : t # {} => Sums(S, f)[t] = f[OneOf(t)] + Sums(S, f)[t \ {OneOf(t)}]
  BY SumsExist
<1>1. {} \in T
  BY SumsExist
<1>2. ASSUME NEW t \in SUBSET S, t # {}, t \ {OneOf(t)} \in T PROVE t \in T
  <2>1. f[OneOf(t)] \in Nat
    BY <1>2 DEF OneOf
  <2>2. Sums(S, f)[t] = f[OneOf(t)] + Sums(S, f)[t \ {OneOf(t)}]
    BY <1>0, <1>2
  <2>3. Sums(S, f)[t \ {OneOf(t)}] \in Nat
    BY <1>2
  <2>4. Sums(S, f)[t] \in Nat
    BY <2>1, <2>2, <2>3
  <2> QED BY <2>4
<1> HIDE DEF T
<1>3. SUBSET S \subseteq T
  BY <1>1, <1>2, SubsetInduction
<1> QED BY <1>3 DEF T

\* No entry more anywhere: no larger sum.
LEMMA SumsLess ==
  ASSUME NEW S, IsFiniteSet(S), NEW f, NEW f2,
         \A x \in S : f[x] \in Nat /\ f2[x] \in Nat /\ f2[x] <= f[x]
  PROVE  Sums(S, f2)[S] <= Sums(S, f)[S]
<1> DEFINE T == {t \in SUBSET S : Sums(S, f2)[t] <= Sums(S, f)[t]}
<1>1. {} \in T
  BY SumsExist
<1>2. ASSUME NEW t \in SUBSET S, t # {}, t \ {OneOf(t)} \in T PROVE t \in T
  <2> DEFINE u == t \ {OneOf(t)}
  <2>1. f[OneOf(t)] \in Nat /\ f2[OneOf(t)] \in Nat /\ f2[OneOf(t)] <= f[OneOf(t)]
    BY <1>2 DEF OneOf
  <2>2. Sums(S, f)[t] = f[OneOf(t)] + Sums(S, f)[u] /\ Sums(S, f2)[t] = f2[OneOf(t)] + Sums(S, f2)[u]
    BY <1>2, SumsExist
  <2>3. Sums(S, f)[u] \in Nat /\ Sums(S, f2)[u] \in Nat
    BY <1>2, SumsAreNat
  <2>4. Sums(S, f2)[u] <= Sums(S, f)[u]
    BY <1>2
  <2> HIDE DEF u
  <2>5. Sums(S, f2)[t] <= Sums(S, f)[t]
    BY <2>1, <2>2, <2>3, <2>4
  <2> QED BY <2>5
<1> HIDE DEF T
<1>3. SUBSET S \subseteq T
  BY <1>1, <1>2, SubsetInduction
<1>4. S \in T
  BY <1>3
<1> QED BY <1>4 DEF T

\* One entry more for one subscription: the sum is one more.
LEMMA SumsMore ==
  ASSUME NEW S, IsFiniteSet(S), NEW f, NEW f2, NEW a \in S,
         \A x \in S : f[x] \in Nat /\ f2[x] = IF x = a THEN f[x] + 1 ELSE f[x]
  PROVE  Sums(S, f2)[S] = Sums(S, f)[S] + 1
<1> DEFINE T == {t \in SUBSET S : Sums(S, f2)[t] = IF a \in t THEN Sums(S, f)[t] + 1
                                                     ELSE Sums(S, f)[t]}
<1>0. \A x \in S : f2[x] \in Nat
  OBVIOUS
<1>1. {} \in T
  BY <1>0, SumsExist
<1>2. ASSUME NEW t \in SUBSET S, t # {}, t \ {OneOf(t)} \in T PROVE t \in T
  <2> DEFINE u == t \ {OneOf(t)}
  <2>1. OneOf(t) \in t
    BY <1>2 DEF OneOf
  <2>2. Sums(S, f)[t] = f[OneOf(t)] + Sums(S, f)[u] /\ Sums(S, f2)[t] = f2[OneOf(t)] + Sums(S, f2)[u]
    BY <1>0, <1>2, SumsExist
  <2>3. Sums(S, f)[u] \in Nat
    BY <1>2, SumsAreNat
  <2>4. Sums(S, f2)[u] = IF a \in u THEN Sums(S, f)[u] + 1 ELSE Sums(S, f)[u]
    BY <1>2
  <2>5. a \in u <=> a \in t /\ a # OneOf(t)
    OBVIOUS
  <2>6. f[OneOf(t)] \in Nat /\ f2[OneOf(t)] = IF OneOf(t) = a THEN f[OneOf(t)] + 1 ELSE f[OneOf(t)]
    BY <2>1
  <2> HIDE DEF u
  <2>7. Sums(S, f2)[t] = IF a \in t THEN Sums(S, f)[t] + 1 ELSE Sums(S, f)[t]
    BY <2>1, <2>2, <2>3, <2>4, <2>5, <2>6
  <2> QED BY <2>7
<1> HIDE DEF T
<1>3. SUBSET S \subseteq T
  BY <1>1, <1>2, SubsetInduction
<1>4. S \in T
  BY <1>3
<1> QED BY <1>4 DEF T

\* One entry for each that is kept: the sum counts them.
LEMMA SumsCount ==
  ASSUME NEW S, IsFiniteSet(S), NEW f, NEW kept,
         \A x \in S : f[x] = IF x \in kept THEN 1 ELSE 0
  PROVE  Sums(S, f)[S] = Cardinality(kept \cap S)
<1> DEFINE T == {t \in SUBSET S : Sums(S, f)[t] = Cardinality(kept \cap t)}
<1>0. \A x \in S : f[x] \in Nat
  OBVIOUS
<1>1. {} \in T
  <2>1. kept \cap {} = {}
    OBVIOUS
  <2> QED BY <1>0, <2>1, SumsExist, FS_EmptySet
<1>2. ASSUME NEW t \in SUBSET S, t # {}, t \ {OneOf(t)} \in T PROVE t \in T
  <2> DEFINE u == t \ {OneOf(t)}
             K == kept \cap t
             L == kept \cap u
  <2>1. OneOf(t) \in t
    BY <1>2 DEF OneOf
  <2>2. Sums(S, f)[t] = f[OneOf(t)] + Sums(S, f)[u]
    BY <1>0, <1>2, SumsExist
  <2>3. Sums(S, f)[u] = Cardinality(L)
    BY <1>2
  <2>4. IsFiniteSet(K) /\ Cardinality(K) \in Nat
    <3>1. K \in SUBSET S
      OBVIOUS
    <3> HIDE DEF K
    <3>2. IsFiniteSet(K)
      BY <3>1, FS_Subset
    <3> QED BY <3>2, FS_CardinalityType
  <2>5. L = K \ {OneOf(t)}
    OBVIOUS
  <2>6. OneOf(t) \in K <=> OneOf(t) \in kept
    BY <2>1
  <2> HIDE DEF K, L, u
  <2>7. Cardinality(L) = IF OneOf(t) \in K THEN Cardinality(K) - 1 ELSE Cardinality(K)
    BY <2>4, <2>5, FS_RemoveElement
  <2>8. f[OneOf(t)] = IF OneOf(t) \in kept THEN 1 ELSE 0
    BY <2>1
  <2>9. Sums(S, f)[t] = Cardinality(K)
    BY <2>2, <2>3, <2>4, <2>6, <2>7, <2>8
  <2> QED BY <2>9 DEF K
<1> HIDE DEF T
<1>3. SUBSET S \subseteq T
  BY <1>1, <1>2, SubsetInduction
<1>4. S \in T
  BY <1>3
<1> QED BY <1>4 DEF T

LEMMA InListSums ==
  ASSUME NEW w, NEW list
  PROVE  InList(w, list) = Sums(OwnedBy(w), list)[OwnedBy(w)]
BY Zenon DEF InList, FoldFunctionOnSet, MapThenFoldSet, Sums, SumsBy, OneOf

LEMMA ListIsNat ==
  ASSUME OutboxAssumption, NEW w, NEW list \in [Subs -> Nat]
  PROVE  InList(w, list) \in Nat
<1>1. IsFiniteSet(OwnedBy(w)) /\ OwnedBy(w) \in SUBSET Subs
  BY FS_Subset DEF OutboxAssumption, OwnedBy
<1> QED BY <1>1, SumsAreNat, InListSums

LEMMA ListLess ==
  ASSUME OutboxAssumption, NEW w, NEW list \in [Subs -> Nat], NEW list2 \in [Subs -> Nat],
         \A s \in OwnedBy(w) : list2[s] <= list[s]
  PROVE  InList(w, list2) <= InList(w, list)
<1> DEFINE S == OwnedBy(w)
<1>1. IsFiniteSet(S) /\ S \in SUBSET Subs
  BY FS_Subset DEF OutboxAssumption, OwnedBy
<1> HIDE DEF S
<1>2. \A s \in S : list[s] \in Nat /\ list2[s] \in Nat /\ list2[s] <= list[s]
  BY <1>1 DEF S
<1>3. Sums(S, list2)[S] <= Sums(S, list)[S]
  BY <1>1, <1>2, SumsLess
<1> QED BY <1>3, InListSums DEF S

WithinMax(list) == \A w \in Surfaces : InList(w, list) <= MaxSubscriptions

\* An added entry is within the limit it was checked against.
LEMMA AddedWithin ==
  ASSUME OutboxAssumption, listed \in [Subs -> Nat], WithinMax(listed),
         NEW s \in Subs, AddToBus(s)
  PROVE  WithinMax(listed')
<1>1. /\ InList(Owner[s], listed) < MaxSubscriptions
      /\ listed' = [listed EXCEPT ![s] = @ + 1]
  BY DEF AddToBus
<1>2. listed' \in [Subs -> Nat]
  BY <1>1
<1> SUFFICES ASSUME NEW w \in Surfaces PROVE InList(w, listed') <= MaxSubscriptions
  BY DEF WithinMax
<1>3. IsFiniteSet(OwnedBy(w)) /\ OwnedBy(w) \in SUBSET Subs
  BY FS_Subset DEF OutboxAssumption, OwnedBy
<1>4. MaxSubscriptions \in Nat /\ InList(w, listed) <= MaxSubscriptions
  BY DEF OutboxAssumption, WithinMax
<1>5. CASE w = Owner[s]
  <2> DEFINE S == OwnedBy(w)
             list2 == listed'
  <2>1. s \in S
    BY <1>5 DEF OwnedBy
  <2>2. \A x \in S : listed[x] \in Nat /\ list2[x] = IF x = s THEN listed[x] + 1 ELSE listed[x]
    BY <1>1, <1>3
  <2>3. Sums(S, listed)[S] = InList(w, listed) /\ Sums(S, list2)[S] = InList(w, list2)
    BY InListSums
  <2>4. InList(w, listed) < MaxSubscriptions /\ InList(w, listed) \in Nat
    BY <1>1, <1>5, ListIsNat
  <2> HIDE DEF S, list2
  <2>5. Sums(S, list2)[S] = Sums(S, listed)[S] + 1
    BY <1>3, <2>1, <2>2, SumsMore DEF S
  <2>6. InList(w, list2) <= MaxSubscriptions
    BY <1>4, <2>3, <2>4, <2>5
  <2> QED BY <2>6 DEF list2
<1>6. CASE w # Owner[s]
  <2> DEFINE list2 == listed'
  <2>1. \A x \in OwnedBy(w) : list2[x] <= listed[x]
    <3> TAKE x \in OwnedBy(w)
    <3>1. x \in Subs /\ x # s
      BY <1>6 DEF OwnedBy
    <3> QED BY <1>1, <3>1
  <2>2. list2 \in [Subs -> Nat]
    BY <1>2
  <2> HIDE DEF list2
  <2>3. InList(w, list2) <= InList(w, listed)
    BY <2>1, <2>2, ListLess
  <2>4. InList(w, list2) \in Nat /\ InList(w, listed) \in Nat
    BY <2>2, ListIsNat
  <2>5. InList(w, list2) <= MaxSubscriptions
    BY <1>4, <2>3, <2>4
  <2> QED BY <2>5 DEF list2
<1> QED BY <1>5, <1>6

LEMMA FewerWithin ==
  ASSUME OutboxAssumption, NEW list \in [Subs -> Nat], NEW list2 \in [Subs -> Nat],
         WithinMax(list), \A s \in Subs : list2[s] <= list[s]
  PROVE  WithinMax(list2)
<1> SUFFICES ASSUME NEW w \in Surfaces PROVE InList(w, list2) <= MaxSubscriptions
  BY DEF WithinMax
<1>1. \A s \in OwnedBy(w) : list2[s] <= list[s]
  BY DEF OwnedBy
<1>2. InList(w, list2) <= InList(w, list)
  BY <1>1, ListLess
<1>3. InList(w, list2) \in Nat /\ InList(w, list) \in Nat
  BY ListIsNat
<1>4. InList(w, list) <= MaxSubscriptions /\ MaxSubscriptions \in Nat
  BY DEF WithinMax, OutboxAssumption
<1> QED BY <1>2, <1>3, <1>4

LEMMA EffectWithin ==
  ASSUME OutboxAssumption, OutboxInv, WithinMax(listed), FlushEffect, OutboxInv'
  PROVE  WithinMax(listed')
<1> DEFINE row == outbox[Head1]
           list2 == listed'
<1>1. ApplyEffect(row) /\ flush.rows # {}
  BY DEF FlushEffect, FlushRow
<1>2. listed \in [Subs -> Nat] /\ list2 \in [Subs -> Nat]
  BY DEF OutboxInv, Types
<1>3. row \in OutboxRow
  <2>1. outbox \in Seq(OutboxRow) /\ flush.rows \in SUBSET Nat /\ flush.rows \subseteq DOMAIN outbox
    BY DEF OutboxInv, Types, FlushOk, PendingRows
  <2>2. Head1 \in flush.rows
    BY <1>1, <2>1, MinOfPlaces DEF Head1
  <2> QED BY <2>1, <2>2
<1> HIDE DEF row
<1>4. CASE row.effect = "add" /\ AddToBus(row.of)
  <2>1. row.of \in Subs
    BY <1>3, <1>4 DEF OutboxRow, Toggles
  <2> QED BY <1>2, <1>4, <2>1, AddedWithin
<1>5. CASE row.effect = "remove" /\ RemoveFromBus(row.of)
  <2>1. \A s \in Subs : list2[s] <= listed[s]
    BY <1>2, <1>5 DEF RemoveFromBus
  <2> HIDE DEF list2
  <2>2. WithinMax(list2)
    BY <1>2, <2>1, FewerWithin
  <2> QED BY <2>2 DEF list2
<1>6. CASE row.effect = "remove_surface" /\ ForgetSurface(row.of)
  <2>1. \A s \in Subs : list2[s] <= listed[s]
    BY <1>2, <1>6 DEF ForgetSurface
  <2> HIDE DEF list2
  <2>2. WithinMax(list2)
    BY <1>2, <2>1, FewerWithin
  <2> QED BY <2>2 DEF list2
<1>7. CASE UNCHANGED listed
  BY <1>7 DEF WithinMax
<1> QED BY <1>1, <1>4, <1>5, <1>6, <1>7 DEF ApplyEffect, SetEnabled

LEMMA RestartWithin ==
  ASSUME OutboxAssumption, Restart
  PROVE  WithinMax(listed')
<1>1. PICK kept \in SUBSET Subs :
        /\ WithinLimit(kept)
        /\ listed' = [s \in Subs |-> IF s \in kept THEN 1 ELSE 0]
  BY DEF Restart
<1> SUFFICES ASSUME NEW w \in Surfaces PROVE InList(w, listed') <= MaxSubscriptions
  BY DEF WithinMax
<1> DEFINE S == OwnedBy(w)
           list2 == listed'
<1>2. IsFiniteSet(S) /\ S \in SUBSET Subs
  BY FS_Subset DEF OutboxAssumption, OwnedBy
<1>3. \A x \in S : list2[x] = IF x \in kept THEN 1 ELSE 0
  BY <1>1, <1>2
<1>4. Cardinality(kept \cap S) <= MaxSubscriptions
  BY <1>1 DEF WithinLimit
<1>5. Sums(S, list2)[S] = InList(w, list2)
  BY InListSums
<1> HIDE DEF S, list2
<1>6. Sums(S, list2)[S] = Cardinality(kept \cap S)
  BY <1>2, <1>3, SumsCount
<1>7. InList(w, list2) <= MaxSubscriptions
  BY <1>4, <1>5, <1>6
<1> QED BY <1>7 DEF list2

LEMMA NoneWithin ==
  ASSUME OutboxAssumption, Init
  PROVE  WithinMax(listed)
<1> SUFFICES ASSUME NEW w \in Surfaces PROVE InList(w, listed) <= MaxSubscriptions
  BY DEF WithinMax
<1> DEFINE S == OwnedBy(w)
<1>1. IsFiniteSet(S) /\ S \in SUBSET Subs
  BY FS_Subset DEF OutboxAssumption, OwnedBy
<1>2. \A x \in S : listed[x] = IF x \in {} THEN 1 ELSE 0
  BY <1>1 DEF Init
<1> HIDE DEF S
<1>3. Sums(S, listed)[S] = Cardinality({} \cap S)
  BY <1>1, <1>2, SumsCount
<1>4. {} \cap S = {} /\ Cardinality({}) = 0 /\ MaxSubscriptions \in Nat
  BY FS_EmptySet DEF OutboxAssumption
<1>5. Sums(S, listed)[S] <= MaxSubscriptions
  BY <1>3, <1>4
<1> QED BY <1>5, InListSums DEF S

LEMMA ListsWithinLimit ==
  Spec => []WithinMax(listed)
<1>1. Init => WithinMax(listed)
  BY OutboxAssumption, NoneWithin
<1>2. OutboxInv /\ OutboxInv' /\ WithinMax(listed) /\ [Next]_vars => WithinMax(listed)'
  <2> SUFFICES ASSUME OutboxInv, OutboxInv', WithinMax(listed), [Next]_vars
               PROVE  WithinMax(listed')
    OBVIOUS
  <2>1. CASE FlushEffect
    BY <2>1, OutboxAssumption, EffectWithin
  <2>2. CASE Restart
    BY <2>2, OutboxAssumption, RestartWithin
  <2>3. CASE UNCHANGED listed
    BY <2>3 DEF WithinMax
  <2> QED BY <2>1, <2>2, <2>3
       DEF Next, CommitTransaction, UndoCreation, FlushOverLimit, DispatchRefused, Dispatch,
           Deliver, MarkDelivered, DispatchDone, vars, bus
<1> QED BY <1>1, <1>2, OutboxInvariant, PTL DEF Spec

-----------------------------------------------------------------------------
(* The theorems *)

LEMMA RanAtMost ==
  ASSUME OutboxInv, NEW e \in Events, NEW s \in Subs
  PROVE  ran[<<e, s>>] \in Nat /\ ran[<<e, s>>] <= crashes + 1
<1>1. <<e, s>> \in Events \X Subs
  OBVIOUS
<1>2. ran[<<e, s>>] \in Nat /\ crashes \in Nat
  BY <1>1, OutboxAssumption DEF OutboxInv, Types, OutboxAssumption
<1>3. ran[<<e, s>>] <= crashes \/ ran[<<e, s>>] <= crashes + 1
  BY DEF OutboxInv, RanOk
<1> QED BY <1>2, <1>3

\* The tables, the outbox rows and the bus keep their form; no surface's list
\* in memory exceeds MAX_SUBSCRIPTIONS_PER_SURFACE, by add_subscription's check
\* and load_from_db's; and the handler of a delivery is run at most once in
\* each life of the process.
THEOREM OutboxTypeCorrect ==
  Spec => []TypeOK
<1>1. OutboxInv /\ WithinMax(listed) => TypeOK
  <2> SUFFICES ASSUME OutboxInv, WithinMax(listed) PROVE TypeOK
    OBVIOUS
  <2>1. \A w \in Surfaces : InList(w, listed) \in 0..MaxSubscriptions
    <3> TAKE w \in Surfaces
    <3>1. listed \in [Subs -> Nat] /\ MaxSubscriptions \in Nat
      BY OutboxAssumption DEF OutboxInv, Types, OutboxAssumption
    <3>2. InList(w, listed) \in Nat /\ InList(w, listed) <= MaxSubscriptions
      BY <3>1, OutboxAssumption, ListIsNat DEF WithinMax
    <3> QED BY <3>1, <3>2
  <2>2. \A k \in DOMAIN outbox : outbox[k].status \in {"pending", "delivered", "failed"}
    <3> TAKE k \in DOMAIN outbox
    <3>1. outbox[k] \in OutboxRow
      BY DEF OutboxInv, Types
    <3> QED BY <3>1 DEF OutboxRow, RowStatus
  <2>3. ran \in [Events \X Subs -> 0..MaxCrashes + 1]
    <3>1. \A m \in Events \X Subs : ran[m] \in 0..MaxCrashes + 1
      <4> SUFFICES ASSUME NEW e \in Events, NEW s \in Subs
                   PROVE  ran[<<e, s>>] \in 0..MaxCrashes + 1
        OBVIOUS
      <4>1. ran[<<e, s>>] \in Nat /\ ran[<<e, s>>] <= crashes + 1
        BY RanAtMost
      <4>2. MaxCrashes \in Nat /\ crashes \in 0..MaxCrashes
        BY OutboxAssumption DEF OutboxInv, Types, OutboxAssumption
      <4> QED BY <4>1, <4>2
    <3>2. ran \in [Events \X Subs -> Nat]
      BY DEF OutboxInv, Types
    <3> QED BY <3>1, <3>2
  <2>4. flush.stage \in {"next", "deliver", "mark"}
    BY DEF OutboxInv, Types, Flushes
  <2> QED BY <2>1, <2>2, <2>3, <2>4 DEF OutboxInv, Types, TypeOK
<1> QED BY <1>1, OutboxInvariant, ListsWithinLimit, PTL

\* When no row of the outbox is pending and no flush is under way, the bus in
\* memory has the subscriptions the table has, enabled or not, in spite of
\* crashes between a commit and its flush and of rows replayed on a bus loaded
\* from a newer table; only strays may differ.
THEOREM OutboxBusInSync ==
  Spec => []BusInSync
<1>1. OutboxInv => BusInSync
  <2> SUFFICES ASSUME OutboxInv, Settled, NEW s \in Subs \ strays PROVE known[s] = subs[s]
    BY DEF BusInSync
  <2>1. Coming(outbox, s, Len(outbox) + 1, AnyEffect) = {}
    BY DEF Settled, Coming, Touches
  <2>2. ValueAt(outbox, known, s, Len(outbox) + 1, AnyEffect) = subs[s]
    BY DEF OutboxInv, SyncOk, InStep
  <2> QED BY <2>1, <2>2 DEF ValueAt
<1> QED BY <1>1, OutboxInvariant, PTL

\* Without a crash an event the bus did not refuse runs the handlers of those
\* subscriptions only that were on when the event was committed, whatever was
\* committed before or after it in the same transaction or in others, and each
\* of them at most once.
THEOREM OutboxHeardInOrder ==
  Spec => []HeardInOrder
<1>1. OutboxInv => HeardInOrder
  <2> SUFFICES ASSUME OutboxInv, crashes = 0, NEW e \in Events \ refused, NEW s \in Subs \ strays
               PROVE  ran[<<e, s>>] <= IF s \in heard[e] THEN 1 ELSE 0
    BY DEF HeardInOrder
  <2>1. ran[<<e, s>>] \in Nat /\ ran[<<e, s>>] <= 1
    BY RanAtMost
  <2>2. ran[<<e, s>>] > 0 => s \in heard[e]
    BY DEF OutboxInv, EarlyOk, HeardOk
  <2> QED BY <2>1, <2>2
<1> QED BY <1>1, OutboxInvariant, PTL

\* Without a crash a dispatch row says "delivered" only when the handler of
\* every subscription that was on at the event's commit ran, once: a handler
\* that fails leaves the row "failed".
THEOREM OutboxDeliveredToAll ==
  Spec => []DeliveredToAll
<1>1. OutboxInv => DeliveredToAll
  <2> SUFFICES ASSUME OutboxInv, crashes = 0, NEW k \in DOMAIN outbox,
                      outbox[k].effect = "dispatch", outbox[k].status = "delivered",
                      outbox[k].of \notin refused,
                      NEW s \in heard[outbox[k].of] \ strays
               PROVE  ran[<<outbox[k].of, s>>] = 1
    BY DEF DeliveredToAll
  <2>1. outbox[k] \in OutboxRow
    BY DEF OutboxInv, Types
  <2>2. outbox[k].of \in Events
    BY <2>1 DEF OutboxRow, Toggles
  <2>3. s \in Subs
    BY <2>2 DEF OutboxInv, Types
  <2>4. ran[<<outbox[k].of, s>>] > 0
    BY DEF OutboxInv, EarlyOk, AllOk
  <2>5. ran[<<outbox[k].of, s>>] \in Nat /\ ran[<<outbox[k].of, s>>] <= 1
    BY <2>2, <2>3, RanAtMost
  <2> QED BY <2>4, <2>5
<1> QED BY <1>1, OutboxInvariant, PTL

\* A delivery whose row in surface_event_deliveries says it was delivered is
\* never run again: not by the flush after a crash that left the outbox row
\* pending, and not by another event's.
THEOREM OutboxMarkedRunsNoMore ==
  Spec => MarkedRunsNoMore
<1>1. OutboxInv /\ [Next]_vars => (\A m \in delivered : ran'[m] = ran[m])
  <2> SUFFICES ASSUME OutboxInv, [Next]_vars, NEW m \in delivered PROVE ran'[m] = ran[m]
    OBVIOUS
  <2>1. ran \in [Events \X Subs -> Nat]
    BY DEF OutboxInv, Types
  <2>2. ASSUME NEW s \in Subs, Deliver(s) PROVE ran'[m] = ran[m]
    <3>1. CASE ~ Skippable(Event1, s) /\ ran' = [ran EXCEPT ![<<Event1, s>>] = @ + 1]
      <4>1. m # <<Event1, s>>
        BY <3>1 DEF Skippable
      <4>2. m \in Events \X Subs
        BY DEF OutboxInv, Types
      <4> QED BY <2>1, <3>1, <4>1, <4>2
    <3>2. CASE ran' = ran
      BY <3>2
    <3> QED BY <2>2, <3>1, <3>2 DEF Deliver
  <2>3. CASE ran' = ran
    BY <2>3
  <2> QED BY <2>2, <2>3
       DEF Next, CommitTransaction, UndoCreation, FlushEffect, FlushOverLimit, DispatchRefused,
           Dispatch, MarkDelivered, DispatchDone, Restart, vars, db
<1> QED BY <1>1, OutboxInvariant, PTL DEF Spec, MarkedRunsNoMore
=============================================================================
