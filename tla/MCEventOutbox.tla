--------------------------- MODULE MCEventOutbox ---------------------------
(* Two surfaces with three subscriptions, one more than the limit on the   *)
(* first surface; two events that a and c hear and one for its deletion.   *)
EXTENDS EventOutbox

Op(op, of) == [op |-> op, of |-> of]
MCOwner == [a |-> "w1", b |-> "w1", c |-> "w2"]
MCHears == [e1 |-> {"a", "c"}, e2 |-> {"a", "c"}, end |-> {"c"}, gone |-> {"a"}]
MCEnd == [w1 |-> "end", w2 |-> "gone"]
MCTransactions ==
  {<<Op("subscribe", "a"), Op("subscribe", "c")>>,
   <<Op("subscribe", "b")>>,
   <<Op("dispatch", "e1"), Op("unsubscribe", "a")>>,
   <<Op("disable", "c")>>,
   <<Op("dispatch", "e2"), Op("enable", "c")>>,
   <<Op("delete", "w1")>>}
=============================================================================
