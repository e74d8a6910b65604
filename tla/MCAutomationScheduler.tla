------------------------ MODULE MCAutomationScheduler -----------------------
(* Two daily automations due at the same time, one start per tick, so they *)
(* compete.  b skips what it missed; a catches up, and the user commands   *)
(* and edits a alone (to run every tick, or every second one).  A claim is *)
(* stale after one tick, so a run may outlive it.                          *)
EXTENDS AutomationScheduler

Daily == [kind |-> "daily", every |-> 2]
Interval == [kind |-> "interval", every |-> 1]
MCTriggers == {Daily, Interval}
MCTrigger == [a |-> Daily, b |-> Daily]
=============================================================================
