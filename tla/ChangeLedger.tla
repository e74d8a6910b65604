---------------------------- MODULE ChangeLedger ----------------------------
(***************************************************************************)
(* What the change kernel promises its user, with no word about rows,      *)
(* revisions, renderers or crashes: an operation takes effect for good,    *)
(* together with what it depends on; a guarded one only by the answer to a *)
(* question, which is asked about fixed operations and answered once, for  *)
(* all of them.                                                            *)
(***************************************************************************)
CONSTANTS
  Deps,     \* Deps[o]: the operations o depends on
  Guarded   \* the operations that need the user's word

VARIABLES
  committed,  \* the operations that took effect
  asked,      \* asked[q]: the operations question q is about
  open        \* the questions without an answer

vars == <<committed, asked, open>>

New == committed' \ committed
Closed(ops) == \A o \in ops : Deps[o] \subseteq ops

Init ==
  /\ committed = {}
  /\ DOMAIN asked = {}
  /\ open = {}

\* Some new operations take effect, none of them guarded.
CommitFree ==
  /\ committed \subseteq committed'
  /\ New # {} /\ New \cap Guarded = {}
  /\ Closed(New)
  /\ UNCHANGED <<asked, open>>

Ask ==
  /\ \E q \in DOMAIN asked' \ DOMAIN asked :
       /\ DOMAIN asked' = DOMAIN asked \cup {q}
       /\ Closed(asked'[q])
       /\ open' = open \cup {q}
  /\ \A q \in DOMAIN asked : asked'[q] = asked[q]
  /\ UNCHANGED committed

Answered(q) ==
  /\ q \in open
  /\ open' = open \ {q}
  /\ UNCHANGED asked

\* Yes: what was asked takes effect, all of it and nothing else.
Approve(q) ==
  /\ Answered(q)
  /\ asked[q] \cap committed = {}
  /\ committed' = committed \cup asked[q]

\* No, or too late.
Withdraw(q) ==
  /\ Answered(q)
  /\ UNCHANGED committed

Next ==
  \/ CommitFree
  \/ Ask
  \/ \E q \in open : Approve(q) \/ Withdraw(q)

Spec == Init /\ [][Next]_vars
=============================================================================
