-------------------------- MODULE MCPatchScheduler --------------------------
(* A surface s that exists and one, u, that a batch creates inline.  One   *)
(* agent batch navigates to s and writes its state, another creates u and  *)
(* edits it, for which it must wait.  The user edits s and deletes it.     *)
EXTENDS PatchScheduler

MCOps == {"nav", "st", "w", "mk", "ed", "del"}
MCBatches == {"A", "B", "E"}
MCMembers ==
  [A |-> <<"nav", "st">>, B |-> <<"mk", "w">>, E |-> <<"ed", "del">>]
MCKind ==
  [nav |-> "navigate", st |-> "state", w |-> "edit",
   mk |-> "inline", ed |-> "edit", del |-> "delete"]
MCTarget ==
  [nav |-> "s", st |-> "s", w |-> "u", mk |-> "u",
   ed |-> "s", del |-> "s"]
MCBase == [o \in MCOps |-> IF o = "ed" THEN 1 ELSE 0]
MCDeps == [o \in MCOps |-> IF o = "st" THEN {"nav"} ELSE {}]
=============================================================================
