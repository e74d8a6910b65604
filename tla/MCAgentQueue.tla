---------------------------- MODULE MCAgentQueue ----------------------------
(***************************************************************************)
(* Two conversations, two items in one of them with different priorities   *)
(* and the bound of two live turns reached with a third item.              *)
(***************************************************************************)
EXTENDS AgentQueue, TLC

CONSTANTS q1, q2, q3, q4, c1, c2, t1

MCItems == {q1, q2, q3, q4}
MCConversations == {c1, c2}
MCTurns == {t1}
MCConversationOf == q1 :> c1 @@ q2 :> c1 @@ q3 :> c1 @@ q4 :> c2
MCPriorityOf == q1 :> 100 @@ q2 :> 100 @@ q3 :> 50 @@ q4 :> 100
=============================================================================
