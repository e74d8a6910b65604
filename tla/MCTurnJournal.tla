--------------------------- MODULE MCTurnJournal ----------------------------
(***************************************************************************)
(* Two turns of one conversation, two attempts each, checkpoints of up to  *)
(* two operations, and a retention cap of one so that both its cases occur.*)
(***************************************************************************)
EXTENDS TurnJournal, TLC

CONSTANTS t1, t2, a, b

MCTurns == {t1, t2}
MCOps == {a, b}
MCSymmetry == Permutations(MCTurns) \cup Permutations(MCOps)
=============================================================================
