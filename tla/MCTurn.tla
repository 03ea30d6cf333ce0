------------------------------- MODULE MCTurn -------------------------------
(* Instances of TurnSystem for TLC. *)
EXTENDS TurnInvariants

CONSTANTS t1, t2, chat

Turns == Permutations(Turn)
=============================================================================
