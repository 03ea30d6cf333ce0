------------------------------ MODULE MCLedger ------------------------------
(* Instances of TurnLedgerServer for TLC. *)
EXTENDS TurnLedgerServer

CONSTANTS c1, c2, m1, m2, k1, d1, d2

Alike == Permutations(Conn) \cup Permutations(Mobile) \cup Permutations(Request)

\* The comprehension of a page, written without recursion, is SelectSeq's.
ASSUME NewerSelects ==
  \A events \in BoundedSeq([seq : 0 .. 2, kind : {"a", "b"}], 3), after \in 0 .. 2 :
    Newer(events, after) = SelectSeq(events, LAMBDA e : e.seq > after)
=============================================================================
