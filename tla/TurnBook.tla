------------------------------ MODULE TurnBook ------------------------------
(***************************************************************************)
(* What a phone relies on in the durable record of its turns: a client     *)
(* turn keeps the identity it got, its events are numbered once and for    *)
(* all and only the oldest are forgotten, and after the whole answer       *)
(* nothing follows.                                                        *)
(***************************************************************************)
EXTENDS Naturals

CONSTANT Key    \* client turns of a session

VARIABLE book   \* the entry of each; id 0 where there is none

Unknown == [id |-> 0]

Init == book = [key \in Key |-> Unknown]

Accepted(key) == book[key] = Unknown /\ book'[key].id > 0

\* Later events, fewer of the old ones, and none after the whole answer.
Continued(key) ==
  LET old == book[key]
      new == book'[key]
  IN /\ old # Unknown /\ new.id = old.id
     /\ new.last >= old.last
     /\ \A n \in DOMAIN new.kinds \cap 1 .. old.last :
          n \in DOMAIN old.kinds /\ new.kinds[n] = old.kinds[n]
     /\ old.whole => new.whole /\ new.last = old.last

Next == \A key \in Key : UNCHANGED book[key] \/ Accepted(key) \/ Continued(key)

Spec == Init /\ [][Next]_book
=============================================================================
