----------------------------- MODULE MCDelivery -----------------------------
(* One instance with a timer or a message, one scheduler, a sender of      *)
(* messages and a caller of anything else.                                 *)
EXTENDS Delivery

CONSTANTS i1, p1, s1, c1

OneInstance  == {i1}
OneScheduler == {p1}
OneSender    == {s1}
OneCaller    == {c1}

SameKey == [i \in Instance |-> "key"]

EvenAnchor == {0}

DurationCycleMessage == {"duration", "cycle", "message"}
=============================================================================
