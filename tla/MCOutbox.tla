------------------------------ MODULE MCOutbox ------------------------------
(* Instances of Outbox: two handlers, the first with two events. *)
EXTENDS Outbox, TLC

CONSTANTS t1, t2, e1, e2, e3

TwoTxs == {t1, t2}
ThreeEvents == {e1, e2, e3}
TwoEventsOf == t1 :> <<e1, e2>> @@ t2 :> <<e3>>
TwoTxOf == e1 :> t1 @@ e2 :> t1 @@ e3 :> t2
TwoPosOf == e1 :> 1 @@ e2 :> 2 @@ e3 :> 1
=============================================================================
