----------------------------- MODULE AtLeastOnce -----------------------------
(***************************************************************************)
(* What the transactional outbox promises its users: an event becomes owed *)
(* when the transaction that staged it commits, it may then be announced   *)
(* any number of times, and it stops being owed only after it was          *)
(* announced at least once.                                                *)
(***************************************************************************)
CONSTANT Events

VARIABLES owed, sent

Init == owed = {} /\ sent = {}

\* A transaction commits with the events it staged.
Owe(S) == /\ owed' = owed \cup S
          /\ UNCHANGED sent

\* An owed event, or one owed before, goes out (possibly again).
Announce(e) == /\ e \in owed \cup sent
               /\ sent' = sent \cup {e}
               /\ UNCHANGED owed

\* Announced events are struck off the list.
Settle(S) == /\ S \subseteq sent
             /\ owed' = owed \ S
             /\ UNCHANGED sent

Next == \/ \E S \in SUBSET Events : Owe(S) \/ Settle(S)
        \/ \E e \in Events : Announce(e)

Spec == Init /\ [][Next]_<<owed, sent>>
=============================================================================
