----------------------------- MODULE MCService ------------------------------
(* Service for TLC: two contacts, the second of them notified from the     *)
(* second notification on, by an escalation.                               *)
EXTENDS Service

AllFlags == [c \in Contact |-> Flag]
NoEscalation == {}
Escalated(first, c) == {[first |-> first, last |-> 0, on |-> State, to |-> c, interval |-> 0]}
EscalateToAll == Escalated(2, Contact)
=============================================================================
