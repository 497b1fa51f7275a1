---------------------------- MODULE AtLeastOnce ----------------------------
(***************************************************************************)
(* What ADR-002 promises of the transactional outbox: events that were     *)
(* recorded, and only those, reach Kafka, each at least once; and what the *)
(* missing acknowledgements take from it: the producer forgets an event    *)
(* only when Kafka has it, or dropped a write of it.                       *)
(***************************************************************************)
EXTENDS Naturals

CONSTANT Events

VARIABLES
    recorded,   \* events whose business transaction committed
    copies,     \* how many copies of each event Kafka holds
    dropped,    \* events of which Kafka dropped a write nobody saw fail
    forgotten   \* events that will not be sent again

vars == <<recorded, copies, dropped, forgotten>>

Init ==
    /\ recorded = {}
    /\ copies = [e \in Events |-> 0]
    /\ dropped = {}
    /\ forgotten = {}

Record(e) ==
    /\ e \notin recorded
    /\ recorded' = recorded \cup {e}
    /\ UNCHANGED <<copies, dropped, forgotten>>

Send(e) ==
    /\ e \in recorded \ forgotten
    /\ copies' = [copies EXCEPT ![e] = @ + 1]
    /\ UNCHANGED <<recorded, dropped, forgotten>>

Drop(e) ==
    /\ e \in recorded \ forgotten
    /\ dropped' = dropped \cup {e}
    /\ UNCHANGED <<recorded, copies, forgotten>>

Forget(S) ==
    /\ \A e \in S : copies[e] > 0 \/ e \in dropped
    /\ forgotten' = forgotten \cup S
    /\ UNCHANGED <<recorded, copies, dropped>>

Next ==
    \/ \E e \in Events : Record(e) \/ Send(e) \/ Drop(e)
    \/ \E S \in SUBSET Events : Forget(S)

Spec == Init /\ [][Next]_vars
====
