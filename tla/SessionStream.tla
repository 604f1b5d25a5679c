---------------------------- MODULE SessionStream ----------------------------
(***************************************************************************)
(* What Repository.OpenEventStream promises its callers                    *)
(* (platformapi.EventStream): a subscription is opened atomically with its *)
(* durable replay, and from then on every durable event is delivered in    *)
(* order or the subscription is closed.                                    *)
(***************************************************************************)
EXTENDS Naturals

CONSTANT Readers

VARIABLES
  head,      \* the last durable sequence
  seen,      \* per reader, the last durable sequence it was given
  attached   \* the readers that hold a subscription

vars == <<head, seen, attached>>

Init == head = 0 /\ seen = [r \in Readers |-> 0] /\ attached = {}

Append == head' = head + 1 /\ UNCHANGED <<seen, attached>>

\* A replay from the reader's cursor; a subscription only if it reaches the head
Open(r) ==
  /\ r \notin attached
  /\ \E n \in seen[r]..head :
       /\ seen' = [seen EXCEPT ![r] = n]
       /\ attached' \in IF n = head THEN {attached, attached \cup {r}} ELSE {attached}
  /\ UNCHANGED head

Deliver(r) ==
  /\ r \in attached /\ seen[r] < head
  /\ seen' = [seen EXCEPT ![r] = @ + 1]
  /\ UNCHANGED <<head, attached>>

Close(r) == r \in attached /\ attached' = attached \ {r} /\ UNCHANGED <<head, seen>>

Next == Append \/ \E r \in Readers : Open(r) \/ Deliver(r) \/ Close(r)

Spec == Init /\ [][Next]_vars
====
