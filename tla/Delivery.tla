------------------------------ MODULE Delivery ------------------------------
(***************************************************************************)
(* What the domain-event fan-out promises one consumer: an event that was  *)
(* published is handled at least once and then settled as done, or it is   *)
(* given up on; one or the other happens to every published event.  It may *)
(* be handled more than once, and in any order.                            *)
(***************************************************************************)
CONSTANT Events

VARIABLES
    outcome,    \* Events -> "unsent", "pending", "done", "failed"
    handled     \* events whose handler ran to its end at least once

vars == <<outcome, handled>>

Init == outcome = [e \in Events |-> "unsent"] /\ handled = {}

Send(e) ==
    /\ outcome[e] = "unsent"
    /\ outcome' = [outcome EXCEPT ![e] = "pending"]
    /\ UNCHANGED handled

\* Also after the event was settled: a worker that lost its claim runs on.
Handle(e) ==
    /\ outcome[e] # "unsent"
    /\ handled' = handled \cup {e}
    /\ UNCHANGED outcome

Done(e) ==
    /\ outcome[e] = "pending" /\ e \in handled
    /\ outcome' = [outcome EXCEPT ![e] = "done"]
    /\ UNCHANGED handled

GiveUp(e) ==
    /\ outcome[e] = "pending"
    /\ outcome' = [outcome EXCEPT ![e] = "failed"]
    /\ UNCHANGED handled

Next == \E e \in Events : Send(e) \/ Handle(e) \/ Done(e) \/ GiveUp(e)

Settled(e) == outcome[e] \in {"done", "failed"}

Spec == Init /\ [][Next]_vars /\ \A e \in Events : (outcome[e] = "pending") ~> Settled(e)
=============================================================================
