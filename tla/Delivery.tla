------------------------------ MODULE Delivery ------------------------------
(***************************************************************************)
(* What the transactional outbox promises to the executions whose events   *)
(* it holds, with no leases, workers or transactions: an event that was    *)
(* published is delivered one or more times, is finished only after it was *)
(* delivered, and once finished never becomes pending again.               *)
(***************************************************************************)
CONSTANT Events

VARIABLES state,        \* of each event: absent, pending or finished
          delivered     \* events that reached their consumer at least once

Init ==
    /\ state = [e \in Events |-> "absent"]
    /\ delivered = {}

Publish(e) ==
    /\ state[e] = "absent"
    /\ state' = [state EXCEPT ![e] = "pending"]
    /\ UNCHANGED delivered

Deliver(e) ==
    /\ state[e] # "absent"
    /\ delivered' = delivered \cup {e}
    /\ UNCHANGED state

Finish(e) ==
    /\ state[e] = "pending"
    /\ e \in delivered
    /\ state' = [state EXCEPT ![e] = "finished"]
    /\ UNCHANGED delivered

Next == \E e \in Events : Publish(e) \/ Deliver(e) \/ Finish(e)

Spec == Init /\ [][Next]_<<state, delivered>>
=============================================================================
