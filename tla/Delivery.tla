------------------------------ MODULE Delivery ------------------------------
(***************************************************************************)
(* What the outbox of state.py and the upload of agent.py promise together,*)
(* with no process, network or platform in sight: a reading is taken once, *)
(* waits in the queue, and leaves it only because the platform has it, or  *)
(* because it was set aside for an operator, or by a factory reset.  The   *)
(* platform may come to hold it at any time after it was taken (the answer *)
(* can be lost), also when the device no longer waits for it.              *)
(***************************************************************************)
CONSTANT Readings

VARIABLES
    queued,       \* waiting on the device
    delivered,    \* held by the platform
    quarantined,  \* set aside on the device for an operator
    erased        \* gone by a factory reset

vars == <<queued, delivered, quarantined, erased>>

Taken == queued \cup delivered \cup quarantined \cup erased

Init == queued = {} /\ delivered = {} /\ quarantined = {} /\ erased = {}

Take(r) ==
    /\ r \notin Taken
    /\ queued' = queued \cup {r}
    /\ UNCHANGED <<delivered, quarantined, erased>>

Deliver(rs) ==
    /\ rs \subseteq Taken
    /\ delivered' = delivered \cup rs
    /\ UNCHANGED <<queued, quarantined, erased>>

(* One answer of the platform, applied as a whole. *)
Settle(done, refused) ==
    /\ done \subseteq queued \cap delivered /\ refused \subseteq queued
    /\ queued' = queued \ (done \cup refused)
    /\ quarantined' = quarantined \cup refused
    /\ UNCHANGED <<delivered, erased>>

(* The assignment ends: nothing waits any longer. *)
SetAllAside ==
    /\ quarantined' = quarantined \cup queued
    /\ queued' = {}
    /\ UNCHANGED <<delivered, erased>>

Erase ==
    /\ erased' = erased \cup queued \cup quarantined
    /\ queued' = {} /\ quarantined' = {}
    /\ UNCHANGED delivered

Next ==
    \/ \E r \in Readings : Take(r)
    \/ \E rs \in SUBSET Taken : Deliver(rs)
    \/ \E done, refused \in SUBSET queued : Settle(done, refused)
    \/ SetAllAside \/ Erase

Spec == Init /\ [][Next]_vars

=============================================================================
