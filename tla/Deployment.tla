----------------------------- MODULE Deployment -----------------------------
(***************************************************************************)
(* What installing releases promises.  There is always a release to fall   *)
(* back on.  At most one other is on trial; it takes over only after a     *)
(* contact of its own with the platform, and is given up otherwise.  A     *)
(* release is tried once.  Releases of another kind are not tried at all:  *)
(* an operator puts them in, never while another release is on trial, and  *)
(* answers for them.                                                       *)
(***************************************************************************)
CONSTANTS
    Releases,
    Untried,    \* those that an operator puts in without a trial
    Bootstrap,  \* what the device starts with
    NoRelease

VARIABLES
    trusted,  \* the release the device is committed to
    trial,    \* the release on trial, or NoRelease
    used,     \* releases that will not be tried (again)
    proven    \* releases that reached the platform during their trial, or
              \* that an operator put in

vars == <<trusted, trial, used, proven>>

Init == trusted = Bootstrap /\ trial = NoRelease /\ used = {Bootstrap} /\ proven = {}

Try(r) ==
    /\ trial = NoRelease /\ r \notin used
    /\ trial' = r /\ used' = used \cup {r}
    /\ UNCHANGED <<trusted, proven>>

(* An installation given up before its trial began. *)
Abandon(r) ==
    /\ trial = NoRelease /\ r \notin used
    /\ used' = used \cup {r}
    /\ UNCHANGED <<trusted, trial, proven>>

Contact ==
    /\ trial # NoRelease
    /\ proven' = proven \cup {trial}
    /\ UNCHANGED <<trusted, trial, used>>

Accept ==
    /\ trial \in proven
    /\ trusted' = trial /\ trial' = NoRelease
    /\ UNCHANGED <<used, proven>>

Reject ==
    /\ trial # NoRelease
    /\ trial' = NoRelease
    /\ UNCHANGED <<trusted, used, proven>>

Install(r) ==
    /\ trial = NoRelease
    /\ trusted' = r /\ proven' = proven \cup {r}
    /\ UNCHANGED <<trial, used>>

Next == \/ \E r \in Releases \ Untried : Try(r) \/ Abandon(r)
        \/ \E r \in Untried : Install(r)
        \/ Contact \/ Accept \/ Reject

Spec == Init /\ [][Next]_vars

=============================================================================
