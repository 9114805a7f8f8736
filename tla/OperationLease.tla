---------------------------- MODULE OperationLease ----------------------------
(***************************************************************************)
(* What the operation lease promises, without resource versions, caches,   *)
(* reads or retries: one owner at a time, and a run that still has work to *)
(* do keeps the lease.  LeaseManager implements this specification.        *)
(***************************************************************************)
CONSTANTS UIDs, NoUID, Unreadable

VARIABLES
    owner,   \* the run that owns the lease, NoUID, or Unreadable
    stage    \* where every run is in its life

(***************************************************************************)
(* The life of a run as the lease sees it: "create" is a run with work to  *)
(* do, "finalize" a backup that only owes its post-processing, "terminal"  *)
(* a run with a final Succeeded condition, the deleting stages a run with  *)
(* a deletion timestamp before and after its final condition.              *)
(***************************************************************************)
Stages == {"unborn", "create", "finalize", "terminal",
           "deletingRun", "deletingDone", "gone"}

Running == {"create"}
Over    == {"terminal", "deletingDone", "gone"}

vars == <<owner, stage>>

Init ==
    /\ owner \in {NoUID, Unreadable}
    /\ stage = [u \in UIDs |-> "unborn"]

\* A free lease, or one whose owner is over, passes to a run.
Take(u) ==
    /\ \/ owner = NoUID
       \/ owner \in UIDs /\ stage[owner] \in Over
    /\ owner' = u
    /\ UNCHANGED stage

\* The owner gives the lease back; never while it still has work to do.
GiveBack ==
    /\ owner \in UIDs => stage[owner] \notin Running
    /\ owner' = NoUID
    /\ UNCHANGED stage

\* A run moves through its life and never returns to an earlier stage.
Live ==
    /\ stage' \in [UIDs -> Stages]
    /\ \A u \in UIDs :
          /\ stage[u] \in Over => stage'[u] \in Over
          /\ stage[u] \notin {"unborn", "create"} => stage'[u] \notin {"unborn", "create"}
    /\ UNCHANGED owner

Next == GiveBack \/ Live \/ \E u \in UIDs : Take(u)

Spec == Init /\ [][Next]_vars
===============================================================================
