------------------------------ MODULE JobTable ------------------------------
(***************************************************************************)
(* What admin_job and admin_job_event promise to whoever reads them, a     *)
(* dashboard or an operator: the life of a job as the committed rows show  *)
(* it.  Processes, pools, heartbeats and handlers are not here; Jobs       *)
(* implements this, whatever crashes, fails or comes late.                 *)
(***************************************************************************)
EXTENDS Naturals, Sequences

CONSTANTS Jobs

VARIABLES
    status,         \* of each job
    events          \* of each job, progress left out

vars == <<status, events>>

Ended == {"succeeded", "failed"}

Init ==
    /\ status = [j \in Jobs |-> "absent"]
    /\ events = [j \in Jobs |-> <<>>]

Said(j, what) == \E n \in DOMAIN events[j] : events[j][n] = what

\* A job is in the table once.
Request(j) ==
    /\ status[j] = "absent"
    /\ status' = [status EXCEPT ![j] = "queued"]
    /\ UNCHANGED events

\* A job is taken once and never goes back.  Which one is not said: dispatchers
\* that take jobs at the same time pass over one another's.
Take(j) ==
    /\ status[j] = "queued"
    /\ status' = [status EXCEPT ![j] = "running"]
    /\ UNCHANGED events

\* Running jobs nobody seems to care for are failed together.
GiveUp(S) ==
    /\ \A j \in S : status[j] = "running"
    /\ status' = [j \in Jobs |-> IF j \in S THEN "failed" ELSE status[j]]
    /\ UNCHANGED events

\* A job begins once, after it was taken; it may have been given up by then.
Begin(j) ==
    /\ status[j] \in {"running"} \cup Ended
    /\ ~Said(j, "started")
    /\ events' = [events EXCEPT ![j] = Append(@, "started")]
    /\ UNCHANGED status

\* Only what has begun ends by itself, also after it was given up; a success
\* that was said is final.
End(j, how) ==
    /\ Said(j, "started") /\ ~Said(j, "succeeded")
    /\ status[j] \in {"running"} \cup Ended
    /\ status' = [status EXCEPT ![j] = how]
    /\ UNCHANGED events

\* A success is said once, and only of a job that has succeeded.
SaySucceeded(j) ==
    /\ status[j] = "succeeded"
    /\ Said(j, "started") /\ ~Said(j, "succeeded")
    /\ events' = [events EXCEPT ![j] = Append(@, "succeeded")]
    /\ UNCHANGED status

\* A failure may be said more than once, and of a job that has succeeded since.
SayFailed(j) ==
    /\ status[j] \in Ended
    /\ events' = [events EXCEPT ![j] = Append(@, "failed")]
    /\ UNCHANGED status

Next ==
    \/ \E j \in Jobs :
          \/ Request(j) \/ Take(j) \/ Begin(j)
          \/ \E how \in Ended : End(j, how)
          \/ SaySucceeded(j) \/ SayFailed(j)
    \/ \E S \in SUBSET Jobs : GiveUp(S)

Spec == Init /\ [][Next]_vars
=============================================================================
