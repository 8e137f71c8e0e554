------------------------------- MODULE Outbox -------------------------------
(***************************************************************************)
(* What the outbox promises to whoever reads the central database: the     *)
(* life of an event as the committed rows show it.  Workers, batches,      *)
(* locks and the target database are not here; Delivery implements this.   *)
(***************************************************************************)
EXTENDS Integers, Sequences

CONSTANTS EventIds, MaxAttempts

VARIABLES status, attempts, quarantine, audit

vars == <<status, attempts, quarantine, audit>>

\* Some events may be waiting already.
Init ==
    /\ status \in [EventIds -> {"absent", "pending"}]
    /\ attempts = [e \in EventIds |-> 0]
    /\ quarantine = {}
    /\ audit = [e \in EventIds |-> <<>>]

\* An event is put in the outbox once.
Enqueue(e) ==
    /\ status[e] = "absent"
    /\ status' = [status EXCEPT ![e] = "pending"]
    /\ UNCHANGED <<attempts, quarantine, audit>>

\* The outcomes one try of an event may have.  A failure is final exactly when
\* it uses up the last attempt.
Outcomes(e) ==
    {"delivered", "quarantined"} \cup
    {IF attempts[e] + 1 >= MaxAttempts THEN "dead_letter" ELSE "retry"}

\* A batch of waiting events is settled at once: each takes one outcome, each
\* try that reached the target leaves one audit row and counts as an attempt,
\* and each event set aside leaves one quarantine row.  No reader ever sees an
\* event in "processing".
Settle(S, out) ==
    /\ \A e \in S : status[e] \in {"pending", "retry"} /\ out[e] \in Outcomes(e)
    /\ status' = [e \in EventIds |-> IF e \in S THEN out[e] ELSE status[e]]
    /\ attempts' = [e \in EventIds |->
          IF e \in S /\ out[e] # "quarantined" THEN attempts[e] + 1 ELSE attempts[e]]
    /\ quarantine' = quarantine \cup {e \in S : out[e] = "quarantined"}
    /\ audit' = [e \in EventIds |->
          IF e \in S /\ out[e] # "quarantined"
          THEN Append(audit[e], IF out[e] = "delivered" THEN "accepted"
                                ELSE "transport_error")
          ELSE audit[e]]

\* Only an event at rest is replayed; its history in the audit trail stays.
Replay(e) ==
    /\ status[e] \in {"delivered", "quarantined", "dead_letter"}
    /\ status' = [status EXCEPT ![e] = "pending"]
    /\ attempts' = [attempts EXCEPT ![e] = 0]
    /\ quarantine' = quarantine \ {e}
    /\ UNCHANGED audit

Next ==
    \/ \E e \in EventIds : Enqueue(e) \/ Replay(e)
    \/ \E S \in SUBSET EventIds :
         \E out \in [S -> {"delivered", "quarantined", "dead_letter", "retry"}] :
            Settle(S, out)

Spec == Init /\ [][Next]_vars
=============================================================================
