----------------------------- MODULE MCConsole ------------------------------
(***************************************************************************)
(* The event streams and the migration runner share no state: a behaviour  *)
(* is one of the streams or one of the runner, and each has the fairness   *)
(* of its own module.                                                      *)
(***************************************************************************)
EXTENDS EventStream, Migrations

VARIABLE part

vars == <<streamVars, runnerVars, part>>

Init == StreamInit /\ RunnerInit /\ part \in {"streams", "runner"}

Streams ==
    /\ part = "streams"
    /\ StreamNext
    /\ UNCHANGED <<runnerVars, part>>

Runner ==
    /\ part = "runner"
    /\ RunnerNext
    /\ UNCHANGED <<streamVars, part>>

Next == Streams \/ Runner

Spec == Init /\ [][Next]_vars

FairSpec ==
    /\ Spec
    /\ part = "streams" => StreamFairness
    /\ part = "runner" => RunnerFairness
=============================================================================
