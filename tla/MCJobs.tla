------------------------------- MODULE MCJobs -------------------------------
(* Instances of Jobs for TLC. *)
EXTENDS Jobs

CONSTANTS p1, p2

\* Every job works on the one scope.
SameScope == [j \in Jobs |-> "nightly-refresh"]
=============================================================================
