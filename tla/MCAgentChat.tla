---------------------------- MODULE MCAgentChat -----------------------------
(* An instance of AgentChat for TLC. *)
EXTENDS AgentChat, TLC

Symmetry ==
    Permutations(Requests) \cup Permutations(Users) \cup Permutations(Conversations)
=============================================================================
