---------------------------- MODULE MCOnboarding ----------------------------
(* A small instance of Onboarding: two rows of one source column, one of another. *)
EXTENDS Onboarding, TLC

CONSTANTS f1, f2, f3, s1, s2, c1, c2

\* The model is sure of all it says, or of nothing but that a row has no target.
SomeAnswers ==
    {(f1 :> "sure")   @@ (f2 :> "none")         @@ (f3 :> "no match"),
     (f1 :> "unsure") @@ (f2 :> "sure of none") @@ (f3 :> "unsure")}

\* Some processes fall back on the heuristic, some do not.
WithAndWithout == {{"model"}, {"model", "heuristic"}}

Symmetry == Permutations(Sessions) \cup Permutations(Writers)
=============================================================================
