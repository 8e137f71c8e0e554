---------------------------- MODULE MCSourceSwap ----------------------------
(* A small instance of SourceSwap: one column changes its type as another comes
   or goes. *)
EXTENDS SourceSwap, TLC

TwoColumns == {Missing, ("a" :> "int") @@ ("b" :> "int"), "a" :> "text"}
Symmetry   == Permutations(Sessions)
=============================================================================
