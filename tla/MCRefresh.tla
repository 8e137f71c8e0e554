----------------------------- MODULE MCRefresh -----------------------------
(* Small instances of Refresh: source rows of two entities that share a table,
   and of a third that has its own. *)
EXTENDS Refresh, TLC

CONSTANTS a1, b1, c1

OnePerEntity == (a1 :> 1) @@ (b1 :> 2) @@ (c1 :> 3)
SharedAndOwn == [e \in Entities |-> IF e = 3 THEN "u" ELSE "t"]
=============================================================================
