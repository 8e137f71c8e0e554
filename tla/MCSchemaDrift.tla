--------------------------- MODULE MCSchemaDrift ----------------------------
(* A small instance of SchemaDrift: two entities that share a table. *)
EXTENDS SchemaDrift, TLC

SharedTable == (1 :> {"t"}) @@ (2 :> {"t", "u"})
Symmetry    == Permutations(Sessions)
=============================================================================
