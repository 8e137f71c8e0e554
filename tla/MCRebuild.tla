----------------------------- MODULE MCRebuild ------------------------------
(* Every small schema for the plan: self-references, cycles and names that no
   table has among them.  For its execution, the schema of two lookups and an
   entity's table, and the files an operator may upload: a dump of the source,
   half of one, an archive of it, and a backup of the target. *)
EXTENDS Rebuild, TLC

CONSTANTS MaxFks, s1, s2

SmallSchemas ==
    {[known |-> k, fks |-> f] :
        k \in SUBSET TableNames,
        f \in {g \in SUBSET (TableNames \X TableNames) : Cardinality(g) =< MaxFks}}

\* Only tables of the schema have foreign keys.
ParsedSchemas == {s \in SmallSchemas : \A fk \in s.fks : fk[1] \in s.known}

\* The station hangs on one lookup, and that on another.
Canonical == [known |-> {1, 2, 3}, fks |-> {<<2, 3>>, <<3, 1>>, <<2, 2>>}]

NoRows == [t \in {} |-> {}]

WholeTarget == [t \in 1..NTables |-> IF t \in Lookups THEN {[no |-> 0, of |-> "ddl"]} ELSE {}]

SomeUploads ==
    {[head |-> "SQL", irimsv |-> TRUE, whole |-> w, rows |-> NoRows] : w \in BOOLEAN}
    \cup {[head |-> "PGDMP", irimsv |-> TRUE, whole |-> TRUE, rows |-> NoRows],
          [head |-> "SQL", irimsv |-> FALSE, whole |-> TRUE, rows |-> WholeTarget]}

Symmetry == Permutations(Sessions)
=============================================================================
