------------------------------ MODULE Registry ------------------------------
(***************************************************************************)
(* The plan a rebuild of the target is made from: LrmisRegistry orders     *)
(* tables parents first (topological_order) and finds the lookup tables    *)
(* the pipeline's inserts point at (station_write_set, fk_closure,         *)
(* seed_tables).  Both are loops over the foreign-key graph of a DDL file  *)
(* or of a discovered database; one step here is one turn of a loop.       *)
(*                                                                         *)
(* A table is a number: its name's place in the alphabet.  Columns and     *)
(* types are left out; a foreign key is the pair of its table and the      *)
(* table it names, which need not be in the schema.                        *)
(***************************************************************************)
EXTENDS Integers, Sequences, FiniteSets

CONSTANTS
    TableNames,         \* every table name
    station,        \* the one of them that school rows hang on
    Schemas         \* the schemas that can be parsed or discovered

ASSUME TablesAssumption ==
    /\ TableNames \subseteq Int
    /\ IsFiniteSet(TableNames)
    /\ station \in TableNames

ASSUME SchemasAssumption ==
    Schemas \subseteq [known : SUBSET TableNames, fks : SUBSET (TableNames \X TableNames)]

VARIABLES
    schema,     \* the tables of the registry and their foreign keys
    names,      \* the tables to be ordered: all of them, or a subset
    indegree,   \* parents still to come, of each of names
    queue,      \* tables without one, in the order of their names
    ordered,    \* the result so far
    writeSet,   \* the tables a school row fans out into
    seen,       \* tables reached from the write set
    frontier,   \* tables whose foreign keys are still to be followed
    pc          \* "validate", "order", "close"; "cycle", "unknown", "done"

orderVars == <<names, indegree, queue, ordered>>
seedVars  == <<writeSet, seen, frontier>>
vars == <<schema, orderVars, seedVars, pc>>

Ended == {"cycle", "unknown", "done"}

TypeOK ==
    /\ schema \in Schemas
    /\ names \subseteq TableNames
    /\ indegree \in [names -> Nat]
    /\ queue \subseteq names
    /\ ordered \in Seq(names)
    /\ writeSet \subseteq TableNames
    /\ seen \subseteq TableNames
    /\ frontier \subseteq TableNames
    /\ pc \in {"validate", "order", "close"} \cup Ended

\* get_parent_tables: what a table's foreign keys name, other than itself.
ParentTables(t) == {p \in TableNames : <<t, p>> \in schema.fks /\ p # t}

\* get_referencing_tables.
ReferencingTables(t) == {c \in schema.known : <<c, t>> \in schema.fks /\ c # t}

\* The parents a table waits for, and the tables that wait for it: foreign
\* keys out of the subset do not count, nor does a self-reference.
ParentsIn(t) == ParentTables(t) \cap names
ChildrenIn(t) == {c \in names : t \in ParentsIn(c)}

Placed == {ordered[i] : i \in DOMAIN ordered}

\* list(self._tables), or the subset a caller asks for.
Init ==
    /\ schema \in Schemas
    /\ names \in SUBSET TableNames
    /\ indegree = [t \in names |-> 0]
    /\ queue = {}
    /\ ordered = <<>>
    /\ writeSet = {}
    /\ seen = {}
    /\ frontier = {}
    /\ pc = "validate"

-----------------------------------------------------------------------------
(* topological_order *)

\* get_table raises KeyError for a name the schema does not have.
RejectNames ==
    /\ pc = "validate"
    /\ ~(names \subseteq schema.known)
    /\ pc' = "unknown"
    /\ UNCHANGED <<schema, orderVars, seedVars>>

\* The graph is built; tables without a parent go first.
BuildGraph ==
    /\ pc = "validate"
    /\ names \subseteq schema.known
    /\ indegree' = [t \in names |-> Cardinality(ParentsIn(t))]
    /\ queue' = {t \in names : ParentsIn(t) = {}}
    /\ pc' = "order"
    /\ UNCHANGED <<schema, names, ordered, seedVars>>

\* Mutation: a table is let go with its first parent.
Released_Early(t) == ChildrenIn(t)

\* The children that waited for this table only.
Released(t) == {c \in ChildrenIn(t) : indegree[c] = 1}

\* The first name in the queue is placed.
PlaceNext(t) ==
    /\ pc = "order"
    /\ t \in queue
    /\ \A u \in queue : t =< u
    /\ ordered' = Append(ordered, t)
    /\ indegree' = [c \in names |-> IF c \in ChildrenIn(t) THEN indegree[c] - 1
                                    ELSE indegree[c]]
    /\ queue' = (queue \ {t}) \cup Released(t)
    /\ UNCHANGED <<schema, names, seedVars, pc>>

\* Something is left over: SchemaCycleError.
RaiseCycle ==
    /\ pc = "order"
    /\ queue = {}
    /\ Len(ordered) # Cardinality(names)
    /\ pc' = "cycle"
    /\ UNCHANGED <<schema, orderVars, seedVars>>

-----------------------------------------------------------------------------
(* seed_tables(station_write_set()) *)

\* station and every table that references it; their foreign keys come first.
StartClosure ==
    /\ pc = "order"
    /\ queue = {}
    /\ Len(ordered) = Cardinality(names)
    /\ writeSet' = {station} \cup ReferencingTables(station)
    /\ frontier' = writeSet'
    /\ pc' = "close"
    /\ UNCHANGED <<schema, orderVars, seen>>

\* Mutation: the parents of the write set only.
NewFrontier_Direct(t) == frontier \ {t}

\* A table that was not seen yet is followed in its turn.
NewFrontier(t) == (frontier \ {t}) \cup (ParentTables(t) \ seen)

\* fk_closure: one of them, in the order of a hash set.
FollowKeys(t) ==
    /\ pc = "close"
    /\ t \in frontier
    /\ t \in schema.known
    /\ seen' = seen \cup ParentTables(t)
    /\ frontier' = NewFrontier(t)
    /\ UNCHANGED <<schema, orderVars, writeSet, pc>>

\* KeyError: a foreign key leads to a table the schema does not have.
MeetUnknown(t) ==
    /\ pc = "close"
    /\ t \in frontier
    /\ t \notin schema.known
    /\ pc' = "unknown"
    /\ UNCHANGED <<schema, orderVars, seedVars>>

EndClosure ==
    /\ pc = "close"
    /\ frontier = {}
    /\ pc' = "done"
    /\ UNCHANGED <<schema, orderVars, seedVars>>

\* seed_tables.
SeedTables == seen \ writeSet

-----------------------------------------------------------------------------
(* The specification *)

Next ==
    \/ RejectNames \/ BuildGraph \/ RaiseCycle
    \/ \E t \in TableNames : PlaceNext(t) \/ FollowKeys(t) \/ MeetUnknown(t)
    \/ StartClosure \/ EndClosure

Spec == Init /\ [][Next]_vars

-----------------------------------------------------------------------------
(* Properties *)

\* Among the tables asked for, a table comes after every table its foreign
\* keys name, and comes once (topological_order: the writers fill in a foreign
\* key from the row they wrote before, create_target_ddl creates the parents
\* first, delete_entity_rows goes backwards).
ParentsFirst ==
    \A i \in DOMAIN ordered :
        /\ \A p \in ParentTables(ordered[i]) \cap names :
              \E j \in DOMAIN ordered : j < i /\ ordered[j] = p
        /\ \A j \in DOMAIN ordered : ordered[j] = ordered[i] => j = i

\* The order leaves a table out only when SchemaCycleError is raised, and then
\* what it leaves out is a cycle with what hangs on it: each of those tables
\* has another one of them for a parent.  A self-reference is no cycle.
CycleOrComplete ==
    /\ pc \in {"close", "done"} => Placed = names
    /\ pc = "cycle" =>
          /\ names \ Placed # {}
          /\ \A t \in names \ Placed :
                \E p \in names \ Placed : p # t /\ <<t, p>> \in schema.fks

\* What the callers of topological_order rely on (lrmis_writer, delivery.writer,
\* recreate_target_database): both of these.
OrderIsSound == ParentsFirst /\ CycleOrComplete

\* Every foreign key that starts at a written or seeded table leads to one, or
\* to itself, and no table is seeded that need not be: fk_closure is the least
\* such set (seed_tables: what the pipeline's inserts need to find).
SeedsSuffice ==
    /\ pc = "done" =>
          \A t \in writeSet \cup SeedTables, p \in TableNames :
              <<t, p>> \in schema.fks => p \in writeSet \cup SeedTables \cup {t}
    /\ \A C \in SUBSET TableNames :
          (\A t \in writeSet \cup C, p \in TableNames :
              <<t, p>> \in schema.fks /\ p # t => p \in C) => seen \subseteq C
=============================================================================
