---------------------------- MODULE RebuildProofs ----------------------------
(***************************************************************************)
(* Proofs about the plan of a rebuild and about the work on the target,    *)
(* for every set of table names, every schema over them, any number of     *)
(* sessions, and any bounds.                                               *)
(*                                                                         *)
(* The plan: topological_order keeps two facts about its counters          *)
(* (CountsParents, QueueIsReady), from which the order and the meaning of  *)
(* a cycle error follow; fk_closure keeps that what it has followed leads  *)
(* to what it has seen (ClosedBehind).                                     *)
(*                                                                         *)
(* The target (TargetInv): FilesInv says what a dump has written of what   *)
(* its transaction sees, and that nobody else writes a file that two runs  *)
(* did not open in one second; Building,                                   *)
(* Redelivering and Restoring say how far an operation that nothing        *)
(* disturbs has come; Covered says that whatever is missing of the target  *)
(* while operations overlap, one of them is still going to make.  A step   *)
(* of one session leaves the others as they are (Same), so each part is    *)
(* proved for the session that moves.                                      *)
(***************************************************************************)
EXTENDS Rebuild, FiniteSetTheorems, WellFoundedInduction, TLAPS

-----------------------------------------------------------------------------
(* The plan: its invariants *)

\* Nothing is placed before the graph is built, and nothing seen before the
\* order is complete.
NotYet ==
    /\ pc = "validate" => ordered = <<>>
    /\ pc \in {"validate", "order", "cycle"} => seen = {}

\* A table is placed once: the order is as long as the set is large.
PlacedOnce ==
    /\ \A i, j \in DOMAIN ordered : ordered[i] = ordered[j] => i = j
    /\ Len(ordered) = Cardinality(Placed)

\* The counter of a table is the number of its parents still to come.
CountsParents ==
    pc = "order" => \A c \in names : indegree[c] = Cardinality(ParentsIn(c) \ Placed)

\* The queue holds the tables whose turn it may be.
QueueIsReady ==
    pc = "order" => \A c \in names :
        c \in queue <=> c \notin Placed /\ ParentsIn(c) \subseteq Placed

OrderInv == TypeOK /\ NotYet /\ PlacedOnce /\ CountsParents /\ QueueIsReady /\ ParentsFirst

\* Whatever has been followed leads to tables that have been seen.
ClosedBehind ==
    /\ pc = "close" =>
          /\ frontier \subseteq writeSet \cup seen
          /\ \A t \in (writeSet \cup seen) \ frontier : ParentTables(t) \subseteq seen
    /\ pc = "done" => \A t \in writeSet \cup seen : ParentTables(t) \subseteq seen

\* Nothing is seen that is not in every set closed under foreign keys.
SeenIsNeeded ==
    \A C \in SUBSET TableNames :
        (\A t \in writeSet \cup C, p \in TableNames :
            <<t, p>> \in schema.fks /\ p # t => p \in C) => seen \subseteq C

SeedInv == ClosedBehind /\ SeenIsNeeded

-----------------------------------------------------------------------------
(* Types and sequences *)

USE TablesAssumption, SchemasAssumption

\* A subset of the table names is finite, and its size a natural number.
LEMMA Finite ==
    ASSUME NEW S, S \subseteq TableNames
    PROVE  IsFiniteSet(S) /\ Cardinality(S) \in Nat
BY FS_Subset, FS_CardinalityType

\* Appending adds one member to what a sequence holds.
LEMMA AppendAdds ==
    ASSUME NEW S, NEW s \in Seq(S), NEW t \in S
    PROVE  /\ Append(s, t) \in Seq(S)
           /\ Len(Append(s, t)) = Len(s) + 1
           /\ DOMAIN s = 1..Len(s)
           /\ DOMAIN Append(s, t) = 1..(Len(s) + 1)
           /\ \A i \in 1..Len(s) : Append(s, t)[i] = s[i]
           /\ Append(s, t)[Len(s) + 1] = t
           /\ {Append(s, t)[i] : i \in DOMAIN Append(s, t)} = {s[i] : i \in DOMAIN s} \cup {t}
OBVIOUS

\* Nothing is ordered at first: of the right types.
LEMMA TypeInit == Init => TypeOK
<1> SUFFICES ASSUME Init PROVE TypeOK
  OBVIOUS
<1>1. names \subseteq TableNames
  BY DEF Init
<1>2. <<>> \in Seq(names)
  OBVIOUS
<1>3. QED
  BY <1>1, <1>2 DEF Init, TypeOK, Ended

\* Every turn of a loop keeps the types.
LEMMA TypeStep == OrderInv /\ [Next]_vars => TypeOK'
<1> SUFFICES ASSUME OrderInv, [Next]_vars PROVE TypeOK'
  OBVIOUS
<1> USE DEF TypeOK, Ended, orderVars, seedVars
<1>0. TypeOK
  BY DEF OrderInv
<1>1. CASE RejectNames
  BY <1>0, <1>1 DEF RejectNames
<1>2. CASE BuildGraph
  <2>1. \A c \in names : Cardinality(ParentsIn(c)) \in Nat
    BY <1>0, Finite DEF ParentsIn
  <2>2. QED
    BY <1>0, <1>2, <2>1 DEF BuildGraph
<1>3. CASE RaiseCycle
  BY <1>0, <1>3 DEF RaiseCycle
<1>4. ASSUME NEW t \in TableNames, PlaceNext(t) PROVE TypeOK'
  <2>1. t \in names /\ ordered' \in Seq(names)
    BY <1>0, <1>4 DEF PlaceNext
  <2>2. ASSUME NEW c \in ChildrenIn(t) PROVE indegree[c] - 1 \in Nat
    <3>1. c \in names /\ t \in ParentsIn(c) \ Placed
      BY <1>4 DEF PlaceNext, ChildrenIn, OrderInv, QueueIsReady
    <3>2. IsFiniteSet(ParentsIn(c) \ Placed)
      BY Finite, <1>0 DEF ParentsIn
    <3>3. Cardinality(ParentsIn(c) \ Placed) # 0
      BY <3>1, <3>2, FS_EmptySet
    <3>4. indegree[c] = Cardinality(ParentsIn(c) \ Placed)
      BY <3>1, <1>4 DEF PlaceNext, OrderInv, CountsParents
    <3>5. indegree[c] \in Nat
      BY <3>1, <1>0
    <3>6. QED
      BY <3>3, <3>4, <3>5
  <2>3. indegree' \in [names -> Nat]
    BY <1>0, <1>4, <2>2 DEF PlaceNext
  <2>4. queue' \subseteq names
    BY <1>0, <1>4 DEF PlaceNext, Released, ChildrenIn
  <2>5. QED
    BY <1>0, <1>4, <2>1, <2>3, <2>4 DEF PlaceNext
<1>5. CASE StartClosure
  <2>1. schema.known \subseteq TableNames
    BY <1>0
  <2>2. QED
    BY <1>0, <1>5, <2>1 DEF StartClosure, ReferencingTables
<1>6. ASSUME NEW t \in TableNames, FollowKeys(t) PROVE TypeOK'
  BY <1>0, <1>6 DEF FollowKeys, NewFrontier, ParentTables
<1>7. ASSUME NEW t \in TableNames, MeetUnknown(t) PROVE TypeOK'
  BY <1>0, <1>7 DEF MeetUnknown
<1>8. CASE EndClosure
  BY <1>0, <1>8 DEF EndClosure
<1>9. CASE UNCHANGED vars
  BY <1>0, <1>9 DEF vars
<1>10. QED
  BY <1>1, <1>2, <1>3, <1>4, <1>5, <1>6, <1>7, <1>8, <1>9 DEF Next

-----------------------------------------------------------------------------
(* topological_order *)

\* Before the graph is built every part holds of nothing.
LEMMA OrderInit == Init => OrderInv
<1> SUFFICES ASSUME Init PROVE OrderInv
  OBVIOUS
<1>1. Placed = {}
  BY DEF Init, Placed
<1>2. Cardinality({}) = 0
  BY FS_EmptySet
<1>3. QED
  BY <1>1, <1>2, TypeInit DEF Init, OrderInv, NotYet, PlacedOnce, CountsParents, QueueIsReady,
       ParentsFirst

\* The graph is built: the counter of a table is the number of its parents.
LEMMA OrderBuild == OrderInv /\ TypeOK' /\ BuildGraph => OrderInv'
<1> SUFFICES ASSUME OrderInv, TypeOK', BuildGraph PROVE OrderInv'
  OBVIOUS
<1> USE DEF OrderInv, BuildGraph
<1>1. ordered = <<>> /\ ordered' = <<>>
  BY DEF NotYet
<1>2. Placed = {} /\ Placed' = {}
  BY <1>1 DEF Placed
<1>3. \A t : ParentsIn(t)' = ParentsIn(t)
  BY DEF ParentsIn, ParentTables
<1>4. PlacedOnce' /\ NotYet' /\ ParentsFirst'
  BY <1>1, <1>2, FS_EmptySet DEF PlacedOnce, NotYet, ParentsFirst, seedVars
<1>5. CountsParents'
  BY <1>2, <1>3 DEF CountsParents
<1>6. QueueIsReady'
  BY <1>2, <1>3 DEF QueueIsReady
<1>7. QED
  BY <1>4, <1>5, <1>6

\* A table leaves the queue: its children wait for one table less.
LEMMA OrderPlace ==
    ASSUME OrderInv, TypeOK', NEW t \in TableNames, PlaceNext(t)
    PROVE  OrderInv'
<1> USE DEF OrderInv
<1>0. t \in names /\ t \notin Placed /\ ParentsIn(t) \subseteq Placed /\ pc = "order"
  BY DEF PlaceNext, TypeOK, QueueIsReady
<1>1. /\ ordered' = Append(ordered, t)
      /\ ordered \in Seq(names)
      /\ names' = names /\ schema' = schema
  BY DEF PlaceNext, TypeOK
<1>2. /\ Placed' = Placed \cup {t}
      /\ Len(ordered') = Len(ordered) + 1
      /\ DOMAIN ordered = 1..Len(ordered)
      /\ DOMAIN ordered' = 1..(Len(ordered) + 1)
      /\ \A i \in 1..Len(ordered) : ordered'[i] = ordered[i]
      /\ ordered'[Len(ordered) + 1] = t
  BY <1>0, <1>1, AppendAdds DEF Placed
<1>3. Len(ordered) \in Nat /\ \A i \in 1..Len(ordered) : ordered[i] \in Placed
  BY <1>1, <1>2 DEF Placed
<1>4. Placed \subseteq names /\ names \subseteq TableNames
  BY <1>1 DEF Placed, TypeOK
<1>5. \A c : ParentsIn(c)' = ParentsIn(c) /\ ParentTables(c)' = ParentTables(c)
  BY <1>1 DEF ParentsIn, ParentTables
<1>6. NotYet'
  BY <1>0 DEF NotYet, PlaceNext, seedVars
<1>7. PlacedOnce'
  <2>1. \A i, j \in DOMAIN ordered' : ordered'[i] = ordered'[j] => i = j
    BY <1>0, <1>2, <1>3 DEF PlacedOnce
  <2>2. Cardinality(Placed') = Cardinality(Placed) + 1
    BY <1>0, <1>2, <1>4, Finite, FS_AddElement
  <2>3. QED
    BY <1>2, <2>1, <2>2 DEF PlacedOnce
<1>8. CountsParents'
  <2> SUFFICES ASSUME NEW c \in names
               PROVE  indegree'[c] = Cardinality(ParentsIn(c) \ Placed')
    BY <1>0, <1>1, <1>5 DEF CountsParents
  <2>1. IsFiniteSet(ParentsIn(c) \ Placed) /\ Cardinality(ParentsIn(c) \ Placed) \in Nat
    BY Finite, <1>4 DEF ParentsIn
  <2>2. indegree[c] = Cardinality(ParentsIn(c) \ Placed)
    BY <1>0 DEF CountsParents
  <2>3. CASE t \in ParentsIn(c)
    <3>1. ParentsIn(c) \ Placed' = (ParentsIn(c) \ Placed) \ {t}
      BY <1>2
    <3>2. t \in ParentsIn(c) \ Placed
      BY <1>0, <2>3
    <3>3. indegree'[c] = indegree[c] - 1
      BY <2>3 DEF PlaceNext, ChildrenIn
    <3>4. Cardinality((ParentsIn(c) \ Placed) \ {t}) = Cardinality(ParentsIn(c) \ Placed) - 1
      BY <2>1, <3>2, FS_RemoveElement
    <3>5. QED
      BY <2>2, <3>1, <3>3, <3>4
  <2>4. CASE t \notin ParentsIn(c)
    <3>1. ParentsIn(c) \ Placed' = ParentsIn(c) \ Placed
      BY <1>2, <2>4
    <3>2. indegree'[c] = indegree[c]
      BY <2>4 DEF PlaceNext, ChildrenIn
    <3>3. QED
      BY <2>2, <3>1, <3>2
  <2>5. QED
    BY <2>3, <2>4
<1>9. QueueIsReady'
  <2> SUFFICES ASSUME NEW c \in names
               PROVE  c \in queue' <=> c \notin Placed' /\ ParentsIn(c) \subseteq Placed'
    BY <1>0, <1>1, <1>5 DEF QueueIsReady
  <2>1. c \in queue <=> c \notin Placed /\ ParentsIn(c) \subseteq Placed
    BY <1>0 DEF QueueIsReady
  <2>2. queue' = (queue \ {t}) \cup Released(t)
    BY DEF PlaceNext
  <2>3. t \notin ParentsIn(t)
    BY DEF ParentsIn, ParentTables
  <2>4. CASE t \notin ParentsIn(c)
    <3>1. c \notin Released(t)
      BY <2>4 DEF Released, ChildrenIn
    <3>2. QED
      BY <1>0, <1>2, <2>1, <2>2, <2>4, <3>1
  <2>5. CASE t \in ParentsIn(c)
    <3>1. c \notin queue /\ c # t
      BY <1>0, <2>1, <2>3, <2>5
    <3>2. c \notin Placed
      <4>1. ASSUME NEW i \in DOMAIN ordered, ordered[i] = c PROVE FALSE
        <5>1. t \in ParentTables(ordered[i]) \cap names
          BY <2>5, <4>1 DEF ParentsIn
        <5>2. \E j \in DOMAIN ordered : j < i /\ ordered[j] = t
          BY <5>1 DEF ParentsFirst
        <5>3. QED
          BY <5>2, <1>0, <1>2, <1>3
      <4>2. QED
        BY <4>1 DEF Placed
    <3>3. c \in queue' <=> indegree[c] = 1
      BY <2>2, <2>5, <3>1 DEF Released, ChildrenIn
    <3>4. /\ IsFiniteSet(ParentsIn(c) \ Placed)
          /\ indegree[c] = Cardinality(ParentsIn(c) \ Placed)
          /\ t \in ParentsIn(c) \ Placed
      BY Finite, <1>0, <1>4, <2>5 DEF ParentsIn, CountsParents
    <3>5. indegree[c] = 1 <=> ParentsIn(c) \ Placed = {t}
      BY <3>4, FS_Singleton
    <3>6. ParentsIn(c) \ Placed = {t} <=> ParentsIn(c) \subseteq Placed \cup {t}
      BY <3>4
    <3>7. QED
      BY <1>2, <3>1, <3>2, <3>3, <3>5, <3>6
  <2>6. QED
    BY <2>4, <2>5
<1>10. ParentsFirst'
  <2> SUFFICES ASSUME NEW i \in DOMAIN ordered'
               PROVE  /\ \A p \in ParentsIn(ordered'[i]) :
                           \E j \in DOMAIN ordered' : j < i /\ ordered'[j] = p
                      /\ \A j \in DOMAIN ordered' : ordered'[j] = ordered'[i] => j = i
    BY <1>1, <1>5 DEF ParentsFirst, ParentsIn
  <2>1. \A j \in DOMAIN ordered' : ordered'[j] = ordered'[i] => j = i
    BY <1>7 DEF PlacedOnce
  <2>2. CASE i \in 1..Len(ordered)
    <3>1. \A p \in ParentsIn(ordered[i]) : \E j \in DOMAIN ordered : j < i /\ ordered[j] = p
      BY <1>2, <2>2 DEF ParentsFirst, ParentsIn
    <3>2. QED
      BY <1>2, <1>3, <2>1, <2>2, <3>1
  <2>3. CASE i = Len(ordered) + 1
    <3>1. \A p \in ParentsIn(t) : \E j \in DOMAIN ordered : ordered[j] = p
      BY <1>0 DEF Placed
    <3>2. \A p \in ParentsIn(t) : \E j \in DOMAIN ordered' : j < i /\ ordered'[j] = p
      BY <1>2, <1>3, <2>3, <3>1
    <3>3. QED
      BY <1>2, <2>1, <2>3, <3>2
  <2>4. QED
    BY <1>2, <1>3, <2>2, <2>3
<1>11. QED
  BY <1>6, <1>7, <1>8, <1>9, <1>10

\* The other steps place nothing.
LEMMA OrderKept ==
    ASSUME OrderInv, TypeOK', UNCHANGED <<schema, names, indegree, queue, ordered>>,
           pc' \in {"order", "validate"} => pc' = pc,
           pc' \in {"validate", "order", "cycle"} => seen' = {}
    PROVE  OrderInv'
<1> USE DEF OrderInv
<1>1. Placed' = Placed
  BY DEF Placed
<1>2. \A t : ParentsIn(t)' = ParentsIn(t) /\ ParentTables(t)' = ParentTables(t)
  BY DEF ParentsIn, ParentTables
<1>3. NotYet' /\ PlacedOnce' /\ ParentsFirst'
  BY <1>1, <1>2 DEF NotYet, PlacedOnce, ParentsFirst
<1>4. CountsParents' /\ QueueIsReady'
  BY <1>1, <1>2 DEF CountsParents, QueueIsReady
<1>5. QED
  BY <1>3, <1>4

\* OrderInv is inductive.
LEMMA OrderStep == OrderInv /\ [Next]_vars => OrderInv'
<1> SUFFICES ASSUME OrderInv, [Next]_vars PROVE OrderInv'
  OBVIOUS
<1> USE DEF orderVars, seedVars
<1>1. TypeOK'
  BY TypeStep
<1>2. NotYet
  BY DEF OrderInv
<1>3. CASE RejectNames
  BY <1>1, <1>3, OrderKept DEF RejectNames
<1>4. CASE BuildGraph
  BY <1>1, <1>4, OrderBuild
<1>5. CASE RaiseCycle
  BY <1>1, <1>2, <1>5, OrderKept DEF RaiseCycle, NotYet
<1>6. ASSUME NEW t \in TableNames, PlaceNext(t) PROVE OrderInv'
  BY <1>1, <1>6, OrderPlace
<1>7. CASE StartClosure
  BY <1>1, <1>7, OrderKept DEF StartClosure
<1>8. ASSUME NEW t \in TableNames, FollowKeys(t) PROVE OrderInv'
  BY <1>1, <1>8, OrderKept DEF FollowKeys
<1>9. ASSUME NEW t \in TableNames, MeetUnknown(t) PROVE OrderInv'
  BY <1>1, <1>9, OrderKept DEF MeetUnknown
<1>10. CASE EndClosure
  BY <1>1, <1>10, OrderKept DEF EndClosure
<1>11. CASE UNCHANGED vars
  BY <1>1, <1>2, <1>11, OrderKept DEF vars, NotYet
<1>12. QED
  BY <1>3, <1>4, <1>5, <1>6, <1>7, <1>8, <1>9, <1>10, <1>11 DEF Next

\* Every order topological_order makes, whole or partial, of any subset of any
\* schema, has parents before children and no table twice.
THEOREM ParentsComeFirst == Spec => []ParentsFirst
<1>1. OrderInv => ParentsFirst
  BY DEF OrderInv
<1>2. QED
  BY OrderInit, OrderStep, <1>1, PTL DEF Spec

-----------------------------------------------------------------------------
(* The cycle error *)

\* An order as long as the set of names has all of them.
LEMMA LongIsComplete ==
    ASSUME OrderInv, Len(ordered) = Cardinality(names) PROVE Placed = names
<1>0. names \subseteq TableNames /\ ordered \in Seq(names)
  BY DEF OrderInv, TypeOK
<1>1. Placed \subseteq names /\ IsFiniteSet(names)
  <2>1. Placed \subseteq names
    BY <1>0 DEF Placed
  <2>2. QED
    BY <1>0, <2>1, Finite
<1>2. Cardinality(Placed) = Cardinality(names)
  BY DEF OrderInv, PlacedOnce
<1>3. QED
  BY <1>1, <1>2, FS_Subset

\* The steps that judge the order judge it rightly, and the others keep it.
LEMMA CycleStep ==
    OrderInv /\ OrderInv' /\ CycleOrComplete /\ [Next]_vars => CycleOrComplete'
<1> SUFFICES ASSUME OrderInv, OrderInv', CycleOrComplete, [Next]_vars PROVE CycleOrComplete'
  OBVIOUS
<1> USE DEF orderVars, seedVars
<1>0. ASSUME UNCHANGED <<schema, names, ordered>>, pc' \in {"unknown", "order", "validate"}
      PROVE  CycleOrComplete'
  BY <1>0 DEF CycleOrComplete
<1>1. ASSUME UNCHANGED <<schema, names, ordered>>,
             pc' = pc \/ (pc' \in {"close", "done"} /\ pc \in {"close", "done"})
      PROVE  CycleOrComplete'
  <2>1. Placed' = Placed
    BY <1>1 DEF Placed
  <2>2. QED
    BY <1>1, <2>1 DEF CycleOrComplete
<1>2. CASE RejectNames
  BY <1>0, <1>2 DEF RejectNames
<1>3. CASE BuildGraph
  BY <1>0, <1>3 DEF BuildGraph
<1>4. CASE RaiseCycle
  <2>1. Placed' = Placed /\ names' = names /\ schema' = schema /\ pc' = "cycle"
    BY <1>4 DEF RaiseCycle, Placed
  <2>2. Placed \subseteq names /\ pc = "order" /\ queue = {}
    BY <1>4 DEF RaiseCycle, OrderInv, TypeOK, Placed
  <2>3. Placed # names
    BY <1>4 DEF RaiseCycle, OrderInv, PlacedOnce
  <2>4. ASSUME NEW t \in names \ Placed
        PROVE  \E p \in names \ Placed : p # t /\ <<t, p>> \in schema.fks
    <3>1. ~(ParentsIn(t) \subseteq Placed)
      BY <2>2, <2>4 DEF OrderInv, QueueIsReady
    <3>2. QED
      BY <3>1 DEF ParentsIn, ParentTables
  <2>5. QED
    BY <2>1, <2>2, <2>3, <2>4 DEF CycleOrComplete
<1>5. ASSUME NEW t \in TableNames, PlaceNext(t) PROVE CycleOrComplete'
  BY <1>5 DEF PlaceNext, CycleOrComplete
<1>6. CASE StartClosure
  <2>1. Placed' = Placed /\ names' = names /\ pc' = "close"
    BY <1>6 DEF StartClosure, Placed
  <2>2. Placed = names
    BY <1>6, LongIsComplete DEF StartClosure
  <2>3. QED
    BY <2>1, <2>2 DEF CycleOrComplete
<1>7. ASSUME NEW t \in TableNames, FollowKeys(t) PROVE CycleOrComplete'
  BY <1>1, <1>7 DEF FollowKeys
<1>8. ASSUME NEW t \in TableNames, MeetUnknown(t) PROVE CycleOrComplete'
  BY <1>0, <1>8 DEF MeetUnknown
<1>9. CASE EndClosure
  BY <1>1, <1>9 DEF EndClosure
<1>10. CASE UNCHANGED vars
  BY <1>1, <1>10 DEF vars
<1>11. QED
  BY <1>2, <1>3, <1>4, <1>5, <1>6, <1>7, <1>8, <1>9, <1>10 DEF Next

\* SchemaCycleError is raised for a schema whose foreign keys go round among
\* the tables asked for, self-references apart, and for no other.
THEOREM CyclesAreReported == Spec => []CycleOrComplete
<1>1. Init => CycleOrComplete
  BY DEF Init, CycleOrComplete
<1>2. QED
  BY OrderInit, OrderStep, CycleStep, <1>1, PTL DEF Spec

\* topological_order: parents first, and complete but for the cycles it reports.
THEOREM OrderSound == Spec => []OrderIsSound
<1>1. ParentsFirst /\ CycleOrComplete => OrderIsSound
  BY DEF OrderIsSound
<1>2. QED
  BY ParentsComeFirst, CyclesAreReported, <1>1, PTL

-----------------------------------------------------------------------------
(* seed_tables *)

\* Following a table's foreign keys keeps what is behind closed and needed.
LEMMA SeedFollow ==
    ASSUME TypeOK, SeedInv, NEW t \in TableNames, FollowKeys(t) PROVE SeedInv'
<1> USE DEF SeedInv, FollowKeys, orderVars
<1>1. /\ schema' = schema /\ writeSet' = writeSet /\ pc' = "close" /\ pc = "close"
      /\ seen' = seen \cup ParentTables(t)
      /\ frontier' = (frontier \ {t}) \cup (ParentTables(t) \ seen)
  BY DEF NewFrontier
<1>2. \A u : ParentTables(u)' = ParentTables(u)
  BY <1>1 DEF ParentTables
<1>3. frontier' \subseteq writeSet' \cup seen'
  BY <1>1 DEF ClosedBehind
<1>4. ASSUME NEW u \in (writeSet' \cup seen') \ frontier' PROVE ParentTables(u) \subseteq seen'
  <2>1. u = t \/ u \in (writeSet \cup seen) \ frontier
    BY <1>1, <1>4
  <2>2. QED
    BY <1>1, <2>1 DEF ClosedBehind
<1>5. ClosedBehind'
  BY <1>1, <1>2, <1>3, <1>4 DEF ClosedBehind
<1>6. SeenIsNeeded'
  <2> SUFFICES ASSUME NEW C \in SUBSET TableNames,
                      \A u \in writeSet \cup C, p \in TableNames :
                          <<u, p>> \in schema.fks /\ p # u => p \in C
               PROVE  seen' \subseteq C
    BY <1>1 DEF SeenIsNeeded
  <2>1. seen \subseteq C
    BY DEF SeenIsNeeded
  <2>2. t \in writeSet \cup C
    BY <2>1, <1>1 DEF ClosedBehind
  <2>3. ParentTables(t) \subseteq C
    BY <2>2 DEF ParentTables
  <2>4. QED
    BY <1>1, <2>1, <2>3
<1>7. QED
  BY <1>5, <1>6

\* SeedInv is inductive relative to OrderInv.
LEMMA SeedStep == OrderInv /\ SeedInv /\ [Next]_vars => SeedInv'
<1> SUFFICES ASSUME OrderInv, SeedInv, [Next]_vars PROVE SeedInv'
  OBVIOUS
<1> USE DEF orderVars, seedVars
<1>0. TypeOK /\ NotYet
  BY DEF OrderInv
<1>1. ASSUME UNCHANGED <<schema, writeSet, seen, frontier>>,
             pc' \notin {"close", "done"} \/ pc' = pc
      PROVE  SeedInv'
  <2>1. \A u : ParentTables(u)' = ParentTables(u)
    BY <1>1 DEF ParentTables
  <2>2. QED
    BY <1>1, <2>1 DEF SeedInv, ClosedBehind, SeenIsNeeded
<1>2. CASE RejectNames
  BY <1>1, <1>2 DEF RejectNames
<1>3. CASE BuildGraph
  BY <1>1, <1>3 DEF BuildGraph
<1>4. CASE RaiseCycle
  BY <1>1, <1>4 DEF RaiseCycle
<1>5. ASSUME NEW t \in TableNames, PlaceNext(t) PROVE SeedInv'
  BY <1>1, <1>5 DEF PlaceNext
<1>6. CASE StartClosure
  <2>1. seen = {} /\ seen' = {} /\ frontier' = writeSet' /\ pc' = "close"
    BY <1>0, <1>6 DEF StartClosure, NotYet
  <2>2. QED
    BY <2>1 DEF SeedInv, ClosedBehind, SeenIsNeeded
<1>7. ASSUME NEW t \in TableNames, FollowKeys(t) PROVE SeedInv'
  BY <1>0, <1>7, SeedFollow
<1>8. ASSUME NEW t \in TableNames, MeetUnknown(t) PROVE SeedInv'
  BY <1>1, <1>8 DEF MeetUnknown
<1>9. CASE EndClosure
  <2>1. \A u : ParentTables(u)' = ParentTables(u)
    BY <1>9 DEF EndClosure, ParentTables
  <2>2. QED
    BY <1>9, <2>1 DEF EndClosure, SeedInv, ClosedBehind, SeenIsNeeded
<1>10. CASE UNCHANGED vars
  BY <1>1, <1>10 DEF vars
<1>11. QED
  BY <1>2, <1>3, <1>4, <1>5, <1>6, <1>7, <1>8, <1>9, <1>10 DEF Next

\* The seed tables of any schema close the write set under foreign keys, and
\* none of them can be left out.
THEOREM SeedsCloseTheWriteSet == Spec => []SeedsSuffice
<1>1. Init => SeedInv
  BY DEF Init, SeedInv, ClosedBehind, SeenIsNeeded
<1>2. SeedInv => SeedsSuffice
  <2> SUFFICES ASSUME SeedInv PROVE SeedsSuffice
    OBVIOUS
  <2>1. ASSUME pc = "done", NEW t \in writeSet \cup SeedTables, NEW p \in TableNames,
               <<t, p>> \in schema.fks
        PROVE  p \in writeSet \cup SeedTables \cup {t}
    BY <2>1 DEF SeedInv, ClosedBehind, SeedTables, ParentTables
  <2>2. QED
    BY <2>1 DEF SeedInv, SeenIsNeeded, SeedsSuffice
<1>3. QED
  BY OrderInit, OrderStep, SeedStep, <1>1, <1>2, PTL DEF Spec

-----------------------------------------------------------------------------
(* The work on the target: its inductive invariant *)

RebuildSteps == {"drop", "create", "tables", "truncate", "load"}
ReplaySteps  == {"replay", "fill"}

\* Where a session can be in an operation.
StepOf(o, k) ==
    \/ o = "none" /\ k = "idle"
    \/ o = "nightly" /\ k \in {"restore", "open", "connect", "dump", "deliver", "done"}
                                  \cup RebuildSteps
    \/ o = "reset" /\ k \in RebuildSteps \cup {"done"}
    \/ o = "restore_target" /\ k \in ReplaySteps \cup {"mark", "done"}
    \/ o = "restore_source" /\ k \in {"psql", "mark", "done"}
    \/ o = "upload" /\ k \in {"record", "done"}

\* What is known of each variable by itself: of the sessions, the databases and
\* the files.
SessionShapes ==
    /\ step \in [Sessions -> Target!Steps]
    /\ op \in [Sessions -> Operations \cup {"none"}]
    /\ todo \in [Sessions -> SUBSET Target!Tables]
    /\ file \in [Sessions -> Nat]
    /\ alone \in [Sessions -> BOOLEAN]
    /\ failed \in [Sessions -> BOOLEAN]
    /\ restored \in [Sessions -> BOOLEAN]
    /\ DOMAIN image = Sessions /\ image = [s \in Sessions |-> image[s]]

DatabaseShapes ==
    /\ DOMAIN crosswalk = Target!Entities /\ crosswalk = [e \in Target!Entities |-> crosswalk[e]]
    /\ created \in BOOLEAN
    /\ DOMAIN target \subseteq Target!Tables /\ target = [t \in DOMAIN target |-> target[t]]
    /\ ~created => target = Target!Nothing

IsFile(r) ==
    /\ r = [head |-> r.head, irimsv |-> r.irimsv, whole |-> r.whole, rows |-> r.rows]
    /\ DOMAIN r.rows \subseteq Target!Tables

FileShapes ==
    /\ starts \in Nat
    /\ \A f \in DOMAIN files : IsFile(files[f])

Shapes == SessionShapes /\ DatabaseShapes /\ FileShapes

Places ==
    \A s \in Sessions :
        /\ StepOf(op[s], step[s])
        /\ step[s] = "idle" => ~restored[s] /\ ~failed[s]
        /\ step[s] = "truncate" => todo[s] \subseteq Lookups /\ (todo[s] = {} => Lookups = {})

\* A session that is alone is the only one at work.
Alone == \A s, x \in Sessions : alone[s] /\ x # s => step[x] = "idle"

\* How far a rebuild has come that nothing disturbs.
Building(s) ==
    /\ step[s] = "create" => ~created
    /\ step[s] \in {"tables", "truncate", "load", "deliver", "done"} => created
    /\ step[s] = "tables" => DOMAIN target = Target!Tables \ todo[s]
    /\ step[s] \in {"truncate", "load", "deliver", "done"} => DOMAIN target = Target!Tables
    /\ step[s] \in {"tables", "truncate"} => \A t \in DOMAIN target : target[t] = {}
    /\ step[s] = "load" =>
          /\ todo[s] \subseteq Lookups
          /\ \A t \in Lookups \ todo[s] : target[t] = {Target!Seed}
          /\ \A t \in Target!Entities \cup todo[s] : target[t] = {}
    /\ step[s] \in {"deliver", "done"} => \A t \in Lookups : target[t] = {Target!Seed}

\* And the delivery after it: what is there is what the crosswalk says.
Redelivering(s) ==
    /\ step[s] = "deliver" =>
          /\ todo[s] \subseteq Target!Entities
          /\ \A e \in todo[s] : target[e] = {}
    /\ step[s] = "done" => todo[s] = {}
    /\ step[s] \in {"deliver", "done"} /\ ~failed[s] =>
          \A e \in Target!Entities \ todo[s] :
              target[e] = {crosswalk[e]} /\ crosswalk[e].of = source
    /\ restored[s] => source = "fresh"

BuildInv ==
    \A s \in Sessions :
        alone[s] => /\ op[s] \in {"nightly", "reset"} => Building(s)
                    /\ op[s] = "nightly" => Redelivering(s)

\* How far a restore has come that nothing disturbs.
Restoring(s) ==
    /\ \A t \in DOMAIN image[s].rows \ todo[s] :
          t \in DOMAIN target /\ target[t] = image[s].rows[t]
    /\ step[s] = "fill" => target[Target!Min(todo[s])] = {}
    /\ step[s] \in {"mark", "done"} => todo[s] = {}
    /\ file[s] \in listed \ shared /\ image[s].whole => image[s].rows = taken[file[s]]

RestoreInv == \A s \in Sessions : alone[s] /\ op[s] = "restore_target" => Restoring(s)

Writers == {s \in Sessions : op[s] \in {"nightly", "upload"}}

\* No two operations write one file, but for the runs of one second, and none
\* begins with a file that was there.
Numbered ==
    /\ DOMAIN files \subseteq 1..(starts + 1)
    /\ listed \subseteq DOMAIN files
    /\ \A s \in Sessions : file[s] =< starts + 1
    /\ \A s \in Writers : file[s] >= 1
    /\ \A s, x \in Writers : file[s] = file[x] => s = x \/ file[s] \in shared
    /\ \A s \in Sessions : step[s] \in {"restore", "open"} => file[s] \notin DOMAIN files \cup shared
    /\ shared \subseteq 1..(starts + 1)

\* What a dump has written to a file of its own.
Written(s) ==
    /\ step[s] \in {"connect", "dump"} => file[s] \in listed
    /\ step[s] = "connect" => files[file[s]] = Target!NoFile
    /\ step[s] = "dump" =>
          /\ file[s] \in DOMAIN taken /\ taken[file[s]] = image[s].rows
          /\ files[file[s]] =
                [head |-> "SQL", irimsv |-> FALSE, whole |-> FALSE,
                 rows |-> [t \in DOMAIN image[s].rows \ todo[s] |-> image[s].rows[t]]]

\* What its transaction sees, and what it has written of that.
Dumping(s) ==
    /\ step[s] \in {"idle", "restore", "open", "connect"} => image[s] = Target!NoFile
    /\ step[s] = "dump" =>
          /\ DOMAIN image[s].rows \subseteq Target!Tables
          /\ image[s].rows = [t \in DOMAIN image[s].rows |-> image[s].rows[t]]
          /\ todo[s] \subseteq DOMAIN image[s].rows
    /\ file[s] \notin shared => Written(s)

\* What a listed file is.
Backed(f) ==
    \/ files[f].whole /\ f \in DOMAIN taken /\ files[f].rows = taken[f]
    \/ ~files[f].whole /\ crashed
    \/ ~files[f].whole /\ \E s \in Sessions : file[s] = f /\ step[s] \in {"connect", "dump"}

FilesInv ==
    /\ Numbered
    /\ \A s \in Sessions : Dumping(s)
    /\ \A f \in listed \ shared : Backed(f)

\* A session that will create a table, and one after whose next steps it is not
\* empty any more, or the target is harmed.
Making(s, t) == step[s] = "tables" /\ t \in todo[s]

Filling(s, t) ==
    \/ step[s] \in {"tables", "truncate"}
    \/ step[s] = "load" /\ t \in todo[s]
    \/ step[s] = "fill" /\ t = Target!Min(todo[s])
    \/ step[s] \in ReplaySteps /\ image[s].rows[t] = {}

\* What is missing of the target, a session is going to make.
Covered ==
    \/ harmed
    \/ ~created /\ \E s \in Sessions : step[s] = "create"
    \/ /\ created
       /\ \A t \in Target!Tables \ DOMAIN target : \E s \in Sessions : Making(s, t)
       /\ \A t \in Lookups \cap DOMAIN target :
             target[t] = {} => \E s \in Sessions : Filling(s, t)

TargetInv == Shapes /\ Places /\ Alone /\ BuildInv /\ RestoreInv /\ FilesInv /\ Covered

-----------------------------------------------------------------------------
(* The operations, by what they change *)

Starts(s) ==
    \/ \E restore \in BOOLEAN : Target!StartNightly(s, restore)
    \/ Target!StartReset(s)
    \/ \E o \in {"restore_target", "restore_source"}, f \in Target!FileIds :
          Target!StartRestore(s, o, f)
    \/ \E f \in Uploadable : Target!StartUpload(s, f)

Backs(s) ==
    \/ Target!OpenBackup(s) \/ Target!ConnectDump(s)
    \/ \E t \in Target!Tables : Target!DumpTable(s, t)
    \/ Target!EndDump(s) \/ Target!BackupFails(s)

Rebuilds(s) ==
    \/ Target!DropDatabase(s) \/ Target!CreateDatabase(s)
    \/ \E t \in Target!Tables :
          Target!CreateTable(s, t) \/ Target!TruncateLookup(s, t) \/ Target!LoadLookup(s, t)

Delivers(s) ==
    \E t \in Target!Tables : Target!DeliverEntity(s, t) \/ Target!DeliverFails(s, t)

Replays(s) ==
    \/ \E t \in Target!Tables : Target!ReplayTable(s, t) \/ Target!FillTable(s, t)
    \/ Target!EndReplay(s)

\* Steps that leave the target alone.
Notes(s) ==
    \/ Target!RestoreSource(s) \/ Target!ReplaySource(s)
    \/ \E kind \in Target!Kinds : Target!RecordUpload(s, kind)
    \/ Target!MarkUsed(s)

Ends(s) ==
    \/ Target!RestoreSourceFails(s) \/ Target!ReplaySourceFails(s) \/ Target!MarkFails(s)
    \/ Target!RefusedStep(s) \/ Target!StatementFails(s)
    \/ Target!Finish(s) \/ Target!Crash(s)

Works(s) == Backs(s) \/ Rebuilds(s) \/ Delivers(s) \/ Replays(s) \/ Notes(s)

\* Every step is one of these.
LEMMA ByGroups == Target!Next => \E s \in Sessions : Starts(s) \/ Works(s) \/ Ends(s)
BY DEF Target!Next, Starts, Works, Backs, Rebuilds, Delivers, Replays, Notes, Ends

\* What the constants are.
LEMMA Constants ==
    /\ NTables \in Nat
    /\ Target!Tables \subseteq Nat
    /\ Lookups \subseteq Target!Tables
    /\ Target!Entities = Target!Tables \ Lookups
    /\ Target!FileIds \subseteq Nat
    /\ \A f \in Uploadable : IsFile(f)
<1>1. NTables \in Nat /\ MaxStarts \in Nat
  BY RecoveryConstants DEF Target!RecoveryAssumption
<1>2. ASSUME NEW f \in Uploadable PROVE IsFile(f)
  BY RecoveryConstants DEF Target!RecoveryAssumption, IsFile
<1>3. QED
  BY <1>1, <1>2, RecoveryConstants
  DEF Target!RecoveryAssumption, Target!Tables, Target!Entities, Target!FileIds

\* Rows are put into a table.
LEMMA WithRows ==
    ASSUME NEW c, NEW t, NEW rows
    PROVE  /\ DOMAIN Target!With(c, t, rows) = DOMAIN c \cup {t}
           /\ Target!With(c, t, rows)[t] = rows
           /\ \A u \in DOMAIN c : u # t => Target!With(c, t, rows)[u] = c[u]
           /\ Target!With(c, t, rows)
                = [u \in DOMAIN Target!With(c, t, rows) |-> Target!With(c, t, rows)[u]]
BY DEF Target!With

\* A turn of a loop ends it, or takes the table from what is left.
LEMMA Turns ==
    ASSUME Shapes, NEW s \in Sessions, NEW t, NEW next, NEW T, Target!Turn(s, t, next, T)
    PROVE  /\ \A x \in Sessions \ {s} : step'[x] = step[x] /\ todo'[x] = todo[x]
           /\ \/ todo[s] = {t} /\ step'[s] = next /\ todo'[s] = T
              \/ todo[s] # {t} /\ step'[s] = step[s] /\ todo'[s] = todo[s] \ {t}
BY DEF Shapes, SessionShapes, DatabaseShapes, FileShapes, Target!Turn, Target!GoTo

\* And keeps the types of what it changes.
LEMMA TurnTypes ==
    ASSUME Shapes, NEW s \in Sessions, NEW t, NEW next \in Target!Steps,
           NEW T \in SUBSET Target!Tables, Target!Turn(s, t, next, T)
    PROVE  step' \in [Sessions -> Target!Steps] /\ todo' \in [Sessions -> SUBSET Target!Tables]
BY DEF Shapes, SessionShapes, DatabaseShapes, FileShapes, Target!Turn, Target!GoTo

\* A session that another one's step leaves where it is.
Same(x) ==
    /\ step'[x] = step[x] /\ op'[x] = op[x] /\ todo'[x] = todo[x] /\ file'[x] = file[x]
    /\ image'[x] = image[x] /\ restored'[x] = restored[x] /\ failed'[x] = failed[x]

\* A start.
Begun(s) ==
    /\ \A x \in Sessions \ {s} : Same(x) /\ ~alone'[x]
    /\ step[s] = "idle" /\ step'[s] # "idle"
    /\ alone'[s] => \A x \in Sessions \ {s} : step[x] = "idle"
    /\ failed'[s] = failed[s] /\ restored'[s] = restored[s]
    /\ UNCHANGED <<source, created, target, crosswalk, listed, taken, shared, harmed, crashed>>
    /\ starts' = starts + 1

\* A step on the way.
Worked(s) ==
    /\ \A x \in Sessions \ {s} : Same(x)
    /\ step[s] # "idle" /\ step'[s] # "idle"
    /\ step[s] # "open" => file' = file
    /\ UNCHANGED <<op, alone, starts, crashed>>
    /\ harmed => harmed'

\* An end, good or bad.
Over(s) ==
    /\ \A x \in Sessions \ {s} : Same(x) /\ alone'[x] = alone[x]
    /\ step[s] # "idle" /\ step'[s] = "idle" /\ op'[s] = "none" /\ todo'[s] = {}
    /\ file'[s] = 0 /\ image'[s] = Target!NoFile
    /\ ~restored'[s] /\ ~alone'[s] /\ ~failed'[s]
    /\ UNCHANGED <<created, target, crosswalk, files, listed, taken, shared, starts>>
    /\ crashed => crashed'
    /\ step[s] \in {"connect", "dump"} => crashed'

\* An operation begins where none was, and is alone if no other is there.
LEMMA StartsAt ==
    ASSUME Shapes, NEW s \in Sessions, Starts(s)
    PROVE  Begun(s)
<1> USE DEF Shapes, SessionShapes, DatabaseShapes, FileShapes, Same, Begun, Target!Start, Target!GoTo, Target!dbVars, Target!fileVars,
            Target!workVars
<1>1. CASE \E restore \in BOOLEAN : Target!StartNightly(s, restore)
  BY <1>1 DEF Target!StartNightly
<1>2. CASE Target!StartReset(s)
  BY <1>2 DEF Target!StartReset
<1>3. ASSUME NEW o, NEW f, Target!StartRestore(s, o, f)
      PROVE  Begun(s)
  BY <1>3 DEF Target!StartRestore
<1>4. CASE \E f \in Uploadable : Target!StartUpload(s, f)
  BY <1>4 DEF Target!StartUpload
<1>5. QED
  BY <1>1, <1>2, <1>3, <1>4 DEF Starts

\* The end of a dump, but for what it writes.
LEMMA EndsDump ==
    ASSUME NEW s, Target!EndDump(s)
    PROVE  /\ step[s] = "dump" /\ todo[s] = {} /\ step' = [step EXCEPT ![s] = "drop"]
           /\ UNCHANGED <<source, created, target, crosswalk, listed, uploads, op, todo,
                          file, image, dropped, restored, taken, shared, alone, failed, harmed,
                          loads, starts, faults, crashed>>
           /\ \E w : files' = [files EXCEPT ![file[s]].whole = w]
BY Zenon DEF Target!EndDump, Target!GoTo, Target!dbVars, Target!workVars, Target!historyVars,
     Target!boundVars

\* An operation that is at work, and the other ones left as they are.
LEMMA WorksAt ==
    ASSUME Shapes, NEW s \in Sessions, Works(s)
    PROVE  Worked(s)
<1> USE DEF Shapes, SessionShapes, DatabaseShapes, FileShapes, Same, Worked, Target!GoTo, Target!dbVars, Target!fileVars, Target!workVars,
            Target!historyVars, Target!boundVars
<1>1. CASE Backs(s)
  <2>1. CASE Target!OpenBackup(s)
    <3>1. PICK f : file' = [file EXCEPT ![s] = f]
      BY <2>1, Zenon DEF Target!OpenBackup
    <3>2. step[s] = "open" /\ step' = [step EXCEPT ![s] = "connect"]
          /\ UNCHANGED <<todo, op, alone, image, restored, failed, starts, crashed, harmed>>
      BY <2>1, Zenon DEF Target!OpenBackup, Target!GoTo, Target!boundVars
    <3>3. QED
      BY <3>1, <3>2
  <2>2. CASE \/ Target!ConnectDump(s) \/ \E t \in Target!Tables : Target!DumpTable(s, t)
             \/ Target!BackupFails(s)
    BY <2>2 DEF Target!ConnectDump, Target!DumpTable, Target!BackupFails
  <2>3. CASE Target!EndDump(s)
    BY <2>3, EndsDump
  <2>4. QED
    BY <1>1, <2>1, <2>2, <2>3 DEF Backs
<1>2. CASE Target!DropDatabase(s) \/ Target!CreateDatabase(s)
  BY <1>2 DEF Target!DropDatabase, Target!CreateDatabase, Target!Drops
<1>3. ASSUME NEW t \in Target!Tables, Target!CreateTable(s, t) \/ Target!TruncateLookup(s, t)
      PROVE  Worked(s)
  BY <1>3, Turns DEF Target!CreateTable, Target!TruncateLookup
<1>4. ASSUME NEW t \in Target!Tables, Target!LoadLookup(s, t)
      PROVE  Worked(s)
  BY <1>4, Turns DEF Target!LoadLookup
<1>5. ASSUME NEW t \in Target!Tables, Target!DeliverEntity(s, t) \/ Target!DeliverFails(s, t)
      PROVE  Worked(s)
  BY <1>5, Turns DEF Target!DeliverEntity, Target!DeliverFails
<1>6. ASSUME NEW t \in Target!Tables, Target!ReplayTable(s, t) \/ Target!FillTable(s, t)
      PROVE  Worked(s)
  BY <1>6 DEF Target!ReplayTable, Target!FillTable
<1>7. CASE Target!EndReplay(s)
  BY <1>7 DEF Target!EndReplay
<1>8. CASE Target!RestoreSource(s) \/ Target!ReplaySource(s)
  BY <1>8 DEF Target!RestoreSource, Target!ReplaySource
<1>9. ASSUME NEW kind \in Target!Kinds, Target!RecordUpload(s, kind)
      PROVE  Worked(s)
  BY <1>9 DEF Target!RecordUpload
<1>10. CASE Target!MarkUsed(s)
  BY <1>10 DEF Target!MarkUsed
<1>11. QED
  BY <1>1, <1>2, <1>3, <1>4, <1>5, <1>6, <1>7, <1>8, <1>9, <1>10
  DEF Works, Rebuilds, Delivers, Replays, Notes

\* An operation ends: the target is as it is, and harmed if the operation had
\* more to do there.
LEMMA EndsAt ==
    ASSUME Shapes, NEW s \in Sessions, Ends(s)
    PROVE  Over(s)
<1>1. Target!Leave(s) /\ step[s] # "idle"
  BY DEF Ends, Target!RestoreSourceFails, Target!ReplaySourceFails, Target!MarkFails,
         Target!RefusedStep, Target!Refused, Target!StatementFails, Target!Finish, Target!Crash
<1>2. /\ UNCHANGED <<created, target, crosswalk, files, listed, taken, shared, starts>>
      /\ crashed => crashed'
      /\ step[s] \in {"connect", "dump"} => crashed'
  BY DEF Ends, Target!RestoreSourceFails, Target!ReplaySourceFails, Target!MarkFails,
         Target!RefusedStep, Target!Refused, Target!StatementFails, Target!Finish, Target!Crash,
         Target!dbVars, Target!fileVars, Target!boundVars, Target!Failure
<1>3. QED
  BY <1>1, <1>2 DEF Target!Leave, Target!GoTo, Shapes, SessionShapes, DatabaseShapes, FileShapes, Same, Over

\* What mysqldump's steps write to a file of its own.
LEMMA DumpWrites ==
    ASSUME Shapes, FilesInv, NEW s \in Sessions, file[s] \notin shared
    PROVE  /\ Target!ConnectDump(s) =>
                /\ file[s] \in DOMAIN files
                /\ files' = [files EXCEPT ![file[s]] =
                        [head |-> "SQL", irimsv |-> FALSE, whole |-> FALSE,
                         rows |-> Target!Nothing]]
           /\ \A t : Target!DumpTable(s, t) =>
                /\ file[s] \in DOMAIN files
                /\ todo' = [todo EXCEPT ![s] = @ \ {t}]
                /\ files' = [files EXCEPT ![file[s]] =
                        [head |-> "SQL", irimsv |-> FALSE, whole |-> FALSE,
                         rows |-> [u \in DOMAIN image[s].rows \ (todo[s] \ {t}) |->
                                     image[s].rows[u]]]]
           /\ Target!EndDump(s) =>
                /\ file[s] \in DOMAIN files
                /\ files' = [files EXCEPT ![file[s]] =
                        [head |-> "SQL", irimsv |-> FALSE, whole |-> TRUE,
                         rows |-> image[s].rows]]
<1>1. Dumping(s) /\ Written(s) /\ listed \subseteq DOMAIN files
  BY DEF FilesInv, Numbered, Dumping
<1>2. ASSUME Target!ConnectDump(s)
      PROVE  /\ file[s] \in DOMAIN files
             /\ files' = [files EXCEPT ![file[s]] =
                     [head |-> "SQL", irimsv |-> FALSE, whole |-> FALSE,
                      rows |-> Target!Nothing]]
  <2>1. step[s] = "connect" /\ file[s] \in DOMAIN files /\ files[file[s]] = Target!NoFile
    BY <1>1, <1>2 DEF Target!ConnectDump, Written
  <2>2. files' = [files EXCEPT ![file[s]] = [files[file[s]] EXCEPT !.head = "SQL"]]
    BY <1>2, Zenon DEF Target!ConnectDump
  <2>3. ASSUME NEW f, f = Target!NoFile, NEW y, y = [f EXCEPT !.head = "SQL"]
        PROVE  y = [head |-> "SQL", irimsv |-> FALSE, whole |-> FALSE, rows |-> Target!Nothing]
    BY <2>3 DEF Target!NoFile
  <2>4. [files[file[s]] EXCEPT !.head = "SQL"]
            = [head |-> "SQL", irimsv |-> FALSE, whole |-> FALSE, rows |-> Target!Nothing]
    <3> DEFINE f == files[file[s]]
               y == [f EXCEPT !.head = "SQL"]
    <3>1. f = Target!NoFile
      BY <2>1
    <3>2. y = [f EXCEPT !.head = "SQL"]
      OBVIOUS
    <3> HIDE DEF f, y
    <3>3. y = [head |-> "SQL", irimsv |-> FALSE, whole |-> FALSE, rows |-> Target!Nothing]
      BY <3>1, <3>2, <2>3
    <3>4. QED
      BY <3>3 DEF y, f
  <2>5. QED
    BY <2>1, <2>2, <2>4, Zenon
<1>3. ASSUME NEW t, Target!DumpTable(s, t)
      PROVE  /\ file[s] \in DOMAIN files
             /\ todo' = [todo EXCEPT ![s] = @ \ {t}]
             /\ files' = [files EXCEPT ![file[s]] =
                     [head |-> "SQL", irimsv |-> FALSE, whole |-> FALSE,
                      rows |-> [u \in DOMAIN image[s].rows \ (todo[s] \ {t}) |->
                                  image[s].rows[u]]]]
  <2> DEFINE old == [u \in DOMAIN image[s].rows \ todo[s] |-> image[s].rows[u]]
             new == [u \in DOMAIN image[s].rows \ (todo[s] \ {t}) |-> image[s].rows[u]]
             half == [head |-> "SQL", irimsv |-> FALSE, whole |-> FALSE, rows |-> old]
  <2>1. /\ step[s] = "dump" /\ t \in todo[s] /\ file[s] \in DOMAIN files
        /\ todo' = [todo EXCEPT ![s] = @ \ {t}]
        /\ todo[s] \subseteq DOMAIN image[s].rows
        /\ files[file[s]] = half
    BY <1>1, <1>3 DEF Target!DumpTable, Dumping, Written
  <2>2. files' = [files EXCEPT ![file[s]] =
                     [files[file[s]] EXCEPT !.rows =
                         Target!With(files[file[s]].rows, t, image[s].rows[t])]]
    BY <1>3, Zenon DEF Target!DumpTable, Target!DumpedRows
  <2>3. Target!With(old, t, image[s].rows[t]) = new
    BY <2>1 DEF Target!With
  <2>4. half.rows = old
    OBVIOUS
  <2> HIDE DEF old, new
  <2>5. ASSUME NEW f, f = half, NEW y, y = [f EXCEPT !.rows = new]
        PROVE  y = [head |-> "SQL", irimsv |-> FALSE, whole |-> FALSE, rows |-> new]
    BY <2>5
  <2> HIDE DEF half
  <2>6. files' = [files EXCEPT ![file[s]] =
                     [head |-> "SQL", irimsv |-> FALSE, whole |-> FALSE, rows |-> new]]
    BY <2>1, <2>2, <2>3, <2>4, <2>5, Zenon
  <2>7. QED
    BY <2>1, <2>6 DEF new
<1>4. ASSUME Target!EndDump(s)
      PROVE  /\ file[s] \in DOMAIN files
             /\ files' = [files EXCEPT ![file[s]] =
                     [head |-> "SQL", irimsv |-> FALSE, whole |-> TRUE,
                      rows |-> image[s].rows]]
  <2> DEFINE rows == [u \in DOMAIN image[s].rows \ todo[s] |-> image[s].rows[u]]
             half == [head |-> "SQL", irimsv |-> FALSE, whole |-> FALSE, rows |-> rows]
  <2>1. /\ step[s] = "dump" /\ todo[s] = {} /\ file[s] \in DOMAIN files
        /\ image[s].rows = [u \in DOMAIN image[s].rows |-> image[s].rows[u]]
        /\ files[file[s]] = half
    BY <1>1, <1>4 DEF Target!EndDump, Dumping, Written
  <2>2. files' = [files EXCEPT ![file[s]] = [files[file[s]] EXCEPT !.whole = TRUE]]
    <3>1. PICK w \in IF file[s] \in shared THEN BOOLEAN ELSE {TRUE} :
              files' = [files EXCEPT ![file[s]].whole = w]
      BY <1>4, Zenon DEF Target!EndDump
    <3>2. w = TRUE
      OBVIOUS
    <3>3. QED
      BY <3>1, <3>2, Zenon
  <2>3. rows = image[s].rows
    BY <2>1
  <2> HIDE DEF rows
  <2>4. ASSUME NEW f, f = half, NEW y, y = [f EXCEPT !.whole = TRUE]
        PROVE  y = [head |-> "SQL", irimsv |-> FALSE, whole |-> TRUE, rows |-> rows]
    BY <2>4
  <2> HIDE DEF half
  <2>5. [files[file[s]] EXCEPT !.whole = TRUE]
            = [head |-> "SQL", irimsv |-> FALSE, whole |-> TRUE, rows |-> rows]
    <3> DEFINE f == files[file[s]]
               y == [f EXCEPT !.whole = TRUE]
    <3>1. f = half
      BY <2>1
    <3>2. y = [f EXCEPT !.whole = TRUE]
      OBVIOUS
    <3> HIDE DEF f, y
    <3>3. y = [head |-> "SQL", irimsv |-> FALSE, whole |-> TRUE, rows |-> rows]
      BY <3>1, <3>2, <2>4
    <3>4. QED
      BY <3>3 DEF y, f
  <2>6. QED
    BY <2>1, <2>2, <2>3, <2>5, Zenon
<1>5. QED
  BY <1>2, <1>3, <1>4

-----------------------------------------------------------------------------
(* Types and places *)

\* Two nights have gone by, and nobody is at work.
LEMMA ShapesInit == RebuildInit => Shapes /\ Places /\ Alone
<1> SUFFICES ASSUME RebuildInit PROVE Shapes /\ Places /\ Alone
  OBVIOUS
<1> USE Constants DEF RebuildInit, Target!Init, Target!Rebuilt, Target!Nothing
<1>1. Shapes
  <2>1. FileShapes
    <3> DEFINE r == [head |-> "SQL", irimsv |-> FALSE, whole |-> TRUE, rows |-> Target!Rebuilt(1)]
    <3>1. IsFile(r)
      BY DEF IsFile
    <3> HIDE DEF r
    <3>2. files = [f \in {1} |-> r] /\ starts = 0
      BY DEF r
    <3>3. DOMAIN files = {1} /\ files[1] = r
      BY <3>2
    <3>4. \A f \in DOMAIN files : IsFile(files[f])
      BY <3>1, <3>3
    <3>5. QED
      BY <3>2, <3>4 DEF FileShapes
  <2>2. QED
    BY <2>1 DEF Shapes, SessionShapes, DatabaseShapes, Target!Steps
<1>2. Places /\ Alone
  BY DEF Places, Alone, StepOf
<1>3. QED
  BY <1>1, <1>2

\* The functions on the sessions.
LEMMA SessionsKept ==
    ASSUME Shapes, NEW s \in Sessions, Starts(s) \/ Works(s) \/ Ends(s)
    PROVE  SessionShapes'
<1> USE Constants DEF SessionShapes, Target!GoTo, Target!Start, Target!workVars,
                      Target!historyVars, Target!Steps
<1>0. SessionShapes
  BY DEF Shapes
<1>1. CASE \E restore \in BOOLEAN : Target!StartNightly(s, restore)
  BY <1>0, <1>1 DEF Target!StartNightly, Shapes, FileShapes
<1>2. CASE Target!StartReset(s)
  BY <1>0, <1>2 DEF Target!StartReset
<1>3. ASSUME NEW o \in {"restore_target", "restore_source"}, NEW f \in Target!FileIds,
             Target!StartRestore(s, o, f)
      PROVE  SessionShapes'
  <2>1. DOMAIN files[f].rows \subseteq Target!Tables /\ f \in Nat
    BY <1>3 DEF Target!StartRestore, Target!MayRestore, Shapes, FileShapes, IsFile
  <2>2. /\ step' \in [Sessions -> Target!Steps] /\ op' \in [Sessions -> Operations \cup {"none"}]
        /\ alone' \in [Sessions -> BOOLEAN]
        /\ failed' = failed /\ restored' = restored
    BY <1>0, <1>3 DEF Target!StartRestore
  <2>3. /\ todo' \in [Sessions -> SUBSET Target!Tables]
        /\ file' \in [Sessions -> Nat]
        /\ DOMAIN image' = Sessions /\ image' = [x \in Sessions |-> image'[x]]
    BY <1>0, <1>3, <2>1 DEF Target!StartRestore
  <2>4. QED
    BY <1>0, <2>2, <2>3
<1>4. CASE \E f \in Uploadable : Target!StartUpload(s, f)
  BY <1>0, <1>4 DEF Target!StartUpload, Shapes, FileShapes
<1>5. CASE Target!OpenBackup(s) \/ Target!EndDump(s) \/ Target!BackupFails(s)
  <2>1. CASE Target!OpenBackup(s)
    <3>1. \A f \in {file[s]} \cup Target!SameSecond(s) : f \in Nat
      BY <1>0 DEF Target!SameSecond
    <3>2. PICK f \in {file[s]} \cup Target!SameSecond(s) : file' = [file EXCEPT ![s] = f]
      BY <2>1, Zenon DEF Target!OpenBackup
    <3>3. /\ step' = [step EXCEPT ![s] = "connect"]
          /\ UNCHANGED <<op, todo, alone, failed, restored, image>>
      BY <2>1, Zenon DEF Target!OpenBackup
    <3>4. file' \in [Sessions -> Nat]
      BY <1>0, <3>1, <3>2
    <3>5. QED
      BY <1>0, <3>3, <3>4
  <2>2. CASE Target!EndDump(s)
    BY <1>0, <2>2, EndsDump
  <2>3. QED
    BY <1>0, <1>5, <2>1, <2>2 DEF Target!BackupFails
<1>6. CASE Target!ConnectDump(s)
  BY <1>0, <1>6 DEF Target!ConnectDump, Shapes, DatabaseShapes
<1>7. ASSUME NEW t \in Target!Tables, Target!DumpTable(s, t) PROVE SessionShapes'
  BY <1>0, <1>7 DEF Target!DumpTable
<1>8. CASE Target!DropDatabase(s) \/ Target!CreateDatabase(s)
  BY <1>0, <1>8 DEF Target!DropDatabase, Target!CreateDatabase
<1>9. ASSUME NEW t \in Target!Tables,
             \/ Target!CreateTable(s, t) \/ Target!TruncateLookup(s, t) \/ Target!LoadLookup(s, t)
             \/ Target!DeliverEntity(s, t) \/ Target!DeliverFails(s, t)
      PROVE  SessionShapes'
  <2>1. step' \in [Sessions -> Target!Steps] /\ todo' \in [Sessions -> SUBSET Target!Tables]
    <3>1. ASSUME NEW next \in {"truncate", "load", "deliver", "done"},
                 NEW T \in {Lookups, Target!Entities, {}}, Target!Turn(s, t, next, T)
          PROVE  step' \in [Sessions -> Target!Steps] /\ todo' \in [Sessions -> SUBSET Target!Tables]
      <4>1. next \in Target!Steps /\ T \in SUBSET Target!Tables
        OBVIOUS
      <4>2. QED
        BY <3>1, <4>1, TurnTypes
    <3>2. CASE Target!LoadLookup(s, t)
      BY <3>1, <3>2 DEF Target!LoadLookup
    <3>3. QED
      BY <1>9, <3>1, <3>2 DEF Target!CreateTable, Target!TruncateLookup, Target!DeliverEntity,
             Target!DeliverFails
  <2>2. failed' \in [Sessions -> BOOLEAN]
    BY <1>0, <1>9 DEF Target!CreateTable, Target!TruncateLookup, Target!LoadLookup,
           Target!DeliverEntity, Target!DeliverFails
  <2>3. UNCHANGED <<op, file, image, restored, alone>>
    BY <1>9 DEF Target!CreateTable, Target!TruncateLookup, Target!LoadLookup,
           Target!DeliverEntity, Target!DeliverFails
  <2>4. QED
    BY <1>0, <2>1, <2>2, <2>3
<1>10. ASSUME NEW t \in Target!Tables, Target!ReplayTable(s, t) \/ Target!FillTable(s, t)
       PROVE  SessionShapes'
  BY <1>0, <1>10 DEF Target!ReplayTable, Target!FillTable
<1>11. CASE Target!EndReplay(s)
  BY <1>0, <1>11 DEF Target!EndReplay
<1>12. CASE Target!RestoreSource(s) \/ Target!ReplaySource(s)
  <2>1. CASE Target!RestoreSource(s)
    BY <1>0, <2>1 DEF Target!RestoreSource
  <2>2. CASE Target!ReplaySource(s)
    BY <1>0, <2>2 DEF Target!ReplaySource
  <2>3. QED
    BY <1>12, <2>1, <2>2
<1>13. ASSUME NEW kind \in Target!Kinds, Target!RecordUpload(s, kind) PROVE SessionShapes'
  BY <1>0, <1>13 DEF Target!RecordUpload
<1>14. CASE Target!MarkUsed(s)
  BY <1>0, <1>14 DEF Target!MarkUsed
<1>15. CASE Ends(s)
  <2>1. Target!Leave(s)
    BY <1>15 DEF Ends, Target!RestoreSourceFails, Target!ReplaySourceFails, Target!MarkFails,
           Target!RefusedStep, Target!StatementFails, Target!Finish, Target!Crash
  <2>2. QED
    BY <1>0, <2>1 DEF Target!Leave
<1>16. QED
  BY <1>1, <1>2, <1>3, <1>4, <1>5, <1>6, <1>7, <1>8, <1>9, <1>10, <1>11, <1>12, <1>13, <1>14, <1>15
  DEF Starts, Works, Backs, Rebuilds, Delivers, Replays, Notes

\* The target and the crosswalk: rows are put into tables of the plan only.
LEMMA DatabasesKept ==
    ASSUME Shapes, NEW s \in Sessions, Starts(s) \/ Works(s) \/ Ends(s)
    PROVE  DatabaseShapes'
<1> USE Constants DEF DatabaseShapes, Target!dbVars
<1>0. DatabaseShapes
  BY DEF Shapes
<1>1. ASSUME UNCHANGED <<created, target, crosswalk>> PROVE DatabaseShapes'
  BY <1>0, <1>1
<1>2. ASSUME created, created', NEW t \in Target!Tables, NEW rows,
             target' = Target!With(target, t, rows), crosswalk' = crosswalk
      PROVE  DatabaseShapes'
  BY <1>0, <1>2 DEF Target!With
<1>3. CASE Starts(s) \/ Ends(s)
  BY <1>1, <1>3, StartsAt, EndsAt DEF Begun, Over
<1>4. CASE Backs(s)
  BY <1>1, <1>4 DEF Backs, Target!OpenBackup, Target!ConnectDump, Target!DumpTable,
                    Target!EndDump, Target!BackupFails
<1>5. CASE Target!DropDatabase(s)
  BY <1>0, <1>5 DEF Target!DropDatabase, Target!Dropped, Target!Nothing
<1>6. CASE Target!CreateDatabase(s)
  BY <1>0, <1>6 DEF Target!CreateDatabase
<1>7. ASSUME NEW t \in Target!Tables, Target!CreateTable(s, t) PROVE DatabaseShapes'
  BY <1>1, <1>2, <1>7 DEF Target!CreateTable
<1>8. ASSUME NEW t \in Target!Tables, Target!TruncateLookup(s, t) \/ Target!LoadLookup(s, t)
      PROVE  DatabaseShapes'
  <2>1. created
    BY <1>0, <1>8 DEF Target!TruncateLookup, Target!LoadLookup, Target!Nothing
  <2>2. QED
    BY <1>2, <1>8, <2>1 DEF Target!TruncateLookup, Target!LoadLookup
<1>9. ASSUME NEW e \in Target!Tables, Target!DeliverEntity(s, e) PROVE DatabaseShapes'
  <2>1. created /\ created'
    BY <1>0, <1>9 DEF Target!DeliverEntity, Target!Nothing
  <2>2. PICK rows : target' = Target!With(target, e, rows)
    BY <1>9 DEF Target!DeliverEntity
  <2>3. DOMAIN target' \subseteq Target!Tables /\ target' = [t \in DOMAIN target' |-> target'[t]]
    BY <1>0, <2>2 DEF Target!With
  <2>4. crosswalk' = [crosswalk EXCEPT ![e] = [no |-> loads + 1, of |-> source]]
    BY <1>9 DEF Target!DeliverEntity
  <2>5. QED
    BY <1>0, <2>1, <2>3, <2>4
<1>10. ASSUME NEW t \in Target!Tables, Target!DeliverFails(s, t) PROVE DatabaseShapes'
  BY <1>1, <1>10 DEF Target!DeliverFails
<1>11. ASSUME NEW t \in Target!Tables, Target!ReplayTable(s, t) PROVE DatabaseShapes'
  BY <1>2, <1>11 DEF Target!ReplayTable
<1>12. ASSUME NEW t \in Target!Tables, Target!FillTable(s, t) PROVE DatabaseShapes'
  <2>1. created
    BY <1>0, <1>12 DEF Target!FillTable, Target!Nothing
  <2>2. QED
    BY <1>2, <1>12, <2>1 DEF Target!FillTable
<1>13. CASE Target!EndReplay(s) \/ Notes(s)
  BY <1>1, <1>13 DEF Target!EndReplay, Notes, Target!RestoreSource, Target!ReplaySource,
                     Target!RecordUpload, Target!MarkUsed
<1>14. QED
  BY <1>3, <1>4, <1>5, <1>6, <1>7, <1>8, <1>9, <1>10, <1>11, <1>12, <1>13
  DEF Works, Rebuilds, Delivers, Replays

\* The files: what a dump has written is of tables of the plan.
LEMMA FilesKept ==
    ASSUME Shapes, FilesInv, NEW s \in Sessions, Starts(s) \/ Works(s) \/ Ends(s)
    PROVE  FileShapes'
<1> USE DEF Target!fileVars
<1>0. FileShapes
  BY DEF Shapes
<1>1. starts' \in Nat
  BY <1>0, StartsAt, WorksAt, EndsAt DEF Begun, Worked, Over, FileShapes
<1>2. ASSUME files' = files PROVE FileShapes'
  BY <1>0, <1>1, <1>2 DEF FileShapes
<1>3. ASSUME NEW f, NEW r, f \in DOMAIN files' => IsFile(r),
             files' = Target!With(files, f, r) \/ files' = [files EXCEPT ![f] = r]
      PROVE  FileShapes'
  BY <1>0, <1>1, <1>3 DEF FileShapes, Target!With
<1>4. CASE \E restore \in BOOLEAN : Target!StartNightly(s, restore)
  BY <1>2, <1>4 DEF Target!StartNightly
<1>5. CASE Target!StartReset(s)
  BY <1>2, <1>5 DEF Target!StartReset
<1>6. ASSUME NEW o, NEW f, Target!StartRestore(s, o, f) PROVE FileShapes'
  BY <1>2, <1>6 DEF Target!StartRestore
<1>7. ASSUME NEW f \in Uploadable, Target!StartUpload(s, f) PROVE FileShapes'
  BY <1>3, <1>7, Constants DEF Target!StartUpload
<1>8. CASE Target!OpenBackup(s)
  <2>1. IsFile(Target!NoFile)
    BY DEF Target!NoFile, Target!Nothing, IsFile
  <2>2. \E f : files' = Target!With(files, f, Target!NoFile)
    BY <1>8, Zenon DEF Target!OpenBackup
  <2>3. QED
    BY <1>3, <2>1, <2>2, Zenon
\* What is changed of a file.
<1>20. ASSUME NEW r, IsFile(r)
       PROVE  /\ \A v : IsFile([r EXCEPT !.head = v]) /\ IsFile([r EXCEPT !.whole = v])
              /\ \A c : DOMAIN c \subseteq Target!Tables => IsFile([r EXCEPT !.rows = c])
  BY <1>20 DEF IsFile
<1>21. ASSUME file[s] \in DOMAIN files PROVE IsFile(files[file[s]])
  BY <1>0, <1>21 DEF FileShapes
<1>22. \A f, r : files' = [files EXCEPT ![f] = r] => DOMAIN files' = DOMAIN files
  OBVIOUS
<1>9. CASE Target!ConnectDump(s)
  <2> DEFINE r == [files[file[s]] EXCEPT !.head = "SQL"]
  <2>1. files' = [files EXCEPT ![file[s]] = r]
    BY <1>9, Zenon DEF Target!ConnectDump
  <2>2. file[s] \in DOMAIN files' => IsFile(r)
    BY <1>20, <1>21, <1>22, <2>1
  <2> HIDE DEF r
  <2>3. QED
    BY <1>3, <2>1, <2>2, Zenon
<1>10. ASSUME NEW t \in Target!Tables, Target!DumpTable(s, t) PROVE FileShapes'
  <2> DEFINE rows == Target!With(files[file[s]].rows, t, Target!DumpedRows(s, t))
             r == [files[file[s]] EXCEPT !.rows = rows]
  <2>1. files' = [files EXCEPT ![file[s]] = r]
    BY <1>10, Zenon DEF Target!DumpTable
  <2>2. file[s] \in DOMAIN files' => IsFile(r)
    <3>1. file[s] \in DOMAIN files => DOMAIN rows \subseteq Target!Tables
      BY <1>10, <1>21 DEF IsFile, Target!With
    <3> HIDE DEF rows
    <3>2. QED
      BY <1>20, <1>21, <1>22, <2>1, <3>1
  <2> HIDE DEF r
  <2>3. QED
    BY <1>3, <2>1, <2>2, Zenon
<1>11. CASE Target!EndDump(s)
  <2>1. PICK w : files' = [files EXCEPT ![file[s]] = [files[file[s]] EXCEPT !.whole = w]]
    BY <1>11, Zenon DEF Target!EndDump
  <2> DEFINE r == [files[file[s]] EXCEPT !.whole = w]
  <2>2. file[s] \in DOMAIN files' => IsFile(r)
    BY <1>20, <1>21, <1>22, <2>1
  <2>3. files' = [files EXCEPT ![file[s]] = r]
    BY <2>1
  <2> HIDE DEF r
  <2>4. QED
    BY <1>3, <2>2, <2>3, Zenon
<1>12. CASE Target!BackupFails(s)
  BY <1>0, <1>1, <1>12 DEF FileShapes, Target!BackupFails, Target!Discard, Target!Restrict
<1>13. CASE Rebuilds(s) \/ Delivers(s)
  BY <1>2, <1>13 DEF Rebuilds, Delivers, Target!DropDatabase, Target!CreateDatabase,
         Target!CreateTable, Target!TruncateLookup, Target!LoadLookup, Target!DeliverEntity,
         Target!DeliverFails
<1>14. CASE Replays(s) \/ Notes(s)
  BY <1>2, <1>14 DEF Replays, Notes, Target!ReplayTable, Target!FillTable, Target!EndReplay,
         Target!RestoreSource, Target!ReplaySource, Target!RecordUpload, Target!MarkUsed
<1>15. CASE Ends(s)
  BY <1>2, <1>15, EndsAt DEF Over
<1>16. QED
  BY <1>4, <1>5, <1>6, <1>7, <1>8, <1>9, <1>10, <1>11, <1>12, <1>13, <1>14, <1>15
  DEF Starts, Works, Backs

\* Where a step of an operation leads.
LEMMA StepsOn ==
    ASSUME Shapes, Places, NEW s \in Sessions, Works(s)
    PROVE  StepOf(op[s], step'[s])
<1> USE DEF Shapes, SessionShapes, Target!GoTo, StepOf, ReplaySteps, RebuildSteps
<1>0. step \in [Sessions -> Target!Steps] /\ StepOf(op[s], step[s])
  BY DEF Places
<1>1. CASE Backs(s)
  BY <1>0, <1>1 DEF Backs, Target!OpenBackup, Target!ConnectDump, Target!DumpTable,
         Target!EndDump, Target!BackupFails
<1>2. CASE Target!DropDatabase(s) \/ Target!CreateDatabase(s)
  BY <1>0, <1>2 DEF Target!DropDatabase, Target!CreateDatabase
<1>3. ASSUME NEW t, Target!CreateTable(s, t) PROVE StepOf(op[s], step'[s])
  BY <1>0, <1>3, Turns DEF Target!CreateTable
<1>4. ASSUME NEW t, Target!TruncateLookup(s, t) PROVE StepOf(op[s], step'[s])
  BY <1>0, <1>4, Turns DEF Target!TruncateLookup
<1>5. ASSUME NEW t, Target!LoadLookup(s, t) PROVE StepOf(op[s], step'[s])
  BY <1>0, <1>5, Turns DEF Target!LoadLookup
<1>6. ASSUME NEW t, Target!DeliverEntity(s, t) \/ Target!DeliverFails(s, t)
      PROVE  StepOf(op[s], step'[s])
  BY <1>0, <1>6, Turns DEF Target!DeliverEntity, Target!DeliverFails
<1>7. ASSUME NEW t, Target!ReplayTable(s, t) \/ Target!FillTable(s, t)
      PROVE  StepOf(op[s], step'[s])
  BY <1>0, <1>7 DEF Target!ReplayTable, Target!FillTable
<1>8. CASE Target!EndReplay(s)
  BY <1>0, <1>8 DEF Target!EndReplay
<1>9. CASE Target!RestoreSource(s) \/ Target!ReplaySource(s)
  BY <1>0, <1>9 DEF Target!RestoreSource, Target!ReplaySource
<1>10. ASSUME NEW kind, Target!RecordUpload(s, kind) PROVE StepOf(op[s], step'[s])
  BY <1>0, <1>10 DEF Target!RecordUpload
<1>11. CASE Target!MarkUsed(s)
  BY <1>0, <1>11 DEF Target!MarkUsed
<1>12. QED
  BY <1>1, <1>2, <1>3, <1>4, <1>5, <1>6, <1>7, <1>8, <1>9, <1>10, <1>11
  DEF Works, Rebuilds, Delivers, Replays, Notes

\* And where an operation starts.
LEMMA StepsFirst ==
    ASSUME Shapes, NEW s \in Sessions, Starts(s)
    PROVE  /\ StepOf(op'[s], step'[s])
           /\ step'[s] \in {"restore", "open", "drop", "record", "replay", "psql"}
<1> USE DEF Shapes, SessionShapes, Target!GoTo, Target!Start, StepOf, ReplaySteps, RebuildSteps
<1>1. CASE \E restore \in BOOLEAN : Target!StartNightly(s, restore)
  BY <1>1 DEF Target!StartNightly
<1>2. CASE Target!StartReset(s)
  BY <1>2 DEF Target!StartReset
<1>3. ASSUME NEW o \in {"restore_target", "restore_source"}, NEW f, Target!StartRestore(s, o, f)
      PROVE  /\ StepOf(op'[s], step'[s])
             /\ step'[s] \in {"restore", "open", "drop", "record", "replay", "psql"}
  BY <1>3 DEF Target!StartRestore
<1>4. CASE \E f \in Uploadable : Target!StartUpload(s, f)
  BY <1>4 DEF Target!StartUpload
<1>5. QED
  BY <1>1, <1>2, <1>3, <1>4 DEF Starts

\* Each session stays within its operation.
LEMMA PlacesKept ==
    ASSUME Shapes, Places, NEW s \in Sessions, Starts(s) \/ Works(s) \/ Ends(s)
    PROVE  Places'
<1> DEFINE Rests(o, k, r, f, T) ==
             /\ StepOf(o, k)
             /\ k = "idle" => ~r /\ ~f
             /\ k = "truncate" => T \subseteq Lookups /\ (T = {} => Lookups = {})
<1>1. SUFFICES Rests(op'[s], step'[s], restored'[s], failed'[s], todo'[s])
  <2>1. \A x \in Sessions \ {s} : Same(x)
    BY StartsAt, WorksAt, EndsAt DEF Begun, Worked, Over
  <2>2. ASSUME NEW x \in Sessions
        PROVE  Rests(op'[x], step'[x], restored'[x], failed'[x], todo'[x])
    <3>1. CASE x = s
      BY <1>1, <3>1
    <3>2. CASE x # s
      BY <2>1, <3>2 DEF Places, Same
    <3>3. QED
      BY <3>1, <3>2
  <2>3. QED
    BY <2>2 DEF Places
<1>2. CASE Starts(s)
  BY <1>2, StepsFirst, StartsAt DEF Begun
<1>3. CASE Ends(s)
  BY <1>3, EndsAt DEF Over, StepOf
<1>4. CASE Works(s)
  <2>1. StepOf(op'[s], step'[s]) /\ step'[s] # "idle"
    BY <1>4, StepsOn, WorksAt DEF Worked
  <2>2. SUFFICES ASSUME step'[s] = "truncate"
                 PROVE  todo'[s] \subseteq Lookups /\ (todo'[s] = {} => Lookups = {})
    BY <2>1
  <2> USE DEF Shapes, SessionShapes, Target!GoTo
  <2>3. CASE Backs(s)
    BY <2>2, <2>3 DEF Backs, Target!OpenBackup, Target!ConnectDump, Target!DumpTable,
           Target!EndDump, Target!BackupFails
  <2>4. CASE Target!DropDatabase(s) \/ Target!CreateDatabase(s)
    BY <2>2, <2>4 DEF Target!DropDatabase, Target!CreateDatabase
  <2>5. ASSUME NEW t \in Target!Tables, Target!CreateTable(s, t)
        PROVE  todo'[s] \subseteq Lookups /\ (todo'[s] = {} => Lookups = {})
    BY <2>2, <2>5, Turns DEF Target!CreateTable
  <2>6. ASSUME NEW t \in Target!Tables, Target!TruncateLookup(s, t)
        PROVE  todo'[s] \subseteq Lookups /\ (todo'[s] = {} => Lookups = {})
    BY <2>2, <2>6, Turns DEF Target!TruncateLookup, Places
  <2>7. ASSUME NEW t \in Target!Tables, Target!LoadLookup(s, t) PROVE FALSE
    BY <2>2, <2>7, Turns DEF Target!LoadLookup
  <2>8. ASSUME NEW t \in Target!Tables, Target!DeliverEntity(s, t) \/ Target!DeliverFails(s, t)
        PROVE  FALSE
    BY <2>2, <2>8, Turns DEF Target!DeliverEntity, Target!DeliverFails
  <2>9. ASSUME NEW t \in Target!Tables, Target!ReplayTable(s, t) \/ Target!FillTable(s, t)
        PROVE  FALSE
    BY <2>2, <2>9 DEF Target!ReplayTable, Target!FillTable
  <2>10. CASE Target!EndReplay(s)
    BY <2>2, <2>10 DEF Target!EndReplay
  <2>11. CASE Target!RestoreSource(s) \/ Target!ReplaySource(s)
    BY <2>2, <2>11 DEF Target!RestoreSource, Target!ReplaySource
  <2>12. ASSUME NEW kind, Target!RecordUpload(s, kind) PROVE FALSE
    BY <2>2, <2>12 DEF Target!RecordUpload
  <2>13. CASE Target!MarkUsed(s)
    BY <2>2, <2>13 DEF Target!MarkUsed
  <2>14. QED
    BY <1>4, <2>3, <2>4, <2>5, <2>6, <2>7, <2>8, <2>9, <2>10, <2>11, <2>12, <2>13
    DEF Works, Rebuilds, Delivers, Replays, Notes
<1>5. QED
  BY <1>2, <1>3, <1>4

\* A session that is alone is the one that moves.
LEMMA AloneKept ==
    ASSUME Shapes, Alone, NEW s \in Sessions, Starts(s) \/ Works(s) \/ Ends(s)
    PROVE  /\ Alone'
           /\ \A x \in Sessions : alone'[x] =>
                 x = s /\ \A y \in Sessions \ {s} : step[y] = "idle"
           /\ Works(s) \/ Ends(s) => (alone'[s] => alone[s])
<1>1. CASE Starts(s)
  <2>1. Begun(s)
    BY <1>1, StartsAt
  <2>2. ~Works(s) /\ ~Ends(s)
    BY <2>1, WorksAt, EndsAt DEF Begun, Worked, Over
  <2>3. QED
    BY <2>1, <2>2 DEF Begun, Same, Alone
<1>2. CASE Works(s)
  BY <1>2, WorksAt DEF Worked, Same, Alone
<1>3. CASE Ends(s)
  BY <1>3, EndsAt DEF Over, Same, Alone
<1>4. QED
  BY <1>1, <1>2, <1>3

-----------------------------------------------------------------------------
(* The files *)

\* The backup of the night before is whole.
LEMMA FilesInit == RebuildInit => FilesInv
<1> SUFFICES ASSUME RebuildInit PROVE FilesInv
  OBVIOUS
<1> USE DEF RebuildInit, Target!Init
<1>1. Numbered
  BY DEF Numbered, Writers
<1>2. \A s \in Sessions : Dumping(s)
  BY DEF Dumping, Written
<1>3. \A f \in listed \ shared : Backed(f)
  BY DEF Backed
<1>4. QED
  BY <1>1, <1>2, <1>3 DEF FilesInv

\* What is not a step of a backup.
Elsewhere(s) == Starts(s) \/ Rebuilds(s) \/ Delivers(s) \/ Replays(s) \/ Notes(s) \/ Ends(s)

\* Steps other than mysqldump's leave the backups alone.
LEMMA FilesAside ==
    ASSUME Shapes, Places, Numbered, NEW s \in Sessions, Elsewhere(s)
    PROVE  /\ listed' = listed /\ taken' = taken /\ shared' = shared
           /\ \/ DOMAIN files' = DOMAIN files
              \/ DOMAIN files' = DOMAIN files \cup {starts + 2} /\ Starts(s)
           /\ \A f \in DOMAIN files : files'[f] = files[f]
           /\ step'[s] \notin {"connect", "dump"}
           /\ step[s] \in {"connect", "dump"} => crashed'
           /\ step'[s] \in {"restore", "open"} =>
                 image'[s] = image[s] /\ (step[s] = "restore" \/ Starts(s))
<1> DEFINE Unmoved ==
             /\ listed' = listed /\ taken' = taken /\ shared' = shared /\ files' = files
             /\ step'[s] \notin {"connect", "dump", "restore", "open"}
             /\ step[s] \notin {"connect", "dump"}
<1> USE DEF Shapes, SessionShapes, Target!GoTo, Target!fileVars, Target!historyVars
<1>1. CASE Starts(s)
  <2>1. listed' = listed /\ taken' = taken /\ shared' = shared /\ step[s] = "idle"
    BY <1>1, StartsAt DEF Begun
  <2>2. step'[s] \notin {"connect", "dump"}
    BY <1>1, StepsFirst
  <2>3. ASSUME files' = files, image' = image \/ step'[s] \notin {"restore", "open"}
        PROVE  /\ \A f \in DOMAIN files : files'[f] = files[f]
               /\ DOMAIN files' = DOMAIN files
               /\ step'[s] \in {"restore", "open"} => image'[s] = image[s]
    BY <2>3
  <2>4. CASE \E restore \in BOOLEAN : Target!StartNightly(s, restore)
    BY <1>1, <2>1, <2>2, <2>3, <2>4 DEF Target!StartNightly
  <2>5. CASE Target!StartReset(s)
    BY <1>1, <2>1, <2>2, <2>3, <2>5 DEF Target!StartReset, Target!workVars
  <2>6. ASSUME NEW o, NEW f, Target!StartRestore(s, o, f)
        PROVE  files' = files /\ step'[s] \notin {"restore", "open"}
    BY <2>6 DEF Target!StartRestore, Target!Start
  <2>7. ASSUME NEW f \in Uploadable, Target!StartUpload(s, f)
        PROVE  /\ \A g \in DOMAIN files : files'[g] = files[g]
               /\ DOMAIN files' = DOMAIN files \cup {starts + 2}
               /\ image' = image
    <3>1. starts' + 1 = starts + 2
      BY <2>7, StartsAt DEF Begun, FileShapes, Starts
    <3>2. starts + 2 \notin DOMAIN files
      BY DEF FileShapes, Numbered
    <3>3. QED
      BY <2>7, <3>1, <3>2 DEF Target!StartUpload, Target!With
  <2>8. QED
    BY <1>1, <2>1, <2>2, <2>3, <2>4, <2>5, <2>6, <2>7 DEF Starts
<1>2. CASE Target!DropDatabase(s) \/ Target!CreateDatabase(s)
  BY <1>2 DEF Target!DropDatabase, Target!CreateDatabase
<1>3. ASSUME NEW t, \/ Target!CreateTable(s, t) \/ Target!TruncateLookup(s, t)
                    \/ Target!DeliverEntity(s, t) \/ Target!DeliverFails(s, t)
      PROVE  Unmoved
  BY <1>3, Turns DEF Target!CreateTable, Target!TruncateLookup, Target!DeliverEntity,
         Target!DeliverFails
<1>4. ASSUME NEW t, Target!LoadLookup(s, t) PROVE Unmoved
  BY <1>4, Turns DEF Target!LoadLookup
<1>5. ASSUME NEW t, Target!ReplayTable(s, t) \/ Target!FillTable(s, t) PROVE Unmoved
  BY <1>5 DEF Target!ReplayTable, Target!FillTable
<1>6. CASE Target!EndReplay(s)
  BY <1>6 DEF Target!EndReplay
<1>7. CASE Target!RestoreSource(s)
  BY <1>7 DEF Target!RestoreSource
<1>8. CASE Target!ReplaySource(s)
  BY <1>8 DEF Target!ReplaySource
<1>9. ASSUME NEW kind, Target!RecordUpload(s, kind) PROVE Unmoved
  BY <1>9 DEF Target!RecordUpload
<1>10. CASE Target!MarkUsed(s)
  BY <1>10 DEF Target!MarkUsed
<1>11. CASE Ends(s)
  BY <1>11, EndsAt DEF Over
<1>12. QED
  BY <1>1, <1>2, <1>3, <1>4, <1>5, <1>6, <1>7, <1>8, <1>9, <1>10, <1>11
  DEF Elsewhere, Rebuilds, Delivers, Replays, Notes

\* A session that is to open its backup does nothing else first.
LEMMA NotOpen ==
    ASSUME Shapes, NEW s \in Sessions, Elsewhere(s), Works(s) PROVE step[s] # "open"
<1>1. ~Starts(s) /\ ~Ends(s)
  BY StartsAt, WorksAt, EndsAt DEF Begun, Worked, Over
<1>2. QED
  BY <1>1 DEF Elsewhere, Rebuilds, Delivers, Replays, Notes, Target!DropDatabase,
         Target!CreateDatabase, Target!CreateTable, Target!TruncateLookup, Target!LoadLookup,
         Target!DeliverEntity, Target!DeliverFails, Target!ReplayTable, Target!FillTable,
         Target!EndReplay, Target!RestoreSource, Target!ReplaySource, Target!RecordUpload,
         Target!MarkUsed

\* What a session's file is numbered with when it starts.
LEMMA FirstFile ==
    ASSUME Shapes, Numbered, NEW s \in Sessions, Starts(s)
    PROVE  /\ op'[s] \in {"nightly", "upload"} => file'[s] = starts + 2
           /\ file'[s] =< starts + 2
           /\ step'[s] \in {"restore", "open"} => op'[s] = "nightly" /\ DOMAIN files' = DOMAIN files
<1> USE DEF Shapes, SessionShapes, FileShapes, Target!Start, Target!GoTo
<1>1. CASE \E restore \in BOOLEAN : Target!StartNightly(s, restore)
  BY <1>1 DEF Target!StartNightly, Target!fileVars
<1>2. CASE Target!StartReset(s)
  BY <1>2 DEF Target!StartReset, Target!workVars, Numbered
<1>3. ASSUME NEW o \in {"restore_target", "restore_source"}, NEW f, Target!StartRestore(s, o, f)
      PROVE  /\ op'[s] = o /\ file'[s] =< starts + 2
             /\ step'[s] \notin {"restore", "open"}
  <2>1. f \in DOMAIN files
    BY <1>3 DEF Target!StartRestore, Target!MayRestore
  <2>2. QED
    BY <1>3, <2>1 DEF Target!StartRestore, Numbered
<1>4. CASE \E f \in Uploadable : Target!StartUpload(s, f)
  BY <1>4 DEF Target!StartUpload
<1>5. QED
  BY <1>1, <1>2, <1>3, <1>4 DEF Starts

\* The only file a step of mysqldump touches is the session's own.
LEMMA OwnFileOnly ==
    ASSUME Shapes, Places, Numbered, NEW s \in Sessions, Backs(s)
    PROVE  /\ \A f \in (DOMAIN files \ {file'[s]}) : f \in DOMAIN files' /\ files'[f] = files[f]
           /\ DOMAIN files' \subseteq DOMAIN files \cup {file'[s]}
           /\ \A f : f # file'[s] => (f \in listed' <=> f \in listed)
           /\ file'[s] \in listed' => file'[s] \in DOMAIN files'
           /\ \A f \in DOMAIN taken : f # file'[s] => f \in DOMAIN taken' /\ taken'[f] = taken[f]
           /\ step'[s] \notin {"idle", "restore", "open"}
           /\ \/ file' = file /\ shared' = shared
              \/ /\ step[s] = "open" /\ file'[s] # file[s] /\ shared' = shared \cup {file'[s]}
                 /\ \E x \in Writers \ {s} : file'[s] = file[x] /\ step[x] \notin {"restore", "open"}
<1> USE DEF Shapes, SessionShapes, Target!GoTo, Target!historyVars
<1>1. CASE Target!OpenBackup(s)
  <2>1. PICK f \in {file[s]} \cup Target!SameSecond(s) :
            /\ file' = [file EXCEPT ![s] = f]
            /\ files' = Target!With(files, f, Target!NoFile)
            /\ listed' = listed \cup {f}
            /\ shared' = shared \cup ({f} \ {file[s]})
    BY <1>1, Zenon DEF Target!OpenBackup
  <2>2. step[s] = "open" /\ step'[s] = "connect" /\ taken' = taken /\ file'[s] = f
    BY <1>1, <2>1 DEF Target!OpenBackup
  <2>3. CASE f = file[s]
    <3>1. file' = file /\ shared' = shared
      BY <2>1, <2>3
    <3>2. QED
      BY <2>1, <2>2, <3>1 DEF Target!With, Numbered
  <2>4. CASE f # file[s]
    <3>1. \E x \in Writers \ {s} : f = file[x] /\ step[x] \notin {"restore", "open"}
      BY <2>1, <2>4 DEF Target!SameSecond, Writers
    <3>2. shared' = shared \cup {f}
      BY <2>1, <2>4
    <3>3. QED
      BY <2>1, <2>2, <2>4, <3>1, <3>2 DEF Target!With, Numbered
  <2>5. QED
    BY <2>3, <2>4
<1>2. CASE Target!ConnectDump(s)
  <2>1. files' = [files EXCEPT ![file[s]] = [files[file[s]] EXCEPT !.head = "SQL"]]
    BY <1>2, Zenon DEF Target!ConnectDump
  <2>2. ASSUME NEW r, files' = [files EXCEPT ![file[s]] = r]
        PROVE  DOMAIN files' = DOMAIN files /\ \A f \in DOMAIN files : f # file[s] => files'[f] = files[f]
    BY <2>2
  <2>3. DOMAIN files' = DOMAIN files /\ \A f \in DOMAIN files : f # file[s] => files'[f] = files[f]
    BY <2>1, <2>2, Zenon
  <2>4. /\ listed' = listed /\ step'[s] = "dump" /\ taken' = Target!With(taken, file[s], target)
        /\ file' = file /\ shared' = shared
    BY <1>2 DEF Target!ConnectDump
  <2>5. QED
    BY <2>3, <2>4 DEF Target!With, Numbered
<1>3. ASSUME NEW t, Target!DumpTable(s, t)
      PROVE  /\ DOMAIN files' = DOMAIN files
             /\ \A f \in DOMAIN files : f # file[s] => files'[f] = files[f]
             /\ listed' = listed /\ step'[s] = "dump" /\ taken' = taken
             /\ file' = file /\ shared' = shared
  <2>1. \E r : files' = [files EXCEPT ![file[s]] = r]
    BY <1>3, Zenon DEF Target!DumpTable
  <2>2. /\ listed' = listed /\ step'[s] = "dump" /\ taken' = taken
        /\ file' = file /\ shared' = shared
    BY <1>3 DEF Target!DumpTable, Target!workVars
  <2>3. QED
    BY <2>1, <2>2
<1>4. ASSUME Target!EndDump(s)
      PROVE  /\ DOMAIN files' = DOMAIN files
             /\ \A f \in DOMAIN files : f # file[s] => files'[f] = files[f]
             /\ listed' = listed /\ step'[s] = "drop" /\ taken' = taken
             /\ file' = file /\ shared' = shared
  <2>1. \E r : files' = [files EXCEPT ![file[s]] = r]
    BY <1>4, Zenon DEF Target!EndDump
  <2>2. /\ listed' = listed /\ step'[s] = "drop" /\ taken' = taken
        /\ file' = file /\ shared' = shared
    BY <1>4 DEF Target!EndDump, Target!workVars
  <2>3. QED
    BY <2>1, <2>2
<1>5. CASE Target!BackupFails(s)
  BY <1>5 DEF Target!BackupFails, Target!Discard, Target!Restrict, Target!workVars, Numbered
<1>6. QED
  BY <1>1, <1>2, <1>3, <1>4, <1>5 DEF Backs, Numbered

\* A new file has a number that no file had.
LEMMA NumberedKept ==
    ASSUME Shapes, Places, Numbered, NEW s \in Sessions, Starts(s) \/ Works(s) \/ Ends(s)
    PROVE  Numbered'
<1>0. /\ \A x \in Sessions : step[x] \in {"restore", "open", "connect", "dump"} => x \in Writers
      /\ \A x \in Sessions : file[x] \in Nat
      /\ starts \in Nat
  BY DEF Places, StepOf, Writers, Shapes, SessionShapes, FileShapes, RebuildSteps, ReplaySteps
<1>1. CASE Starts(s)
  <2>1. Begun(s)
    BY <1>1, StartsAt
  <2>2. /\ listed' = listed /\ shared' = shared
        /\ DOMAIN files' = DOMAIN files \/ DOMAIN files' = DOMAIN files \cup {starts + 2}
    BY <1>1, FilesAside DEF Elsewhere
  <2>3. /\ op'[s] \in {"nightly", "upload"} => file'[s] = starts + 2
        /\ file'[s] =< starts + 2
        /\ step'[s] \in {"restore", "open"} => op'[s] = "nightly" /\ DOMAIN files' = DOMAIN files
    BY <1>1, FirstFile
  <2>4. starts' = starts + 1
    BY <2>1 DEF Begun
  <2>5. \A x \in Sessions \ {s} : /\ file'[x] = file[x] /\ step'[x] = step[x]
                                  /\ x \in Writers' <=> x \in Writers
    BY <2>1 DEF Begun, Same, Writers
  <2>6. s \in Writers' => file'[s] = starts + 2
    BY <2>3 DEF Writers
  <2>7. \A x \in Writers' : x \in Sessions
    BY DEF Writers
  <2>8. /\ DOMAIN files' \subseteq 1..(starts' + 1)
        /\ listed' \subseteq DOMAIN files'
    BY <1>0, <2>2, <2>4 DEF Numbered
  <2>9. /\ \A x \in Sessions : file'[x] =< starts' + 1
        /\ \A x \in Writers' : file'[x] >= 1
    BY <1>0, <2>3, <2>4, <2>5, <2>6, <2>7 DEF Numbered
  <2>10. \A x, y \in Writers' : file'[x] = file'[y] => x = y \/ file'[x] \in shared'
    BY <1>0, <2>2, <2>5, <2>6, <2>7 DEF Numbered
  <2>11. \A x \in Sessions : step'[x] \in {"restore", "open"} =>
                                 file'[x] \notin DOMAIN files' \cup shared'
    BY <1>0, <2>2, <2>3, <2>5 DEF Numbered
  <2>12. shared' \subseteq 1..(starts' + 1)
    BY <1>0, <2>2, <2>4 DEF Numbered
  <2>13. QED
    BY <2>8, <2>9, <2>10, <2>11, <2>12 DEF Numbered
<1>2. CASE Backs(s)
  <2>1. Worked(s)
    BY <1>2, WorksAt DEF Works
  <2>2. /\ Writers' = Writers /\ starts' = starts
        /\ \A x \in Sessions \ {s} : step'[x] = step[x] /\ file'[x] = file[x]
    BY <2>1 DEF Worked, Writers, Same
  <2>3. s \in Writers
    BY <1>0, <1>2 DEF Backs, Target!OpenBackup, Target!ConnectDump, Target!DumpTable,
           Target!EndDump, Target!BackupFails
  <2>4. file[s] \in 1..(starts + 1) /\ \A x \in Writers : file[x] \in 1..(starts + 1)
    BY <1>0, <2>3 DEF Numbered, Writers
  <2>5. /\ DOMAIN files' \subseteq DOMAIN files \cup {file'[s]}
        /\ listed' \subseteq DOMAIN files'
        /\ step'[s] \notin {"restore", "open"}
    BY <1>2, OwnFileOnly DEF Numbered
  <2>6. CASE file' = file /\ shared' = shared
    <3>1. \A x \in Sessions : step'[x] \in {"restore", "open"} =>
                                  file'[x] \notin DOMAIN files' \cup shared'
      BY <1>0, <2>2, <2>3, <2>5, <2>6 DEF Numbered
    <3>2. QED
      BY <2>2, <2>4, <2>5, <2>6, <3>1 DEF Numbered
  <2>7. ASSUME NEW z \in Writers \ {s}, file'[s] = file[z], step[z] \notin {"restore", "open"},
               step[s] = "open", file'[s] # file[s], shared' = shared \cup {file'[s]}
        PROVE  Numbered'
    <3>1. file'[s] \in 1..(starts + 1)
      BY <2>4, <2>7
    <3>2. \A x \in Sessions : step'[x] \in {"restore", "open"} =>
                                  file'[x] \notin DOMAIN files' \cup shared'
      <4>1. SUFFICES ASSUME NEW x \in Sessions \ {s}, step[x] \in {"restore", "open"}
                     PROVE  file[x] \notin DOMAIN files \cup shared \cup {file[z]}
        BY <2>2, <2>5, <2>7
      <4>2. file[x] \notin DOMAIN files \cup shared /\ x # z /\ x \in Writers
        BY <1>0, <2>7, <4>1 DEF Numbered
      <4>3. QED
        BY <2>7, <4>2 DEF Numbered
    <3>3. /\ DOMAIN files' \subseteq 1..(starts' + 1) /\ shared' \subseteq 1..(starts' + 1)
      BY <2>2, <2>5, <2>7, <3>1 DEF Numbered
    <3>4. \A x, y \in Writers' : file'[x] = file'[y] => x = y \/ file'[x] \in shared'
      <4>1. \A x \in Writers : x \in Sessions
        BY DEF Writers
      <4>2. QED
        BY <2>2, <2>7, <4>1 DEF Numbered
    <3>5. /\ \A x \in Sessions : file'[x] =< starts' + 1
          /\ \A x \in Writers' : file'[x] >= 1
      <4>1. \A x \in Writers : x \in Sessions
        BY DEF Writers
      <4>2. QED
        BY <1>0, <2>2, <3>1, <4>1 DEF Numbered
    <3>6. QED
      BY <2>5, <3>2, <3>3, <3>4, <3>5 DEF Numbered
  <2>8. QED
    BY <1>2, <2>6, <2>7, OwnFileOnly
<1>3. CASE Elsewhere(s) /\ Works(s)
  <2>1. /\ Writers' = Writers /\ file' = file /\ starts' = starts
        /\ \A x \in Sessions \ {s} : step'[x] = step[x]
        /\ ~Starts(s)
    <3>1. Worked(s) /\ step[s] # "idle" /\ ~Starts(s)
      BY <1>3, WorksAt, StartsAt DEF Worked, Begun
    <3>2. step[s] # "open"
      BY <1>3, <3>1, NotOpen
    <3>3. QED
      BY <3>1, <3>2 DEF Worked, Writers, Same
  <2>2. /\ listed' = listed /\ shared' = shared /\ DOMAIN files' = DOMAIN files
        /\ step'[s] \in {"restore", "open"} => step[s] = "restore"
    BY <1>3, <2>1, FilesAside
  <2>3. QED
    BY <2>1, <2>2 DEF Numbered
<1>4. CASE Ends(s)
  <2>1. Over(s)
    BY <1>4, EndsAt
  <2>2. /\ Writers' \subseteq Writers /\ s \notin Writers' /\ step'[s] = "idle" /\ file'[s] = 0
        /\ \A x \in Sessions \ {s} : step'[x] = step[x] /\ file'[x] = file[x]
        /\ starts' = starts /\ files' = files /\ listed' = listed /\ shared' = shared
        /\ \A x \in Writers : x \in Sessions
    BY <2>1 DEF Over, Writers, Same
  <2>3. QED
    BY <1>0, <2>2 DEF Numbered
<1>5. QED
  BY <1>1, <1>2, <1>3, <1>4 DEF Works, Elsewhere

\* What a session's dump has written is left to it by the other ones.
LEMMA OthersDump ==
    ASSUME Shapes, Places, FilesInv, NEW s \in Sessions, Starts(s) \/ Works(s) \/ Ends(s),
           NEW x \in Sessions \ {s}
    PROVE  Dumping(x)'
<1> USE DEF FilesInv
<1>1. Same(x)
  BY StartsAt, WorksAt, EndsAt DEF Begun, Worked, Over
<1>2. CASE step[x] \notin {"connect", "dump"}
  BY <1>1, <1>2 DEF Same, Dumping, Written
<1>3. ASSUME step[x] \in {"connect", "dump"}, file'[x] \notin shared' PROVE Written(x)'
  <2>0. file'[x] = file[x] /\ step'[x] = step[x] /\ image'[x] = image[x] /\ todo'[x] = todo[x]
    BY <1>1 DEF Same
  <2>1. Numbered' /\ shared \subseteq shared'
    BY NumberedKept, OwnFileOnly, FilesAside DEF Works, Elsewhere
  <2>2. x \in Writers /\ Written(x) /\ file[x] \in listed /\ file[x] \in DOMAIN files
    BY <1>3, <2>0, <2>1
    DEF Places, StepOf, Writers, Dumping, Written, Numbered, RebuildSteps, ReplaySteps
  <2>3. /\ file[x] \in listed' /\ files'[file[x]] = files[file[x]]
        /\ file[x] \in DOMAIN taken => file[x] \in DOMAIN taken' /\ taken'[file[x]] = taken[file[x]]
    <3>1. CASE Backs(s)
      <4>1. s \in Writers
        BY <3>1 DEF Backs, Target!OpenBackup, Target!ConnectDump, Target!DumpTable,
               Target!EndDump, Target!BackupFails, Places, StepOf, Writers, RebuildSteps,
               ReplaySteps
      <4>2. s \in Writers' /\ x \in Writers'
        BY <1>1, <2>2, <3>1, <4>1, WorksAt DEF Works, Worked, Writers, Same
      <4>3. file[x] # file'[s]
        BY <1>3, <2>0, <2>1, <4>2 DEF Numbered
      <4>4. QED
        BY <2>2, <3>1, <4>3, OwnFileOnly
    <3>2. CASE Elsewhere(s)
      BY <2>2, <3>2, FilesAside
    <3>3. QED
      BY <3>1, <3>2 DEF Works, Elsewhere
  <2>4. CASE step[x] = "connect"
    BY <2>0, <2>2, <2>3, <2>4 DEF Written
  <2>5. CASE step[x] = "dump"
    BY <2>0, <2>2, <2>3, <2>5 DEF Written
  <2>6. QED
    BY <1>3, <2>4, <2>5
<1>4. CASE step[x] \in {"connect", "dump"}
  <2>1. Dumping(x)
    OBVIOUS
  <2>2. QED
    BY <1>1, <1>3, <1>4, <2>1 DEF Same, Dumping
<1>5. QED
  BY <1>2, <1>4

\* The steps of its own dump.
LEMMA OwnDump ==
    ASSUME Shapes, Places, FilesInv, NEW s \in Sessions, Starts(s) \/ Works(s) \/ Ends(s)
    PROVE  Dumping(s)'
<1> USE DEF FilesInv, Target!GoTo, Target!workVars, Target!historyVars
<1>1. CASE Target!OpenBackup(s)
  <2>1. step[s] = "open" /\ step'[s] = "connect" /\ image' = image
    BY <1>1 DEF Target!OpenBackup, Shapes, SessionShapes
  <2>2. PICK f : /\ file' = [file EXCEPT ![s] = f]
                 /\ files' = Target!With(files, f, Target!NoFile)
                 /\ listed' = listed \cup {f}
    BY <1>1, Zenon DEF Target!OpenBackup
  <2>3. file'[s] = f
    BY <2>2 DEF Shapes, SessionShapes
  <2>5. files'[f] = Target!NoFile /\ f \in listed'
    <3>1. Target!With(files, f, Target!NoFile)[f] = Target!NoFile
      BY DEF Target!With
    <3>2. QED
      BY <2>2, <3>1
  <2>4. QED
    BY <2>1, <2>3, <2>5 DEF Dumping, Written
<1>2. CASE Target!ConnectDump(s)
  <2>1. /\ step[s] = "connect" /\ step'[s] = "dump" /\ file' = file /\ listed' = listed
        /\ shared' = shared
    BY <1>2 DEF Target!ConnectDump, Shapes, SessionShapes
  <2>2. image[s] = Target!NoFile /\ (file[s] \notin shared => file[s] \in listed)
    BY <2>1 DEF Dumping, Written
  <2>3. todo'[s] = DOMAIN target
    BY <1>2 DEF Target!ConnectDump, Shapes, SessionShapes
  <2>4. image'[s].rows = target
    <3>1. image' = [image EXCEPT ![s] = [image[s] EXCEPT !.rows = target]]
      BY <1>2, Zenon DEF Target!ConnectDump
    <3>2. ASSUME NEW f, f = Target!NoFile, NEW y, y = [f EXCEPT !.rows = target]
          PROVE  y.rows = target
      BY <3>2 DEF Target!NoFile
    <3> DEFINE f == image[s]
               y == [f EXCEPT !.rows = target]
    <3>3. f = Target!NoFile /\ image'[s] = y
      BY <2>2, <3>1 DEF Shapes, SessionShapes
    <3>4. y = [f EXCEPT !.rows = target]
      OBVIOUS
    <3> HIDE DEF f, y
    <3>5. y.rows = target
      BY <3>2, <3>3, <3>4
    <3>6. QED
      BY <3>3, <3>5
  <2>5. file[s] \in DOMAIN taken' /\ taken'[file[s]] = target
    BY <1>2 DEF Target!ConnectDump, Target!With
  <2>6. target = [t \in DOMAIN target |-> target[t]] /\ DOMAIN target \subseteq Target!Tables
    BY DEF Shapes, DatabaseShapes
  <2> DEFINE rows == [t \in DOMAIN target \ DOMAIN target |-> target[t]]
  <2>7. ASSUME file[s] \notin shared
        PROVE  files'[file[s]] = [head |-> "SQL", irimsv |-> FALSE, whole |-> FALSE, rows |-> rows]
    <3>1. rows = Target!Nothing
      BY DEF Target!Nothing
    <3> DEFINE r == [head |-> "SQL", irimsv |-> FALSE, whole |-> FALSE, rows |-> Target!Nothing]
    <3>2. file[s] \in DOMAIN files /\ files' = [files EXCEPT ![file[s]] = r]
      BY <1>2, <2>7, DumpWrites
    <3> HIDE DEF r, rows
    <3>3. files'[file[s]] = r
      BY <3>2
    <3>4. QED
      BY <3>1, <3>3 DEF r
  <2>8. QED
    <3>1. file'[s] \notin shared' => Written(s)'
      BY <2>1, <2>2, <2>3, <2>4, <2>5, <2>7 DEF Written
    <3>2. QED
      BY <2>1, <2>3, <2>4, <2>6, <3>1 DEF Dumping
<1>3. ASSUME NEW t \in Target!Tables, Target!DumpTable(s, t) PROVE Dumping(s)'
  <2>1. /\ step[s] = "dump" /\ step'[s] = "dump" /\ file' = file /\ listed' = listed
        /\ taken' = taken /\ image' = image /\ shared' = shared
    BY <1>3 DEF Target!DumpTable
  <2>2. todo'[s] = todo[s] \ {t}
    BY <1>3 DEF Target!DumpTable, Shapes, SessionShapes
  <2>3. ASSUME file[s] \notin shared
        PROVE  files'[file[s]] =
                  [head |-> "SQL", irimsv |-> FALSE, whole |-> FALSE,
                   rows |-> [u \in DOMAIN image[s].rows \ todo'[s] |-> image[s].rows[u]]]
    <3> DEFINE rows == [u \in DOMAIN image[s].rows \ (todo[s] \ {t}) |-> image[s].rows[u]]
               r == [head |-> "SQL", irimsv |-> FALSE, whole |-> FALSE, rows |-> rows]
    <3>1. file[s] \in DOMAIN files /\ files' = [files EXCEPT ![file[s]] = r]
      BY <1>3, <2>3, DumpWrites
    <3> HIDE DEF r
    <3>2. files'[file[s]] = r
      BY <3>1
    <3>3. QED
      BY <2>2, <3>2 DEF r
  <2>4. Dumping(s)
    OBVIOUS
  <2>5. file'[s] \notin shared' => Written(s)'
    BY <2>1, <2>2, <2>3, <2>4 DEF Dumping, Written
  <2>6. QED
    BY <2>1, <2>2, <2>4, <2>5 DEF Dumping
<1>4. CASE Target!EndDump(s) \/ Target!BackupFails(s)
  BY <1>4 DEF Target!EndDump, Target!BackupFails, Dumping, Written, Shapes, SessionShapes
<1>5. CASE Elsewhere(s)
  <2>1. /\ step'[s] \notin {"connect", "dump"}
        /\ step'[s] \in {"restore", "open"} =>
              image'[s] = image[s] /\ (step[s] = "restore" \/ Starts(s))
    BY <1>5, FilesAside
  <2>2. Starts(s) => step[s] = "idle"
    BY StartsAt DEF Begun
  <2>3. step'[s] = "idle" => image'[s] = Target!NoFile
    BY <1>5, StartsAt, WorksAt, EndsAt DEF Elsewhere, Works, Begun, Worked, Over
  <2>4. step'[s] \in {"idle", "restore", "open", "connect"} => image'[s] = Target!NoFile
    BY <2>1, <2>2, <2>3 DEF Dumping
  <2>5. QED
    BY <2>1, <2>4 DEF Dumping, Written
<1>6. QED
  BY <1>1, <1>2, <1>3, <1>4, <1>5 DEF Works, Backs, Elsewhere

\* A listed file stays what it is, until its session has gone on with it.
LEMMA BackedKept ==
    ASSUME Shapes, Places, FilesInv, NEW s \in Sessions, Starts(s) \/ Works(s) \/ Ends(s),
           NEW f \in listed' \ shared'
    PROVE  Backed(f)'
<1> USE DEF FilesInv
<1>0. \A x \in Sessions \ {s} : step'[x] = step[x] /\ file'[x] = file[x]
  BY StartsAt, WorksAt, EndsAt DEF Begun, Worked, Over, Same
<1>1. (crashed => crashed') /\ f \notin shared
  BY StartsAt, WorksAt, EndsAt, OwnFileOnly, FilesAside DEF Begun, Worked, Over, Works, Elsewhere
<1>2. ASSUME f \in listed, files'[f] = files[f],
             f \in DOMAIN taken => f \in DOMAIN taken' /\ taken'[f] = taken[f],
             crashed' \/ ~(file[s] = f /\ step[s] \in {"connect", "dump"})
      PROVE  Backed(f)'
  BY <1>0, <1>1, <1>2 DEF Backed
<1>3. CASE Elsewhere(s)
  <2>1. f \in listed /\ files'[f] = files[f] /\ taken' = taken
    BY <1>3, FilesAside DEF Numbered
  <2>2. step[s] \in {"connect", "dump"} => crashed'
    BY <1>3, FilesAside
  <2>3. QED
    BY <1>2, <2>1, <2>2
<1>4. CASE Backs(s) /\ f # file'[s]
  <2>1. step[s] \in {"connect", "dump"} => file'[s] = file[s]
    BY <1>4, OwnFileOnly
  <2>2. QED
    BY <1>2, <1>4, <2>1, OwnFileOnly DEF Numbered
<1>5. CASE Backs(s) /\ f = file'[s]
  <2>1. Dumping(s)'
    BY OwnDump
  <2>2. file'[s] = file[s] \/ file'[s] \in shared'
    BY <1>5, OwnFileOnly
  <2>3. CASE step'[s] = "connect"
    BY <1>5, <2>1, <2>3 DEF Dumping, Written, Backed, Target!NoFile
  <2>4. CASE step'[s] = "dump"
    <3> DEFINE rows == [t \in DOMAIN image'[s].rows \ todo'[s] |-> image'[s].rows[t]]
    <3>1. files'[file'[s]] = [head |-> "SQL", irimsv |-> FALSE, whole |-> FALSE, rows |-> rows]
      BY <1>5, <2>1, <2>4 DEF Dumping, Written
    <3> HIDE DEF rows
    <3>2. ~files'[f].whole
      BY <1>5, <3>1
    <3>3. QED
      BY <1>5, <2>4, <3>2 DEF Backed
  <2>5. CASE Target!EndDump(s)
    <3>1. step[s] = "dump" /\ taken' = taken /\ file[s] = f
      BY <1>5, <2>2, <2>5 DEF Target!EndDump, Target!historyVars
    <3>2. f \in DOMAIN taken /\ taken[f] = image[s].rows
      BY <1>1, <3>1 DEF Dumping, Written
    <3> DEFINE r == [head |-> "SQL", irimsv |-> FALSE, whole |-> TRUE, rows |-> image[s].rows]
    <3>3. file[s] \in DOMAIN files /\ files' = [files EXCEPT ![file[s]] = r]
      BY <1>1, <2>5, <3>1, DumpWrites
    <3>4. r.whole /\ r.rows = image[s].rows
      OBVIOUS
    <3> HIDE DEF r
    <3>5. files'[f] = r
      BY <3>1, <3>3
    <3>6. QED
      BY <3>1, <3>2, <3>4, <3>5 DEF Backed
  <2>6. CASE Target!BackupFails(s)
    BY <1>5, <2>2, <2>6 DEF Target!BackupFails, Target!Discard
  <2>7. QED
    BY <1>5, <2>3, <2>4, <2>5, <2>6
    DEF Backs, Target!OpenBackup, Target!ConnectDump, Target!DumpTable, Target!GoTo, Shapes,
        SessionShapes
<1>6. QED
  BY <1>3, <1>4, <1>5 DEF Works, Elsewhere

\* The three together.
LEMMA FilesInvKept ==
    ASSUME Shapes, Places, FilesInv, NEW s \in Sessions, Starts(s) \/ Works(s) \/ Ends(s)
    PROVE  FilesInv'
<1>1. Numbered'
  BY NumberedKept DEF FilesInv
<1>2. \A x \in Sessions : Dumping(x)'
  BY OthersDump, OwnDump
<1>3. \A f \in listed' \ shared' : Backed(f)'
  BY BackedKept
<1>4. QED
  BY <1>1, <1>2, <1>3 DEF FilesInv

-----------------------------------------------------------------------------
(* What is missing is covered *)

Less == {ss \in Nat \X Nat : ss[1] < ss[2]}

\* A set of tables that is not empty has a first one.
LEMMA FirstTable ==
    ASSUME NEW S \in SUBSET Target!Tables, S # {}
    PROVE  Target!Min(S) \in S
<1>1. S \subseteq Nat
  BY Constants
<1>2. IsWellFoundedOn(Less, Nat)
  BY NatLessThanWellFounded, Zenon DEF OpToRel, Less
<1>3. PICK x \in S : \A y \in S : ~(<<y, x>> \in Less)
  BY <1>1, <1>2, WFMin
<1>4. ASSUME NEW y \in S PROVE x =< y
  <2>1. y \in Nat /\ x \in Nat
    BY <1>1
  <2>2. <<y, x>> \in Nat \X Nat /\ <<y, x>>[1] = y /\ <<y, x>>[2] = x
    BY <2>1
  <2>3. y < x => <<y, x>> \in Less
    BY <2>2 DEF Less
  <2>4. ~(y < x)
    BY <1>3, <2>3
  <2>5. QED
    BY <2>1, <2>4
<1>5. QED
  BY <1>4 DEF Target!Min

\* The steps at which a session has something to make or to fill.
Covering == {"create", "tables", "truncate", "load"} \cup ReplaySteps

\* The other sessions cover what they did.
LEMMA OthersCover ==
    ASSUME Shapes, NEW s \in Sessions, Starts(s) \/ Works(s) \/ Ends(s), NEW x \in Sessions \ {s}
    PROVE  /\ step'[x] = step[x]
           /\ \A t : Making(x, t)' <=> Making(x, t)
           /\ \A t : Filling(x, t)' <=> Filling(x, t)
<1>1. Same(x)
  BY StartsAt, WorksAt, EndsAt DEF Begun, Worked, Over
<1>2. step'[x] = step[x] /\ todo'[x] = todo[x] /\ image'[x] = image[x]
  BY <1>1 DEF Same
<1>3. QED
  BY <1>2 DEF Making, Filling

\* Steps that cover nothing before and change nothing.
LEMMA CoverAside ==
    ASSUME Shapes, Covered, NEW s \in Sessions, Starts(s) \/ Works(s) \/ Ends(s),
           UNCHANGED <<created, target>>, harmed => harmed',
           step[s] \notin Covering \/ harmed'
    PROVE  Covered'
<1>1. CASE harmed'
  BY <1>1 DEF Covered
<1>2. CASE step[s] \notin Covering /\ ~harmed
  <2>1. \A t : ~Making(s, t) /\ ~Filling(s, t)
    BY <1>2 DEF Making, Filling, Covering, ReplaySteps
  <2>2. step[s] # "create"
    BY <1>2 DEF Covering
  <2>3. CASE ~created
    BY <1>2, <2>2, <2>3, OthersCover DEF Covered
  <2>4. CASE created
    <3>1. ASSUME NEW t \in Target!Tables \ DOMAIN target
          PROVE  \E x \in Sessions : Making(x, t)'
      BY <1>2, <2>1, <2>4, OthersCover DEF Covered
    <3>2. ASSUME NEW t \in Lookups \cap DOMAIN target, target[t] = {}
          PROVE  \E x \in Sessions : Filling(x, t)'
      BY <1>2, <2>1, <2>4, <3>2, OthersCover DEF Covered
    <3>3. QED
      BY <2>4, <3>1, <3>2 DEF Covered
  <2>5. QED
    BY <2>3, <2>4
<1>3. QED
  BY <1>1, <1>2

\* Rows are put into a table, and every table and lookup is as well covered.
LEMMA CoverWith ==
    ASSUME Shapes, Covered, NEW s \in Sessions, Works(s), created, created',
           NEW t \in Target!Tables, NEW rows, target' = Target!With(target, t, rows),
           \A u \in Target!Tables : u # t /\ Making(s, u) => Making(s, u)',
           \A u \in Lookups : u # t /\ Filling(s, u) => Filling(s, u)',
           t \in Lookups /\ rows = {} => Filling(s, t)'
    PROVE  Covered'
<1>1. harmed => harmed'
  BY WorksAt DEF Worked
<1>2. CASE harmed
  BY <1>1, <1>2 DEF Covered
<1>3. CASE ~harmed
  <2>1. /\ DOMAIN target' = DOMAIN target \cup {t} /\ target'[t] = rows
        /\ \A u \in DOMAIN target : u # t => target'[u] = target[u]
    BY DEF Target!With
  <2>2. ASSUME NEW u \in Target!Tables \ DOMAIN target'
        PROVE  \E x \in Sessions : Making(x, u)'
    BY <1>3, <2>1, OthersCover DEF Covered
  <2>3. ASSUME NEW u \in Lookups \cap DOMAIN target', target'[u] = {}
        PROVE  \E x \in Sessions : Filling(x, u)'
    <3>1. CASE u = t
      BY <2>1, <2>3, <3>1
    <3>2. CASE u # t
      BY <1>3, <2>1, <2>3, <3>2, OthersCover DEF Covered
    <3>3. QED
      BY <3>1, <3>2
  <2>4. QED
    BY <2>2, <2>3 DEF Covered
<1>4. QED
  BY <1>2, <1>3

\* What a step makes less, the session itself goes on to fill, or is harm.
LEMMA CoverWorks ==
    ASSUME Shapes, Places, Covered, NEW s \in Sessions, Works(s) PROVE Covered'
<1> USE Constants DEF Target!GoTo, Target!dbVars, Target!historyVars
<1>0. /\ step \in [Sessions -> Target!Steps] /\ todo \in [Sessions -> SUBSET Target!Tables]
      /\ ~created => target = Target!Nothing
      /\ created \in BOOLEAN
  BY DEF Shapes, SessionShapes, DatabaseShapes
<1>1. harmed => harmed'
  BY WorksAt DEF Worked
<1>2. ASSUME UNCHANGED <<created, target>>, step[s] \notin Covering \/ harmed' PROVE Covered'
  BY <1>1, <1>2, CoverAside
<1>3. CASE Backs(s)
  BY <1>2, <1>3 DEF Backs, Target!OpenBackup, Target!ConnectDump, Target!DumpTable,
         Target!EndDump, Target!BackupFails, Covering, ReplaySteps
<1>4. CASE Target!DropDatabase(s)
  BY <1>0, <1>4 DEF Target!DropDatabase, Covered
<1>5. CASE Target!CreateDatabase(s)
  <2>1. /\ created' /\ step'[s] = "tables" /\ todo'[s] = Target!Tables
        /\ target' = Target!Nothing
    BY <1>0, <1>5 DEF Target!CreateDatabase
  <2>2. QED
    BY <2>1 DEF Covered, Making, Target!Nothing
<1>6. ASSUME NEW t \in Target!Tables, Target!CreateTable(s, t) PROVE Covered'
  <2>1. /\ step[s] = "tables" /\ created /\ created' /\ t \in todo[s]
        /\ \/ step'[s] = "truncate" /\ todo[s] = {t}
           \/ step'[s] = "tables" /\ todo'[s] = todo[s] \ {t}
        /\ target' = IF t \in DOMAIN target THEN target ELSE Target!With(target, t, {})
    BY <1>6, Turns DEF Target!CreateTable
  <2>2. \A u : Filling(s, u)'
    BY <2>1 DEF Filling
  <2>3. \A u : u # t /\ Making(s, u) => Making(s, u)'
    BY <2>1 DEF Making
  <2>4. CASE t \in DOMAIN target
    <3>1. target' = target
      BY <2>1, <2>4
    <3>2. CASE harmed
      BY <1>1, <3>2 DEF Covered
    <3>3. CASE ~harmed
      <4>1. ASSUME NEW u \in Target!Tables \ DOMAIN target'
            PROVE  \E x \in Sessions : Making(x, u)'
        BY <2>1, <2>3, <2>4, <3>1, <3>3, OthersCover DEF Covered
      <4>2. QED
        BY <2>1, <2>2, <4>1 DEF Covered
    <3>4. QED
      BY <3>2, <3>3
  <2>5. CASE t \notin DOMAIN target
    BY <2>1, <2>2, <2>3, <2>5, CoverWith
  <2>6. QED
    BY <2>4, <2>5
<1>7. ASSUME NEW t \in Target!Tables, Target!TruncateLookup(s, t) PROVE Covered'
  <2>1. /\ step[s] = "truncate" /\ created /\ created' /\ target' = Target!With(target, t, {})
        /\ \/ step'[s] = "load" /\ todo'[s] = Lookups
           \/ step'[s] = "truncate"
    BY <1>0, <1>7, Turns DEF Target!TruncateLookup, Target!Nothing
  <2>2. \A u \in Lookups : Filling(s, u)'
    BY <2>1 DEF Filling
  <2>3. \A u : ~Making(s, u)
    BY <2>1 DEF Making
  <2>4. QED
    BY <2>1, <2>2, <2>3, CoverWith
<1>8. ASSUME NEW t \in Target!Tables, Target!LoadLookup(s, t) PROVE Covered'
  <2>1. /\ step[s] = "load" /\ created /\ created'
        /\ target' = Target!With(target, t, {Target!Seed})
        /\ \/ todo[s] = {t}
           \/ step'[s] = "load" /\ todo'[s] = todo[s] \ {t}
    BY <1>0, <1>8, Turns DEF Target!LoadLookup, Target!Nothing
  <2>2. \A u : u # t /\ Filling(s, u) => Filling(s, u)'
    BY <2>1 DEF Filling, ReplaySteps
  <2>3. \A u : ~Making(s, u)
    BY <2>1 DEF Making
  <2>4. QED
    BY <2>1, <2>2, <2>3, CoverWith
<1>9. ASSUME NEW e \in Target!Tables, Target!DeliverEntity(s, e) PROVE Covered'
  <2>1. step[s] = "deliver" /\ created /\ created'
    BY <1>0, <1>9 DEF Target!DeliverEntity, Target!Nothing
  <2>2. PICK rows : target' = Target!With(target, e, rows) /\ rows # {}
    BY <1>9 DEF Target!DeliverEntity
  <2>3. \A u : ~Making(s, u) /\ ~Filling(s, u)
    BY <2>1 DEF Making, Filling, ReplaySteps
  <2>4. QED
    BY <2>1, <2>2, <2>3, CoverWith
<1>10. ASSUME NEW e \in Target!Tables, Target!DeliverFails(s, e) PROVE Covered'
  BY <1>2, <1>10 DEF Target!DeliverFails, Covering, ReplaySteps
<1>11. ASSUME NEW t \in Target!Tables, Target!ReplayTable(s, t) PROVE Covered'
  <2>1. /\ step[s] = "replay" /\ created /\ created' /\ t = Target!Min(todo[s])
        /\ target' = Target!With(target, t, {}) /\ step'[s] = "fill" /\ todo' = todo
        /\ image' = image
    BY <1>0, <1>11 DEF Target!ReplayTable
  <2>2. \A u : u # t /\ Filling(s, u) => Filling(s, u)'
    BY <2>1 DEF Filling, ReplaySteps
  <2>3. \A u : ~Making(s, u)
    BY <2>1 DEF Making
  <2>4. Filling(s, t)'
    BY <2>1 DEF Filling
  <2>5. QED
    BY <2>1, <2>2, <2>3, <2>4, CoverWith
<1>12. ASSUME NEW t \in Target!Tables, Target!FillTable(s, t) PROVE Covered'
  <2>1. /\ step[s] = "fill" /\ created /\ created' /\ t = Target!Min(todo[s])
        /\ target' = Target!With(target, t, target[t] \cup image[s].rows[t])
        /\ step'[s] = "replay" /\ image' = image
    BY <1>0, <1>12 DEF Target!FillTable, Target!workVars, Target!Nothing
  <2>2. \A u : u # t /\ Filling(s, u) => Filling(s, u)'
    BY <2>1 DEF Filling, ReplaySteps
  <2>3. \A u : ~Making(s, u)
    BY <2>1 DEF Making
  <2>4. target[t] \cup image[s].rows[t] = {} => Filling(s, t)'
    BY <2>1 DEF Filling, ReplaySteps
  <2>5. QED
    BY <2>1, <2>2, <2>3, <2>4, CoverWith
<1>13. CASE Target!EndReplay(s)
  <2>1. /\ step[s] = "replay" /\ created /\ created' /\ target' = target
        /\ harmed' \/ \A t \in Lookups : image[s].rows[t] # {}
    BY <1>13 DEF Target!EndReplay
  <2>2. CASE harmed'
    BY <2>2 DEF Covered
  <2>3. CASE ~harmed'
    <3>1. /\ \A u : ~Making(s, u)
          /\ \A u \in Lookups : ~Filling(s, u)
      BY <2>1, <2>3 DEF Making, Filling, ReplaySteps
    <3>2. ~harmed
      BY <1>1, <2>3
    <3>3. ASSUME NEW t \in Target!Tables \ DOMAIN target
          PROVE  \E x \in Sessions : Making(x, t)'
      BY <2>1, <3>1, <3>2, OthersCover DEF Covered
    <3>4. ASSUME NEW t \in Lookups \cap DOMAIN target, target[t] = {}
          PROVE  \E x \in Sessions : Filling(x, t)'
      BY <2>1, <3>1, <3>2, <3>4, OthersCover DEF Covered
    <3>5. QED
      BY <2>1, <3>3, <3>4 DEF Covered
  <2>4. QED
    BY <2>2, <2>3
<1>14. CASE Notes(s)
  BY <1>2, <1>14 DEF Notes, Target!RestoreSource, Target!ReplaySource, Target!RecordUpload,
         Target!MarkUsed, Covering, ReplaySteps
<1>15. QED
  BY <1>3, <1>4, <1>5, <1>6, <1>7, <1>8, <1>9, <1>10, <1>11, <1>12, <1>13, <1>14
  DEF Works, Rebuilds, Delivers, Replays

\* A session that ends with something left to do leaves the target harmed; one
\* whose statement another session got in the way of has left it to that one.
LEMMA CoverEnds ==
    ASSUME Shapes, Places, Alone, BuildInv, Covered, NEW s \in Sessions, Ends(s) PROVE Covered'
<1>0. /\ UNCHANGED <<created, target>>
      /\ \A x \in Sessions \ {s} : step'[x] = step[x]
      /\ created \in BOOLEAN /\ (~created => target = Target!Nothing)
  BY EndsAt DEF Over, Same, Shapes, DatabaseShapes
<1>1. ASSUME harmed => harmed', step[s] \notin Covering \/ harmed' PROVE Covered'
  BY <1>0, <1>1, CoverAside
<1>2. CASE Target!RestoreSourceFails(s) \/ Target!ReplaySourceFails(s) \/ Target!MarkFails(s)
  BY <1>1, <1>2 DEF Target!RestoreSourceFails, Target!ReplaySourceFails, Target!MarkFails,
         Covering, ReplaySteps
<1>3. CASE Target!StatementFails(s)
  BY <1>1, <1>3 DEF Target!StatementFails, Covering, ReplaySteps
<1>4. CASE Target!Crash(s)
  BY <1>1, <1>4 DEF Target!Crash, Covering, ReplaySteps
<1>5. CASE Target!RefusedStep(s)
  <2>1. harmed' = (harmed \/ step[s] \in {"load", "fill"}) /\ Target!Refused(s)
    BY <1>5 DEF Target!RefusedStep
  <2>2. CASE harmed \/ step[s] \in {"load", "fill"}
    BY <1>1, <2>1, <2>2
  <2>3. CASE ~harmed /\ step[s] \notin {"load", "fill"}
    <3>1. \/ step[s] = "create" /\ created
          \/ step[s] \in {"tables", "replay"} /\ ~created
          \/ step[s] = "truncate" /\ Target!Min(todo[s]) \notin DOMAIN target
      BY <2>1, <2>3 DEF Target!Refused
    <3>2. CASE step[s] = "create" /\ created
      <4>1. \A t : ~Making(s, t) /\ ~Filling(s, t)
        BY <3>2 DEF Making, Filling, ReplaySteps
      <4>2. ASSUME NEW t \in Target!Tables \ DOMAIN target
            PROVE  \E x \in Sessions : Making(x, t)'
        BY <2>3, <3>2, <4>1, OthersCover DEF Covered
      <4>3. ASSUME NEW t \in Lookups \cap DOMAIN target, target[t] = {}
            PROVE  \E x \in Sessions : Filling(x, t)'
        BY <2>3, <3>2, <4>1, <4>3, OthersCover DEF Covered
      <4>4. QED
        BY <1>0, <3>2, <4>2, <4>3 DEF Covered
    <3>3. CASE step[s] # "create" /\ ~created
      BY <1>0, <2>3, <3>3 DEF Covered
    <3>4. CASE step[s] = "truncate" /\ created /\ Target!Min(todo[s]) \notin DOMAIN target
      <4>1. \A t : ~Making(s, t)
        BY <3>4 DEF Making
      <4>2. ASSUME NEW t \in Target!Tables \ DOMAIN target
            PROVE  \E x \in Sessions : Making(x, t)'
        BY <2>3, <3>4, <4>1, OthersCover DEF Covered
      <4>3. ASSUME NEW u \in Lookups
            PROVE  \E x \in Sessions : Filling(x, u)'
        <5>1. todo[s] # {} /\ todo[s] \in SUBSET Target!Tables
          BY <3>4, <4>3 DEF Places, Shapes, SessionShapes
        <5>2. Target!Min(todo[s]) \in Target!Tables \ DOMAIN target
          BY <3>4, <5>1, FirstTable
        <5>3. PICK x \in Sessions : Making(x, Target!Min(todo[s]))
          BY <2>3, <3>4, <5>2 DEF Covered
        <5>4. x # s /\ step[x] = "tables"
          BY <4>1, <5>3 DEF Making
        <5>5. Filling(x, u)'
          BY <1>0, <5>4 DEF Filling
        <5>6. QED
          BY <5>5
      <4>4. QED
        BY <1>0, <3>4, <4>2, <4>3 DEF Covered
    <3>5. QED
      BY <1>0, <3>1, <3>2, <3>3, <3>4
  <2>4. QED
    BY <2>2, <2>3
<1>6. CASE Target!Finish(s)
  <2>1. step[s] = "done" /\ harmed' = (harmed /\ ~(alone[s] /\ op[s] \in {"nightly", "reset"}))
    BY <1>6 DEF Target!Finish
  <2>2. CASE alone[s] /\ op[s] \in {"nightly", "reset"}
    <3>1. /\ created /\ DOMAIN target = Target!Tables
          /\ \A t \in Lookups : target[t] = {Target!Seed}
      BY <2>1, <2>2 DEF BuildInv, Building
    <3>2. QED
      BY <1>0, <3>1 DEF Covered
  <2>3. CASE ~(alone[s] /\ op[s] \in {"nightly", "reset"})
    BY <1>1, <2>1, <2>3 DEF Covering, ReplaySteps
  <2>4. QED
    BY <2>2, <2>3
<1>7. QED
  BY <1>2, <1>3, <1>4, <1>5, <1>6 DEF Ends

\* Nothing is left uncovered.
LEMMA CoveredKept ==
    ASSUME Shapes, Places, Alone, BuildInv, Covered, NEW s \in Sessions,
           Starts(s) \/ Works(s) \/ Ends(s)
    PROVE  Covered'
<1>1. CASE Starts(s)
  <2>1. UNCHANGED <<created, target, harmed>> /\ step[s] = "idle"
    BY <1>1, StartsAt DEF Begun
  <2>2. QED
    BY <1>1, <2>1, CoverAside DEF Covering, ReplaySteps
<1>2. QED
  BY <1>1, CoverWorks, CoverEnds

-----------------------------------------------------------------------------
(* A rebuild that nothing disturbs *)

\* Where a session has a rebuild's, a restore's or another operation's steps.
LEMMA StepsTell ==
    ASSUME Places, NEW s \in Sessions
    PROVE  /\ step[s] \in {"restore", "open", "connect", "dump", "deliver"} => op[s] = "nightly"
           /\ step[s] \in RebuildSteps => op[s] \in {"nightly", "reset"}
           /\ step[s] \in ReplaySteps => op[s] = "restore_target"
           /\ step[s] = "mark" => op[s] \in {"restore_target", "restore_source"}
           /\ step[s] = "psql" => op[s] = "restore_source"
           /\ step[s] = "record" => op[s] = "upload"
BY DEF Places, StepOf, RebuildSteps, ReplaySteps

\* A step of the rebuild of a session that is alone.
LEMMA BuildsOn ==
    ASSUME Shapes, Places, NEW s \in Sessions, Works(s), Building(s),
           op[s] \in {"nightly", "reset"}, op[s] = "nightly" => Redelivering(s)
    PROVE  Building(s)'
<1> USE Constants DEF Target!GoTo, Target!dbVars
<1>0. /\ step \in [Sessions -> Target!Steps] /\ todo \in [Sessions -> SUBSET Target!Tables]
      /\ ~created => target = Target!Nothing
      /\ DOMAIN target \subseteq Target!Tables
  BY DEF Shapes, SessionShapes, DatabaseShapes
<1>1. CASE Backs(s)
  BY <1>0, <1>1 DEF Building, Backs, Target!OpenBackup, Target!ConnectDump, Target!DumpTable,
         Target!EndDump, Target!BackupFails
<1>2. CASE Target!DropDatabase(s)
  BY <1>0, <1>2 DEF Building, Target!DropDatabase
<1>3. CASE Target!CreateDatabase(s)
  <2>1. /\ created' /\ step'[s] = "tables" /\ todo'[s] = Target!Tables
        /\ target' = Target!Nothing
    BY <1>0, <1>3 DEF Target!CreateDatabase
  <2>2. DOMAIN Target!Nothing = {}
    BY DEF Target!Nothing
  <2>3. QED
    BY <2>1, <2>2 DEF Building
<1>4. ASSUME NEW t \in Target!Tables, Target!CreateTable(s, t) PROVE Building(s)'
  <2>1. /\ step[s] = "tables" /\ created /\ created' /\ t \in todo[s]
        /\ \/ step'[s] = "truncate" /\ todo[s] = {t}
           \/ step'[s] = "tables" /\ todo'[s] = todo[s] \ {t}
        /\ target' = IF t \in DOMAIN target THEN target ELSE Target!With(target, t, {})
    BY <1>4, Turns DEF Target!CreateTable
  <2>2. DOMAIN target = Target!Tables \ todo[s] /\ \A u \in DOMAIN target : target[u] = {}
    BY <2>1 DEF Building
  <2>3. /\ DOMAIN target' = DOMAIN target \cup {t}
        /\ \A u \in DOMAIN target' : target'[u] = {}
    BY <2>1, <2>2 DEF Target!With
  <2>4. todo[s] \subseteq Target!Tables
    BY <1>0
  <2>5. CASE step'[s] = "truncate" /\ todo[s] = {t}
    <3>1. DOMAIN target' = Target!Tables
      BY <2>1, <2>2, <2>3, <2>4, <2>5
    <3>2. QED
      BY <2>1, <2>3, <2>5, <3>1 DEF Building
  <2>6. CASE step'[s] = "tables" /\ todo'[s] = todo[s] \ {t}
    BY <2>1, <2>2, <2>3, <2>4, <2>6 DEF Building
  <2>7. QED
    BY <2>1, <2>5, <2>6
<1>5. ASSUME NEW t \in Target!Tables, Target!TruncateLookup(s, t) PROVE Building(s)'
  <2>1. /\ step[s] = "truncate" /\ target' = Target!With(target, t, {}) /\ created' = created
        /\ \/ step'[s] = "load" /\ todo'[s] = Lookups
           \/ step'[s] = "truncate"
    BY <1>0, <1>5, Turns DEF Target!TruncateLookup
  <2>2. created /\ DOMAIN target = Target!Tables /\ \A u \in DOMAIN target : target[u] = {}
    BY <2>1 DEF Building
  <2>3. DOMAIN target' = Target!Tables /\ \A u \in Target!Tables : target'[u] = {}
    BY <2>1, <2>2 DEF Target!With
  <2>4. QED
    BY <2>1, <2>2, <2>3 DEF Building
<1>6. ASSUME NEW t \in Target!Tables, Target!LoadLookup(s, t) PROVE Building(s)'
  <2>1. /\ step[s] = "load" /\ created' = created /\ t \in todo[s]
        /\ target' = Target!With(target, t, {Target!Seed})
        /\ \/ todo[s] = {t} /\ step'[s] \in {"deliver", "done"}
           \/ step'[s] = "load" /\ todo'[s] = todo[s] \ {t}
    BY <1>0, <1>6, Turns DEF Target!LoadLookup
  <2>2. /\ created /\ DOMAIN target = Target!Tables /\ todo[s] \subseteq Lookups
        /\ \A u \in Lookups \ todo[s] : target[u] = {Target!Seed}
        /\ \A u \in Target!Entities \cup todo[s] : target[u] = {}
    BY <2>1 DEF Building
  <2>3. /\ DOMAIN target' = Target!Tables /\ target'[t] = {Target!Seed}
        /\ \A u \in Target!Tables : u # t => target'[u] = target[u]
    BY <2>1, <2>2 DEF Target!With
  <2>4. CASE todo[s] = {t} /\ step'[s] \in {"deliver", "done"}
    BY <2>1, <2>2, <2>3, <2>4 DEF Building
  <2>5. CASE step'[s] = "load" /\ todo'[s] = todo[s] \ {t}
    <3>1. ASSUME NEW u \in Lookups \ todo'[s] PROVE target'[u] = {Target!Seed}
      <4>1. u = t \/ u \in Lookups \ todo[s]
        BY <2>5
      <4>2. QED
        BY <2>2, <2>3, <4>1
    <3>2. ASSUME NEW u \in Target!Entities \cup todo'[s] PROVE target'[u] = {}
      <4>1. u # t /\ u \in Target!Tables /\ target[u] = {}
        BY <2>1, <2>2, <2>5
      <4>2. QED
        BY <2>3, <4>1
    <3>3. QED
      BY <2>1, <2>2, <2>3, <2>5, <3>1, <3>2 DEF Building
  <2>6. QED
    BY <2>1, <2>4, <2>5
<1>7. ASSUME NEW e \in Target!Tables, Target!DeliverEntity(s, e) PROVE Building(s)'
  <2>1. /\ step[s] = "deliver" /\ step'[s] \in {"deliver", "done"} /\ created' = created
        /\ e \in todo[s]
    BY <1>7, Turns DEF Target!DeliverEntity
  <2>2. PICK rows : target' = Target!With(target, e, rows)
    BY <1>7 DEF Target!DeliverEntity
  <2>3. /\ created /\ DOMAIN target = Target!Tables /\ e \notin Lookups
        /\ \A t \in Lookups : target[t] = {Target!Seed}
    BY <2>1, StepsTell DEF Building, Redelivering
  <2>4. DOMAIN target' = Target!Tables /\ \A t \in Lookups : target'[t] = {Target!Seed}
    BY <2>2, <2>3 DEF Target!With
  <2>5. QED
    BY <2>1, <2>3, <2>4 DEF Building
<1>8. ASSUME NEW e \in Target!Tables, Target!DeliverFails(s, e) PROVE Building(s)'
  <2>1. /\ step[s] = "deliver" /\ step'[s] \in {"deliver", "done"}
        /\ created' = created /\ target' = target
    BY <1>8, Turns DEF Target!DeliverFails
  <2>2. QED
    BY <2>1 DEF Building
<1>9. CASE Replays(s)
  BY <1>9, StepsTell DEF Replays, Target!ReplayTable, Target!FillTable, Target!EndReplay,
         ReplaySteps
<1>10. CASE Notes(s)
  <2>1. CASE Target!RestoreSource(s)
    BY <1>0, <2>1 DEF Building, Target!RestoreSource
  <2>2. QED
    BY <1>10, <2>1, StepsTell DEF Notes, Target!ReplaySource, Target!RecordUpload, Target!MarkUsed
<1>11. QED
  BY <1>1, <1>2, <1>3, <1>4, <1>5, <1>6, <1>7, <1>8, <1>9, <1>10 DEF Works, Rebuilds, Delivers

\* A step of the nightly run of a session that is alone.
LEMMA RedeliversOn ==
    ASSUME Shapes, Places, NEW s \in Sessions, Works(s), Building(s), Redelivering(s),
           op[s] = "nightly"
    PROVE  Redelivering(s)'
<1> USE Constants DEF Target!GoTo, Target!dbVars, Target!workVars, Target!historyVars
<1>0. /\ step \in [Sessions -> Target!Steps] /\ todo \in [Sessions -> SUBSET Target!Tables]
      /\ failed \in [Sessions -> BOOLEAN] /\ restored \in [Sessions -> BOOLEAN]
      /\ DOMAIN crosswalk = Target!Entities
  BY DEF Shapes, SessionShapes, DatabaseShapes
<1>1. ASSUME step'[s] \notin {"deliver", "done"}, restored' = restored, source' = source
      PROVE  Redelivering(s)'
  BY <1>1 DEF Redelivering
<1>2. CASE Backs(s)
  BY <1>0, <1>1, <1>2 DEF Backs, Target!OpenBackup, Target!ConnectDump, Target!DumpTable,
         Target!EndDump, Target!BackupFails
<1>3. CASE Target!DropDatabase(s) \/ Target!CreateDatabase(s)
  BY <1>0, <1>1, <1>3 DEF Target!DropDatabase, Target!CreateDatabase
<1>4. ASSUME NEW t, Target!CreateTable(s, t) PROVE Redelivering(s)'
  BY <1>1, <1>4, Turns DEF Target!CreateTable
<1>5. ASSUME NEW t, Target!TruncateLookup(s, t) PROVE Redelivering(s)'
  BY <1>1, <1>5, Turns DEF Target!TruncateLookup
<1>6. ASSUME NEW t \in Target!Tables, Target!LoadLookup(s, t) PROVE Redelivering(s)'
  <2>1. /\ step[s] = "load" /\ t \in todo[s]
        /\ target' = Target!With(target, t, {Target!Seed})
        /\ restored' = restored /\ source' = source
        /\ \/ step'[s] = "deliver" /\ todo'[s] = Target!Entities
           \/ step'[s] = "load"
    BY <1>6, Turns DEF Target!LoadLookup
  <2>2. CASE step'[s] = "load"
    BY <1>1, <2>1, <2>2
  <2>3. CASE step'[s] = "deliver" /\ todo'[s] = Target!Entities
    <3>1. /\ t \in Lookups /\ DOMAIN target = Target!Tables
          /\ \A e \in Target!Entities : target[e] = {}
      BY <2>1 DEF Building
    <3>2. \A e \in Target!Entities : target'[e] = {}
      BY <2>1, <3>1 DEF Target!With
    <3>3. QED
      BY <2>1, <2>3, <3>2 DEF Redelivering
  <2>4. QED
    BY <2>1, <2>2, <2>3
<1>7. ASSUME NEW e \in Target!Tables, Target!DeliverEntity(s, e) PROVE Redelivering(s)'
  <2> DEFINE load == [no |-> loads + 1, of |-> source]
  <2>1. /\ step[s] = "deliver" /\ e \in todo[s] /\ restored' = restored /\ source' = source
        /\ failed' = failed /\ crosswalk' = [crosswalk EXCEPT ![e] = load]
        /\ \/ todo[s] = {e} /\ step'[s] = "done" /\ todo'[s] = {}
           \/ step'[s] = "deliver" /\ todo'[s] = todo[s] \ {e}
    BY <1>7, Turns DEF Target!DeliverEntity
  <2>2. /\ e \in Target!Entities /\ target[e] = {} /\ DOMAIN target = Target!Tables
        /\ todo[s] \subseteq Target!Entities
        /\ \A u \in todo[s] : target[u] = {}
        /\ ~failed[s] => \A u \in Target!Entities \ todo[s] :
                            target[u] = {crosswalk[u]} /\ crosswalk[u].of = source
        /\ restored[s] => source = "fresh"
    BY <2>1 DEF Redelivering, Building
  <2>3. target' = Target!With(target, e, {load})
    <3>1. PICK gone \in SUBSET target[e] :
                  target' = Target!With(target, e, (target[e] \ gone) \cup {load})
      BY <1>7 DEF Target!DeliverEntity
    <3>2. (target[e] \ gone) \cup {load} = {load}
      BY <2>2
    <3>3. QED
      BY <3>1, <3>2
  <2>4. load.of = source
    OBVIOUS
  <2> HIDE DEF load
  <2>5. /\ target'[e] = {load} /\ crosswalk'[e] = load
        /\ \A u \in Target!Entities : u # e => target'[u] = target[u] /\ crosswalk'[u] = crosswalk[u]
    BY <1>0, <2>1, <2>2, <2>3 DEF Target!With
  <2>6. todo'[s] = todo[s] \ {e}
    BY <2>1
  <2>7. /\ todo'[s] \subseteq Target!Entities
        /\ \A u \in todo'[s] : target'[u] = {}
    BY <2>2, <2>5, <2>6
  <2>8. ASSUME ~failed'[s], NEW u \in Target!Entities \ todo'[s]
        PROVE  target'[u] = {crosswalk'[u]} /\ crosswalk'[u].of = source'
    <3>1. CASE u = e
      BY <2>1, <2>4, <2>5, <3>1
    <3>2. CASE u # e
      BY <2>1, <2>2, <2>5, <2>6, <2>8, <3>2
    <3>3. QED
      BY <3>1, <3>2
  <2>9. QED
    BY <2>1, <2>2, <2>7, <2>8 DEF Redelivering
<1>8. ASSUME NEW e \in Target!Tables, Target!DeliverFails(s, e) PROVE Redelivering(s)'
  <2>1. /\ step[s] = "deliver" /\ restored' = restored /\ source' = source /\ target' = target
        /\ failed'[s]
        /\ \/ todo[s] = {e} /\ step'[s] = "done" /\ todo'[s] = {}
           \/ step'[s] = "deliver" /\ todo'[s] = todo[s] \ {e}
    BY <1>0, <1>8, Turns DEF Target!DeliverFails
  <2>2. QED
    BY <2>1 DEF Redelivering
<1>9. CASE Replays(s)
  BY <1>9, StepsTell DEF Replays, Target!ReplayTable, Target!FillTable, Target!EndReplay,
         ReplaySteps
<1>10. CASE Notes(s)
  <2>1. CASE Target!RestoreSource(s)
    <3>1. source' = "fresh" /\ step'[s] = "open"
      BY <1>0, <2>1 DEF Target!RestoreSource
    <3>2. QED
      BY <3>1 DEF Redelivering
  <2>2. QED
    BY <1>10, <2>1, StepsTell DEF Notes, Target!ReplaySource, Target!RecordUpload, Target!MarkUsed
<1>11. QED
  BY <1>2, <1>3, <1>4, <1>5, <1>6, <1>7, <1>8, <1>9, <1>10 DEF Works, Rebuilds, Delivers

\* Other sessions that start end the undisturbed rebuild.
LEMMA BuildKept ==
    ASSUME Shapes, Places, Alone, BuildInv, NEW s \in Sessions, Starts(s) \/ Works(s) \/ Ends(s)
    PROVE  BuildInv'
<1>1. \A x \in Sessions : alone'[x] => x = s
  BY AloneKept
<1>2. SUFFICES ASSUME alone'[s]
               PROVE  /\ op'[s] \in {"nightly", "reset"} => Building(s)'
                      /\ op'[s] = "nightly" => Redelivering(s)'
  BY <1>1 DEF BuildInv
<1>3. CASE Starts(s)
  <2>1. step'[s] \in {"restore", "open", "drop", "record", "replay", "psql"}
    BY <1>3, StepsFirst
  <2>2. ~restored'[s]
    BY <1>3, StartsAt DEF Begun, Places
  <2>3. QED
    BY <2>1, <2>2 DEF Building, Redelivering
<1>4. CASE Works(s)
  <2>1. alone[s] /\ op'[s] = op[s]
    BY <1>2, <1>4, WorksAt DEF Worked
  <2>2. /\ op[s] \in {"nightly", "reset"} => Building(s)
        /\ op[s] = "nightly" => Redelivering(s)
    BY <2>1 DEF BuildInv
  <2>3. QED
    BY <1>4, <2>1, <2>2, BuildsOn, RedeliversOn
<1>5. CASE Ends(s)
  BY <1>2, <1>5, EndsAt DEF Over
<1>6. QED
  BY <1>3, <1>4, <1>5

-----------------------------------------------------------------------------
(* A restore that nothing disturbs *)

\* A step of the restore of a session that is alone.
LEMMA RestoresOn ==
    ASSUME Shapes, Places, NEW s \in Sessions, Works(s), Restoring(s), op[s] = "restore_target"
    PROVE  Restoring(s)'
<1> USE DEF Target!GoTo, Target!fileVars, Target!workVars, Target!historyVars, Target!dbVars
<1>0. /\ step \in [Sessions -> Target!Steps] /\ todo \in [Sessions -> SUBSET Target!Tables]
      /\ ~created => target = Target!Nothing
  BY DEF Shapes, SessionShapes, DatabaseShapes
<1>1. step[s] \in ReplaySteps \cup {"mark", "done"}
  BY DEF Places, StepOf
<1>2. ASSUME NEW t \in Target!Tables, Target!ReplayTable(s, t) PROVE Restoring(s)'
  <2>1. /\ t \in todo[s] /\ t = Target!Min(todo[s]) /\ step'[s] = "fill" /\ todo' = todo
        /\ target' = Target!With(target, t, {})
        /\ UNCHANGED <<file, image, listed, taken, shared>>
    BY <1>0, <1>2 DEF Target!ReplayTable
  <2>2. /\ target'[t] = {}
        /\ \A u : u # t /\ u \in DOMAIN target => target'[u] = target[u]
        /\ \A u : u \in DOMAIN target' <=> u = t \/ u \in DOMAIN target
    BY <2>1 DEF Target!With
  <2>3. QED
    BY <2>1, <2>2 DEF Restoring
<1>3. ASSUME NEW t \in Target!Tables, Target!FillTable(s, t) PROVE Restoring(s)'
  <2>1. /\ t \in todo[s] /\ t = Target!Min(todo[s]) /\ step'[s] = "replay" /\ step[s] = "fill"
        /\ todo'[s] = todo[s] \ {t} /\ t \in DOMAIN target
        /\ target' = Target!With(target, t, target[t] \cup image[s].rows[t])
        /\ UNCHANGED <<file, image, listed, taken, shared>>
    BY <1>0, <1>3 DEF Target!FillTable
  <2>2. target[t] = {}
    BY <2>1 DEF Restoring
  <2>3. /\ target'[t] = image[s].rows[t]
        /\ \A u : u # t /\ u \in DOMAIN target => target'[u] = target[u]
        /\ DOMAIN target' = DOMAIN target
    BY <2>1, <2>2 DEF Target!With
  <2>4. QED
    BY <2>1, <2>3 DEF Restoring
<1>4. CASE Target!EndReplay(s) \/ Target!MarkUsed(s)
  <2>1. /\ UNCHANGED <<target, todo, file, image, listed, taken, shared>> /\ todo[s] = {}
        /\ step'[s] \in {"mark", "done"}
    BY <1>0, <1>4 DEF Target!EndReplay, Target!MarkUsed, Restoring
  <2>2. QED
    BY <2>1 DEF Restoring
<1>5. CASE Backs(s)
  BY <1>1, <1>5 DEF Backs, Target!OpenBackup, Target!ConnectDump, Target!DumpTable,
         Target!EndDump, Target!BackupFails, ReplaySteps
<1>6. CASE Rebuilds(s)
  BY <1>1, <1>6 DEF Rebuilds, Target!DropDatabase, Target!CreateDatabase, Target!CreateTable,
         Target!TruncateLookup, Target!LoadLookup, ReplaySteps
<1>7. CASE Delivers(s)
  BY <1>1, <1>7 DEF Delivers, Target!DeliverEntity, Target!DeliverFails, ReplaySteps
<1>8. CASE Notes(s)
  BY <1>1, <1>4, <1>8 DEF Notes, Target!RestoreSource, Target!ReplaySource, Target!RecordUpload,
         ReplaySteps
<1>9. QED
  BY <1>2, <1>3, <1>4, <1>5, <1>6, <1>7, <1>8 DEF Works, Replays

\* What a restore begins with is a listed file as it was backed up.
LEMMA RestoreKept ==
    ASSUME Shapes, Places, Alone, RestoreInv, FilesInv, NEW s \in Sessions,
           Starts(s) \/ Works(s) \/ Ends(s)
    PROVE  RestoreInv'
<1>1. \A x \in Sessions : alone'[x] => x = s
  BY AloneKept
<1>2. SUFFICES ASSUME alone'[s], op'[s] = "restore_target"
               PROVE  Restoring(s)'
  BY <1>1 DEF RestoreInv
<1>3. CASE Starts(s)
  <2> USE DEF Shapes, SessionShapes, Target!Start, Target!GoTo
  <2>1. CASE \E restore \in BOOLEAN : Target!StartNightly(s, restore)
    BY <1>2, <2>1 DEF Target!StartNightly
  <2>2. CASE Target!StartReset(s)
    BY <1>2, <2>2 DEF Target!StartReset
  <2>3. CASE \E f \in Uploadable : Target!StartUpload(s, f)
    BY <1>2, <2>3 DEF Target!StartUpload
  <2>4. ASSUME NEW o, NEW f \in Target!FileIds, Target!StartRestore(s, o, f)
        PROVE  Restoring(s)'
    <3>1. /\ o = "restore_target" /\ step'[s] = "replay" /\ file'[s] = f /\ image'[s] = files[f]
          /\ todo'[s] = DOMAIN files[f].rows
          /\ UNCHANGED <<listed, taken, shared>>
      BY <1>2, <2>4, Zenon DEF Target!StartRestore, Target!fileVars
    <3>2. f \in listed \ shared /\ files[f].whole => files[f].rows = taken[f]
      BY DEF FilesInv, Backed
    <3>3. QED
      BY <3>1, <3>2 DEF Restoring
  <2>5. QED
    BY <1>3, <2>1, <2>2, <2>3, <2>4 DEF Starts
<1>4. CASE Works(s)
  <2>1. alone[s] /\ op[s] = "restore_target"
    BY <1>2, <1>4, WorksAt DEF Worked
  <2>2. QED
    BY <1>4, <2>1, RestoresOn DEF RestoreInv
<1>5. CASE Ends(s)
  BY <1>2, <1>5, EndsAt DEF Over
<1>6. QED
  BY <1>3, <1>4, <1>5

-----------------------------------------------------------------------------
(* The theorems about the target *)

\* The initial states have the invariant.
LEMMA TargetInit == RebuildInit => TargetInv
<1> SUFFICES ASSUME RebuildInit PROVE TargetInv
  OBVIOUS
<1>1. Shapes /\ Places /\ Alone /\ FilesInv
  BY ShapesInit, FilesInit
<1>2. BuildInv /\ RestoreInv
  BY DEF RebuildInit, Target!Init, BuildInv, RestoreInv
<1>3. Covered
  BY Constants DEF RebuildInit, Target!Init, Target!Rebuilt, Covered
<1>4. QED
  BY <1>1, <1>2, <1>3 DEF TargetInv

\* The parts are inductive together: what a dump has written, what is left to
\* do, and who is alone are known of each other.
LEMMA TargetStep == TargetInv /\ [RebuildNext]_<<vars, targetVars>> => TargetInv'
<1> SUFFICES ASSUME TargetInv, [RebuildNext]_<<vars, targetVars>> PROVE TargetInv'
  OBVIOUS
<1>1. CASE UNCHANGED targetVars
  <2> USE <1>1 DEF targetVars
  <2>1. Shapes' /\ Places' /\ Alone'
    BY DEF TargetInv, Shapes, SessionShapes, DatabaseShapes, FileShapes, Places, Alone
  <2>2. BuildInv' /\ RestoreInv'
    <3>1. ASSUME NEW s \in Sessions, alone'[s], op'[s] \in {"nightly", "reset"}
          PROVE  Building(s)' /\ (op'[s] = "nightly" => Redelivering(s)')
      <4>1. Building(s) /\ (op[s] = "nightly" => Redelivering(s))
        BY <3>1 DEF TargetInv, BuildInv
      <4>2. Building(s)'
        BY <4>1 DEF Building
      <4>3. op'[s] = "nightly" => Redelivering(s)'
        BY <4>1 DEF Redelivering
      <4>4. QED
        BY <4>2, <4>3
    <3>2. ASSUME NEW s \in Sessions, alone'[s], op'[s] = "restore_target"
          PROVE  Restoring(s)'
      <4>1. Restoring(s)
        BY <3>2 DEF TargetInv, RestoreInv
      <4>2. QED
        BY <4>1 DEF Restoring
    <3>3. QED
      BY <3>1, <3>2 DEF BuildInv, RestoreInv
  <2>3. FilesInv'
    <3>1. Numbered'
      BY DEF TargetInv, FilesInv, Numbered, Writers
    <3>2. ASSUME NEW s \in Sessions PROVE Dumping(s)'
      <4>1. Dumping(s)
        BY DEF TargetInv, FilesInv
      <4>2. step' = step /\ image' = image /\ file' = file /\ todo' = todo /\ files' = files
        OBVIOUS
      <4>3. listed' = listed /\ taken' = taken /\ shared' = shared
        OBVIOUS
      <4>4. QED
        BY <4>1, <4>2, <4>3 DEF Dumping, Written
    <3>3. \A f \in listed' \ shared' : Backed(f)'
      BY DEF TargetInv, FilesInv, Backed
    <3>4. QED
      BY <3>1, <3>2, <3>3 DEF FilesInv
  <2>4. Covered'
    BY DEF TargetInv, Covered, Making, Filling
  <2>5. QED
    BY <2>1, <2>2, <2>3, <2>4 DEF TargetInv
<1>2. CASE Target!Next
  <2>1. PICK s \in Sessions : Starts(s) \/ Works(s) \/ Ends(s)
    BY <1>2, ByGroups
  <2>2. Shapes /\ Places /\ Alone /\ BuildInv /\ RestoreInv /\ FilesInv /\ Covered
    BY DEF TargetInv
  <2>3. Shapes'
    BY <2>1, <2>2, SessionsKept, DatabasesKept, FilesKept DEF Shapes
  <2>4. Places' /\ Alone' /\ BuildInv' /\ RestoreInv' /\ FilesInv' /\ Covered'
    BY <2>1, <2>2, PlacesKept, AloneKept, BuildKept, RestoreKept, FilesInvKept, CoveredKept
  <2>5. QED
    BY <2>3, <2>4 DEF TargetInv
<1>3. QED
  BY <1>1, <1>2 DEF RebuildNext

\* The work on the target leaves the plan alone.
LEMMA PlanIsKept == RebuildSpec => Spec
<1>1. RebuildInit => Init
  BY DEF RebuildInit
<1>2. [RebuildNext]_<<vars, targetVars>> => [Next]_vars
  BY DEF RebuildNext
<1>3. QED
  BY <1>1, <1>2, PTL DEF RebuildSpec, Spec

\* A listed backup that is whole is the target of the moment it began, and a
\* restore of it that nothing disturbed brings that moment back; half a backup
\* is being written, or its writer died, for all files but those that two runs
\* opened in one second (backup_target, _discard_partial_backup, restore_target).
THEOREM BackupsHold == RebuildSpec => []BackupsAreSound
<1>1. TargetInv => BackupsAreSound
  <2> SUFFICES ASSUME TargetInv PROVE BackupsAreSound
    OBVIOUS
  <2>1. \A f \in listed \ shared : Backed(f)
    BY DEF TargetInv, FilesInv
  <2>2. \A f \in listed \ shared : files[f].whole => files[f].rows = taken[f]
    BY <2>1 DEF Backed
  <2>3. ASSUME NEW s \in Sessions, step[s] = "done", op[s] = "restore_target", alone[s],
               file[s] \in listed \ shared, image[s].whole, NEW t \in DOMAIN taken[file[s]]
        PROVE  target[t] = taken[file[s]][t]
    <3>1. Restoring(s)
      BY <2>3 DEF TargetInv, RestoreInv
    <3>2. todo[s] = {} /\ image[s].rows = taken[file[s]]
      BY <2>3, <3>1 DEF Restoring
    <3>3. QED
      BY <2>3, <3>1, <3>2 DEF Restoring
  <2>4. Target!HalfBackupsExplained
    BY <2>1 DEF Backed, Target!HalfBackupsExplained
  <2>5. QED
    BY <2>2, <2>3, <2>4 DEF BackupsAreSound, Target!BackupsAreSound, Target!RestoreBringsBack
<1>2. QED
  BY TargetInit, TargetStep, <1>1, PTL DEF RebuildSpec

\* When nobody is at work on a target that no operation has harmed, it has every
\* table, rows in every lookup, and rows wherever a foreign key of the plan's
\* written and seeded tables leads (recreate_target_database, seed_tables).
THEOREM NothingIsMissing == RebuildSpec => []LeftComplete
<1>1. TargetInv => Target!LeftComplete
  <2> SUFFICES ASSUME TargetInv, \A s \in Sessions : step[s] = "idle", ~harmed
               PROVE  created /\ DOMAIN target = Target!Tables
                      /\ \A t \in Lookups : target[t] # {}
    BY DEF Target!LeftComplete
  <2>1. \A s \in Sessions : \A t : ~Making(s, t) /\ ~Filling(s, t) /\ step[s] # "create"
    BY DEF Making, Filling, ReplaySteps
  <2>2. /\ created /\ Target!Tables \ DOMAIN target = {}
        /\ \A t \in Lookups \cap DOMAIN target : target[t] # {}
    BY <2>1 DEF TargetInv, Covered
  <2>3. QED
    BY <2>2, Constants DEF TargetInv, Shapes, DatabaseShapes
<1>2. SeedsSuffice /\ Target!LeftComplete => LeftComplete
  <2> SUFFICES ASSUME SeedsSuffice, Target!LeftComplete, Planned,
                      \A s \in Sessions : step[s] = "idle", ~harmed,
                      NEW i \in 1..NTables, NEW j \in 1..NTables,
                      ordered[i] \in writeSet \cup SeedTables,
                      ordered[j] \in ParentTables(ordered[i]) \ writeSet
               PROVE  target[j] # {}
    BY DEF LeftComplete
  <2>1. ordered[j] \in SeedTables
    BY DEF SeedsSuffice, Planned, ParentTables
  <2>2. j \in Lookups
    BY <2>1 DEF Planned
  <2>3. QED
    BY <2>2 DEF Target!LeftComplete
<1>3. QED
  BY TargetInit, TargetStep, PlanIsKept, SeedsCloseTheWriteSet, <1>1, <1>2, PTL DEF RebuildSpec

\* A nightly run that nothing disturbed and that reports no failed entity leaves
\* the lookups seeded and the current source in every entity's table, as the
\* crosswalk says (run_nightly_refresh, redeliver_all).
THEOREM NightlyIsFresh == RebuildSpec => []RebuildIsFresh
<1>1. TargetInv => RebuildIsFresh
  <2> SUFFICES ASSUME TargetInv, NEW s \in Sessions, step[s] = "done", op[s] = "nightly",
                      alone[s], ~failed[s]
               PROVE  /\ DOMAIN target = Target!Tables
                      /\ \A t \in Lookups : target[t] = {Target!Seed}
                      /\ \A e \in Target!Entities : target[e] = {crosswalk[e]}
                                                    /\ crosswalk[e].of = source
                      /\ restored[s] => source = "fresh"
    BY DEF RebuildIsFresh, Target!RebuildIsFresh
  <2>1. Building(s) /\ Redelivering(s)
    BY DEF TargetInv, BuildInv
  <2>2. QED
    BY <2>1 DEF Building, Redelivering
<1>2. QED
  BY TargetInit, TargetStep, <1>1, PTL DEF RebuildSpec
=============================================================================
