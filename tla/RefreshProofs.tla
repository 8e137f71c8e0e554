--------------------------- MODULE RefreshProofs ----------------------------
(***************************************************************************)
(* Proof that a refresh is exact where the crosswalk has kept track, for   *)
(* one process that refreshes, rebuilds and delivers one thing after the   *)
(* other, any number of entities, tables, source rows, changes, failures   *)
(* and crashes.                                                            *)
(*                                                                         *)
(* What is committed of a table agrees with the crosswalk and the reports  *)
(* (Agrees), except between the two commits of a run; what an open pair of *)
(* transactions shows agrees in the same way with what it has written and  *)
(* recorded (Opened), so that either end of the pair, both commits or the  *)
(* rollback of both, leaves a table that agrees.  An entry that leads to   *)
(* another row's id is ruled out where the reports need it (Leads): in a   *)
(* table several entities share, and for an entity refreshed since the     *)
(* last reset.                                                             *)
(***************************************************************************)
EXTENDS Refresh, FiniteSetTheorems, WellFoundedInduction, TLAPS

\* Without this two runs refresh, or insert, the same rows.
OneProcess == \A x, y \in Runs : x = y

USE RefreshAssumption

-----------------------------------------------------------------------------
(* The invariant *)

Typed ==
    /\ TypeOK
    /\ target \in [Tables -> SUBSET Row]
    /\ ids \in [Runs -> SUBSET (Nat \ {0})]
    /\ gone \in [Runs -> SUBSET Row]
    /\ new \in [Runs -> SUBSET Row]

Outside == {"idle", "restore", "backup", "reset", "next"}
Before  == Outside \cup {"delete"}
Open    == {"unmap", "write", "record", "central"}

\* A run that refreshes has something left to refresh.
Busy == \A x \in Runs : pc[x] \in Outside \ {"idle"} => todo[x] # {}

\* What a run has at each of its steps.  A run with nothing left to refresh
\* delivers.
PlaceOf(x) ==
    /\ pc[x] = "idle" => todo[x] = {}
    /\ pc[x] \in {"delete", "unmap"} => entity[x] \in todo[x]
    /\ pc[x] \in Open /\ todo[x] # {} => entity[x] \in todo[x]
    /\ pc[x] \in Before \cup {"unmap"} =>
          new[x] = {} /\ keys[x] = {} /\ xw[x] = [r \in Refs |-> None] /\ wrote[x] = {}
    /\ pc[x] \in Before \cup {"central"} => gone[x] = {} /\ new[x] = {}
    /\ pc[x] = "delete" => ids[x] = {crosswalk[r] : r \in Keys(entity[x])} \ {None}
    /\ pc[x] \notin Outside =>
          /\ rows[x] \cup wrote[x] \cup keys[x] \subseteq Keys(entity[x])
          /\ todo[x] # {} => ~report[entity[x]].done
    /\ rows[x] \cap wrote[x] = {}
    /\ pc[x] = "record" => cur[x] \in Keys(entity[x]) /\ cur[x] \notin rows[x]
    /\ pc[x] = "central" /\ todo[x] = {} => wrote[x] \subseteq report[entity[x]].rows

Places == \A x \in Runs : PlaceOf(x)

\* A set of rows of table t: no id is there twice, or still to be given.
RowsOf(t, T) ==
    /\ \A row \in T : TableOf[EntityOf[row.ref]] = t /\ row.id < nextId[t]
    /\ \A m, n \in T : m.id = n.id => m = n

IdsInv ==
    /\ \A t \in Tables : RowsOf(t, target[t])
    /\ \A x \in Runs : RowsOf(Tab(x), target[Tab(x)] \cup new[x])

Shared(t) == \E d, e \in Entities : d # e /\ TableOf[d] = t /\ TableOf[e] = t

\* The crosswalk X knows every row of T, but the one being recorded.
Tracks(T, X, but) == \A row \in T : X[row.ref] = row.id \/ row.ref \in but

\* The entries X has for e lead to rows of its own in T.
Leads(e, T, X) == \A r \in Keys(e) : X[r] # None => [id |-> X[r], ref |-> r] \in T

\* The source rows of e that have a row in T are those of S.
Holds(e, T, S) == \A r \in Keys(e) : r \in S <=> \E row \in T : row.ref = r

\* What is known of an entity in a table where nothing has been lost.
Agrees(e, T, X) ==
    /\ Shared(TableOf[e]) \/ report[e].done => Leads(e, T, X)
    /\ report[e].done => Holds(e, T, report[e].rows)

\* No run is between its two commits on table t.
Between(t) == \E x \in Runs : pc[x] = "central" /\ Tab(x) = t

Settled ==
    \A t \in Tables \ apart : ~Between(t) =>
        /\ Tracks(target[t], crosswalk, {})
        /\ \A e \in Entities : TableOf[e] = t => Agrees(e, target[t], crosswalk)

\* The crosswalk as the run sees it.
Seen(x) == [r \in Refs |-> Lookup(x, r)]

\* What the run has said, or will say when it commits, of its entity.
Said(x) == IF todo[x] = {} THEN report[entity[x]].rows \cup wrote[x] ELSE wrote[x]
Sure(x) == todo[x] # {} \/ report[entity[x]].done

Recording(x) == IF pc[x] = "record" THEN {cur[x]} ELSE {}

OpenedBy(x) ==
    /\ Tracks(Visible(x), Seen(x), Recording(x))
    /\ pc[x] = "record" => \A m, n \in Visible(x) : m.ref = cur[x] /\ n.ref = cur[x] => m = n
    /\ \A d \in Entities \ {entity[x]} : TableOf[d] = Tab(x) => Agrees(d, Visible(x), Seen(x))
    /\ pc[x] # "unmap" /\ (Shared(Tab(x)) \/ Sure(x)) => Leads(entity[x], Visible(x), Seen(x))
    /\ Sure(x) => Holds(entity[x], Visible(x), Said(x))

Opened == \A x \in Runs : pc[x] \in Open /\ Tab(x) \notin apart => OpenedBy(x)

RefreshInv == Typed /\ Busy /\ Places /\ IdsInv /\ Settled /\ Opened

-----------------------------------------------------------------------------
(* The operators *)

Less == {ss \in Nat \X Nat : ss[1] < ss[2]}

\* The entity that comes next is one of those still to do.
LEMMA MinIn == ASSUME NEW S \in SUBSET Entities, S # {} PROVE Min(S) \in S
<1>1. S \subseteq Nat
  BY DEF Entities
<1>2. IsWellFoundedOn(Less, Nat)
  BY NatLessThanWellFounded, Zenon DEF OpToRel, Less
<1>3. PICK m \in S : \A n \in S : ~(<<n, m>> \in Less)
  BY <1>1, <1>2, WFMin
<1>4. ASSUME NEW n \in S PROVE m =< n
  <2>1. n \in Nat /\ m \in Nat
    BY <1>1
  <2>2. <<n, m>> \in Nat \X Nat /\ <<n, m>>[1] = n /\ <<n, m>>[2] = m
    BY <2>1
  <2>3. QED
    BY <1>3, <2>1, <2>2 DEF Less
<1>5. QED
  BY <1>4 DEF Min

-----------------------------------------------------------------------------
(* Types *)

\* The variables of one run, and the bounds.
RunTyped ==
    /\ pc \in [Runs -> {"idle", "restore", "backup", "reset", "next", "delete", "unmap", "write",
                        "record", "central"}]
    /\ todo \in [Runs -> SUBSET Entities]
    /\ entity \in [Runs -> Entities]
    /\ ids \in [Runs -> SUBSET (Nat \ {0})]
    /\ rows \in [Runs -> SUBSET Refs]
    /\ wrote \in [Runs -> SUBSET Refs]
    /\ cur \in [Runs -> Refs]
    /\ gone \in [Runs -> SUBSET Row]
    /\ new \in [Runs -> SUBSET Row]
    /\ keys \in [Runs -> SUBSET Refs]
    /\ xw \in [Runs -> [Refs -> Nat]]

DbTyped ==
    /\ source \in SUBSET Refs
    /\ target \in [Tables -> SUBSET Row]
    /\ nextId \in [Tables -> Nat \ {0}]
    /\ crosswalk \in [Refs -> Nat]
    /\ report \in [Entities -> [done : BOOLEAN, rows : SUBSET Refs]]

Bounded ==
    /\ apart \in SUBSET Tables
    /\ starts \in 0..MaxStarts /\ changes \in 0..MaxChanges
    /\ failures \in 0..MaxFailures /\ lost \in 0..MaxLost

LEMMA TypedParts == Typed <=> RunTyped /\ DbTyped /\ Bounded
<1>1. Typed => RunTyped /\ DbTyped /\ Bounded
  BY DEF Typed, TypeOK, RunTyped, DbTyped, Bounded
<1>2. RunTyped /\ DbTyped /\ Bounded => TypeOK
  BY DEF TypeOK, RunTyped, DbTyped, Bounded
<1>3. RunTyped /\ DbTyped /\ Bounded => Typed
  BY <1>2 DEF Typed, RunTyped, DbTyped
<1>4. QED
  BY <1>1, <1>3

LEMMA NoneTyped == [r \in Refs |-> None] \in [Refs -> Nat]
BY DEF None

\* Whatever ends a pair of transactions ends it in the same way.
LEMMA LeaveType ==
    ASSUME RunTyped, NEW x \in Runs, NEW E \in SUBSET Entities, Leave(x, E)
    PROVE  RunTyped'
BY NoneTyped DEF RunTyped, Leave, GoTo

\* Nothing is delivered yet.
LEMMA TypeInit == Init => Typed
<1> SUFFICES ASSUME Init PROVE Typed
  OBVIOUS
<1>1. (CHOOSE r \in Refs : TRUE) \in Refs
  OBVIOUS
<1>2. 1 \in Entities
  BY DEF Entities
<1>3. RunTyped
  BY <1>1, <1>2, NoneTyped DEF Init, RunTyped
<1>4. DbTyped
  BY NoneTyped DEF Init, DbTyped, NoReport
<1>5. Bounded
  BY DEF Init, Bounded
<1>6. QED
  BY <1>3, <1>4, <1>5, TypedParts

\* The steps of a run keep the types.
LEMMA RunTypeStep ==
    ASSUME RunTyped, DbTyped, Busy, [Next]_vars PROVE RunTyped'
<1> USE DEF dbVars, workVars, txVars, boundVars, Start
<1>1. ASSUME NEW x \in Refreshers, NEW E \in SUBSET Entities, StartRefresh(x, E) PROVE RunTyped'
  BY <1>1 DEF StartRefresh, GoTo, RunTyped, Runs
<1>2. ASSUME NEW x \in Refreshers, NEW restore \in BOOLEAN, StartNightly(x, restore)
      PROVE  RunTyped'
  BY <1>2 DEF StartNightly, GoTo, RunTyped, Runs
<1>3. ASSUME NEW x \in Workers, NEW r \in Refs, StartDelivery(x, r) PROVE RunTyped'
  BY <1>3 DEF StartDelivery, GoTo, RunTyped, Runs
<1>4. ASSUME NEW x \in Runs, NEW S \in SUBSET Refs, Restore(x, S) PROVE RunTyped'
  BY <1>4 DEF Restore, GoTo, RunTyped
<1>5. ASSUME NEW x \in Runs, RestoreFails(x) PROVE RunTyped'
  BY <1>5 DEF RestoreFails, GoTo, RunTyped
<1>6. ASSUME NEW x \in Runs, Backup(x) PROVE RunTyped'
  BY <1>6 DEF Backup, GoTo, RunTyped
<1>7. ASSUME NEW x \in Runs, Reset(x) PROVE RunTyped'
  BY <1>7 DEF Reset, GoTo, RunTyped
<1>8. ASSUME NEW x \in Runs, SkipEntity(x) \/ CommitCentral(x) \/ FailEntity(x)
                             \/ CentralCommitFails(x) \/ Crash(x)
      PROVE  RunTyped'
  <2>1. PICK E \in SUBSET Entities : Leave(x, E)
    <3>1. \A y : todo[x] \ {y} \in SUBSET Entities
      BY DEF RunTyped
    <3>2. {} \in SUBSET Entities
      OBVIOUS
    <3>3. QED
      BY <1>8, <3>1, <3>2 DEF SkipEntity, CommitCentral, FailEntity, CentralCommitFails, Crash
  <2>2. QED
    BY <2>1, LeaveType
<1>9. ASSUME NEW x \in Runs, ReadEntity(x) PROVE RunTyped'
  <2>1. Min(todo[x]) \in Entities
    BY <1>9, MinIn DEF ReadEntity, RunTyped, Busy, Outside
  <2>2. {crosswalk[r] : r \in Keys(Min(todo[x]))} \ {None} \in SUBSET (Nat \ {0})
    BY DEF DbTyped, Keys, None
  <2>3. source \cap Keys(Min(todo[x])) \in SUBSET Refs
    BY DEF DbTyped
  <2>4. QED
    BY <1>9, <2>1, <2>2, <2>3 DEF ReadEntity, GoTo, RunTyped
<1>10. ASSUME NEW x \in Runs, DeleteRows(x) PROVE RunTyped'
  <2>1. Tab(x) \in Tables
    BY DEF RunTyped, Tab
  <2>2. QED
    BY <1>10, <2>1 DEF DeleteRows, GoTo, RunTyped, DbTyped
<1>11. ASSUME NEW x \in Runs, DeleteEntries(x) PROVE RunTyped'
  BY <1>11 DEF DeleteEntries, GoTo, RunTyped, Keys
<1>12. ASSUME NEW x \in Runs, NEW r \in Refs, UpdateRow(x, r) PROVE RunTyped'
  BY <1>12 DEF UpdateRow, RunTyped
<1>13. ASSUME NEW x \in Runs, NEW r \in Refs, InsertRow(x, r) PROVE RunTyped'
  <2>1. [id |-> nextId[Tab(x)], ref |-> r] \in Row
    BY DEF RunTyped, DbTyped, Tab, Row
  <2>2. QED
    BY <1>13, <2>1 DEF InsertRow, GoTo, RunTyped
<1>14. ASSUME NEW x \in Runs, NEW r \in Refs, RejectRow(x, r) PROVE RunTyped'
  BY <1>14 DEF RejectRow, RunTyped
<1>15. ASSUME NEW x \in Runs, RecordRow(x) PROVE RunTyped'
  <2>1. PICK row \in new[x] : row.ref = cur[x] /\ xw' = [xw EXCEPT ![x][cur[x]] = row.id]
    BY <1>15 DEF RecordRow
  <2>2. row.id \in Nat
    BY DEF RunTyped, Row
  <2>3. xw' \in [Runs -> [Refs -> Nat]]
    BY <2>1, <2>2 DEF RunTyped
  <2>4. QED
    BY <1>15, <2>3 DEF RecordRow, GoTo, RunTyped
<1>16. ASSUME NEW x \in Runs, CommitTarget(x) PROVE RunTyped'
  BY <1>16 DEF CommitTarget, GoTo, RunTyped
<1>17. ASSUME NEW r \in Refs, ChangeSource(r) PROVE RunTyped'
  BY <1>17 DEF ChangeSource, RunTyped
<1>18. CASE UNCHANGED vars
  BY <1>18 DEF vars, RunTyped
<1>19. QED
  BY <1>1, <1>2, <1>3, <1>4, <1>5, <1>6, <1>7, <1>8, <1>9, <1>10, <1>11, <1>12, <1>13, <1>14,
     <1>15, <1>16, <1>17, <1>18 DEF Next

\* What is committed keeps its types, and the bounds hold.
LEMMA DbTypeStep ==
    ASSUME RunTyped, DbTyped, Bounded, [Next]_vars PROVE DbTyped' /\ Bounded'
<1> USE DEF dbVars, workVars, txVars, boundVars, Start
<1>1. ASSUME UNCHANGED dbVars PROVE DbTyped'
  BY <1>1 DEF DbTyped
<1>2. ASSUME UNCHANGED boundVars PROVE Bounded'
  BY <1>2 DEF Bounded
<1>3. \A x \in Runs : /\ Tab(x) \in Tables /\ entity[x] \in Entities
                      /\ Visible(x) \in SUBSET Row /\ wrote[x] \in SUBSET Refs
                      /\ todo[x] \in SUBSET Entities
  BY DEF RunTyped, DbTyped, Tab, Visible
<1>4. ASSUME \/ \E x \in Refreshers, E \in SUBSET Entities : StartRefresh(x, E)
             \/ \E x \in Refreshers, restore \in BOOLEAN : StartNightly(x, restore)
             \/ \E x \in Workers, r \in Refs : StartDelivery(x, r)
      PROVE  DbTyped' /\ Bounded'
  BY <1>1, <1>4 DEF StartRefresh, StartNightly, StartDelivery, Bounded
<1>5. ASSUME NEW x \in Runs, NEW S \in SUBSET Refs, Restore(x, S) PROVE DbTyped' /\ Bounded'
  BY <1>2, <1>5 DEF Restore, DbTyped
<1>6. ASSUME NEW x \in Runs, Reset(x) PROVE DbTyped' /\ Bounded'
  <2>1. Mixed \in SUBSET Tables
    BY DEF Mixed
  <2>2. Bounded'
    BY <1>6, <2>1 DEF Reset, Bounded
  <2>3. QED
    BY <1>6, <2>2 DEF Reset, DbTyped, NoReport
<1>7. ASSUME NEW x \in Runs, RestoreFails(x) \/ Backup(x) \/ SkipEntity(x) \/ DeleteRows(x)
                             \/ DeleteEntries(x) \/ RecordRow(x)
      PROVE  DbTyped' /\ Bounded'
  BY <1>1, <1>2, <1>7 DEF RestoreFails, Backup, SkipEntity, DeleteRows, DeleteEntries, RecordRow
<1>8. ASSUME NEW x \in Runs, ReadEntity(x) PROVE DbTyped' /\ Bounded'
  BY <1>2, <1>8 DEF ReadEntity, DbTyped, NoReport
<1>9. ASSUME NEW x \in Runs, NEW r \in Refs, UpdateRow(x, r) PROVE DbTyped' /\ Bounded'
  BY <1>1, <1>2, <1>9 DEF UpdateRow
<1>10. ASSUME NEW x \in Runs, NEW r \in Refs, InsertRow(x, r) PROVE DbTyped' /\ Bounded'
  BY <1>2, <1>3, <1>10 DEF InsertRow, DbTyped
<1>11. ASSUME NEW x \in Runs, NEW r \in Refs, RejectRow(x, r) PROVE DbTyped' /\ Bounded'
  BY <1>1, <1>11 DEF RejectRow, Bounded
<1>12. ASSUME NEW x \in Runs, CommitTarget(x) PROVE DbTyped' /\ Bounded'
  <2>1. report' \in [Entities -> [done : BOOLEAN, rows : SUBSET Refs]]
    <3> DEFINE e == entity[x]
               R == IF todo[x] = {} THEN report[e].rows \cup wrote[x] ELSE report[e].rows
    <3>1. report' = [report EXCEPT ![e] = [@ EXCEPT !.rows = R]]
      BY <1>12 DEF CommitTarget
    <3>2. e \in Entities /\ report[e] \in [done : BOOLEAN, rows : SUBSET Refs]
      BY <1>3 DEF DbTyped
    <3>3. R \in SUBSET Refs
      BY <1>3, <3>2
    <3>4. [report[e] EXCEPT !.rows = R] \in [done : BOOLEAN, rows : SUBSET Refs]
      BY <3>2, <3>3
    <3>5. QED
      BY <3>1, <3>2, <3>4 DEF DbTyped
  <2>2. QED
    BY <1>2, <1>3, <1>12, <2>1 DEF CommitTarget, DbTyped
<1>13. ASSUME NEW x \in Runs, CommitCentral(x) PROVE DbTyped' /\ Bounded'
  <2>1. [r \in Refs |-> Lookup(x, r)] \in [Refs -> Nat]
    BY DEF Lookup, RunTyped, DbTyped
  <2>2. [done |-> TRUE, rows |-> wrote[x]] \in [done : BOOLEAN, rows : SUBSET Refs]
    BY <1>3
  <2>3. report' \in [Entities -> [done : BOOLEAN, rows : SUBSET Refs]]
    BY <1>13, <2>2 DEF CommitCentral, DbTyped
  <2>4. QED
    BY <1>2, <1>13, <2>1, <2>3 DEF CommitCentral, DbTyped
<1>14. ASSUME NEW x \in Runs, FailEntity(x) \/ CentralCommitFails(x) \/ Crash(x)
       PROVE  DbTyped' /\ Bounded'
  BY <1>1, <1>3, <1>14 DEF FailEntity, CentralCommitFails, Crash, Bounded
<1>15. ASSUME NEW r \in Refs, ChangeSource(r) PROVE DbTyped' /\ Bounded'
  BY <1>15 DEF ChangeSource, DbTyped, Bounded
<1>16. CASE UNCHANGED vars
  BY <1>1, <1>2, <1>16 DEF vars
<1>17. QED
  BY <1>4, <1>5, <1>6, <1>7, <1>8, <1>9, <1>10, <1>11, <1>12, <1>13, <1>14, <1>15, <1>16
     DEF Next

\* Every step keeps the types.
LEMMA TypeStep == Typed /\ Busy /\ [Next]_vars => Typed'
<1> SUFFICES ASSUME Typed, Busy, [Next]_vars PROVE Typed'
  OBVIOUS
<1>1. RunTyped' /\ DbTyped' /\ Bounded'
  BY TypedParts, RunTypeStep, DbTypeStep, Zenon
<1>2. QED
  BY <1>1, Zenon DEF Typed, TypeOK, RunTyped, DbTyped, Bounded

\* A run goes on as long as there is an entity left.
LEMMA BusyStep == Typed /\ Busy /\ [Next]_vars => Busy'
<1> SUFFICES ASSUME Typed, Busy, [Next]_vars PROVE Busy'
  OBVIOUS
<1> USE DEF dbVars, workVars, txVars, boundVars, Start
<1>1. /\ pc \in [Runs -> {"idle", "restore", "backup", "reset", "next", "delete", "unmap",
                          "write", "record", "central"}]
      /\ todo \in [Runs -> SUBSET Entities]
  BY DEF Typed, TypeOK
<1>2. ASSUME NEW x \in Runs, NEW step, NEW E,
             pc' = [pc EXCEPT ![x] = step], todo' = [todo EXCEPT ![x] = E],
             step \in Outside \ {"idle"} => E # {}
      PROVE  Busy'
  BY <1>1, <1>2 DEF Busy
<1>3. ASSUME NEW x \in Runs, NEW step, GoTo(x, step), todo' = todo,
             step \in Outside \ {"idle"} => pc[x] \in Outside \ {"idle"}
      PROVE  Busy'
  BY <1>1, <1>3 DEF Busy, GoTo
<1>4. ASSUME NEW x \in Refreshers, NEW E \in SUBSET Entities, StartRefresh(x, E) PROVE Busy'
  BY <1>2, <1>4 DEF StartRefresh, GoTo, Runs
<1>5. ASSUME NEW x \in Refreshers, NEW restore \in BOOLEAN, StartNightly(x, restore)
      PROVE  Busy'
  <2>1. Entities # {}
    <3>1. 1 \in Entities
      BY DEF Entities
    <3>2. QED
      BY <3>1
  <2>2. QED
    BY <1>2, <1>5, <2>1 DEF StartNightly, GoTo, Runs
<1>6. ASSUME NEW x \in Workers, NEW r \in Refs, StartDelivery(x, r) PROVE Busy'
  BY <1>3, <1>6 DEF StartDelivery, Runs, Outside
<1>7. ASSUME NEW x \in Runs, NEW S \in SUBSET Refs, Restore(x, S) PROVE Busy'
  BY <1>3, <1>7 DEF Restore, Outside
<1>8. ASSUME NEW x \in Runs, RestoreFails(x) PROVE Busy'
  BY <1>2, <1>8 DEF RestoreFails, GoTo
<1>9. ASSUME NEW x \in Runs, Backup(x) \/ Reset(x) PROVE Busy'
  BY <1>3, <1>9 DEF Backup, Reset, Outside
<1>10. ASSUME NEW x \in Runs, SkipEntity(x) \/ CommitCentral(x) \/ FailEntity(x)
                              \/ CentralCommitFails(x) \/ Crash(x)
       PROVE  Busy'
  <2>1. PICK E : Leave(x, E)
    BY <1>10 DEF SkipEntity, CommitCentral, FailEntity, CentralCommitFails, Crash
  <2>2. QED
    BY <1>2, <2>1 DEF Leave, GoTo
<1>11. ASSUME NEW x \in Runs, ReadEntity(x) \/ DeleteRows(x) \/ DeleteEntries(x)
                              \/ RecordRow(x) \/ CommitTarget(x)
       PROVE  Busy'
  <2>1. PICK step \in {"write", "delete", "unmap", "central"} : GoTo(x, step) /\ todo' = todo
    BY <1>11 DEF ReadEntity, DeleteRows, DeleteEntries, RecordRow, CommitTarget
  <2>2. QED
    BY <1>3, <2>1 DEF Outside
<1>12. ASSUME NEW x \in Runs, NEW r \in Refs, InsertRow(x, r) PROVE Busy'
  BY <1>3, <1>12 DEF InsertRow, Outside
<1>13. CASE UNCHANGED <<pc, todo>>
  BY <1>13 DEF Busy
<1>14. QED
  BY <1>4, <1>5, <1>6, <1>7, <1>8, <1>9, <1>10, <1>11, <1>12, <1>13
     DEF Next, UpdateRow, RejectRow, ChangeSource, vars

\* Every variable keeps its type, with any number of runs at the same time; in
\* particular a refresh that goes on has an entity to go on with (redeliver_all).
THEOREM TypeCorrect == Spec => []TypeOK
<1>1. Init => Busy
  BY DEF Init, Busy, Outside
<1>2. Typed => TypeOK
  BY DEF Typed
<1>3. QED
  BY TypeInit, TypeStep, BusyStep, <1>1, <1>2, PTL DEF Spec

-----------------------------------------------------------------------------
(* The steps of a run *)

LEMMA LeavePlace ==
    ASSUME Typed, NEW x \in Runs, NEW E \in SUBSET Entities, Leave(x, E)
    PROVE  PlaceOf(x)' /\ pc'[x] \in Outside
<1>1. /\ pc'[x] = IF E = {} THEN "idle" ELSE "next"
      /\ todo'[x] = E /\ gone'[x] = {} /\ new'[x] = {} /\ keys'[x] = {}
      /\ xw'[x] = [r \in Refs |-> None] /\ rows'[x] = {} /\ wrote'[x] = {}
  BY DEF Leave, GoTo, Typed, TypeOK
<1>2. QED
  BY <1>1 DEF PlaceOf, Outside, Before, Open

\* Each step brings its run to a place where it has what belongs there.
LEMMA PlaceStep ==
    ASSUME OneProcess, Typed, Busy, Places, [Next]_vars PROVE Places'
<1> USE DEF dbVars, workVars, txVars, boundVars, Start
<1> DEFINE Same(x) == /\ gone'[x] = gone[x] /\ new'[x] = new[x] /\ keys'[x] = keys[x]
                      /\ xw'[x] = xw[x] /\ wrote'[x] = wrote[x]
           Kept(x) == /\ entity'[x] = entity[x] /\ todo'[x] = todo[x]
<1>1. \A x \in Runs : PlaceOf(x)
  BY DEF Places
<1>2. ASSUME NEW x \in Runs, PlaceOf(x)' PROVE Places'
  BY <1>2 DEF OneProcess, Places
<1>3. ASSUME NEW x \in Runs, pc[x] \in Outside, pc'[x] \in Outside, Same(x),
             rows'[x] = rows[x], pc'[x] = "idle" => todo'[x] = {}
      PROVE  Places'
  <2>1. PlaceOf(x)'
    BY <1>1, <1>3 DEF PlaceOf, Outside, Before, Open
  <2>2. QED
    BY <1>2, <2>1
<1>4. ASSUME NEW x \in Refreshers, NEW E \in SUBSET Entities, StartRefresh(x, E) PROVE Places'
  <2>1. x \in Runs /\ pc[x] = "idle" /\ pc'[x] = "next" /\ Same(x) /\ rows'[x] = rows[x]
    BY <1>4 DEF StartRefresh, GoTo, Typed, TypeOK, Runs
  <2>2. QED
    BY <1>3, <2>1 DEF Outside
<1>5. ASSUME NEW x \in Refreshers, NEW restore \in BOOLEAN, StartNightly(x, restore)
      PROVE  Places'
  <2>1. /\ x \in Runs /\ pc[x] = "idle" /\ pc'[x] \in {"restore", "backup"}
        /\ Same(x) /\ rows'[x] = rows[x]
    BY <1>5 DEF StartNightly, GoTo, Typed, TypeOK, Runs
  <2>2. QED
    BY <1>3, <2>1 DEF Outside
<1>6. ASSUME NEW x \in Workers, NEW r \in Refs, StartDelivery(x, r) PROVE Places'
  <2>1. /\ x \in Runs /\ pc[x] = "idle" /\ pc'[x] = "write" /\ Same(x) /\ todo'[x] = todo[x]
        /\ rows'[x] = {r} /\ entity'[x] = EntityOf[r]
    BY <1>6 DEF StartDelivery, GoTo, Typed, TypeOK, Runs
  <2>2. PlaceOf(x)'
    BY <1>1, <2>1 DEF PlaceOf, Outside, Before, Open, Keys
  <2>3. QED
    BY <1>2, <2>1, <2>2
<1>7. ASSUME NEW x \in Runs, NEW S \in SUBSET Refs, Restore(x, S) PROVE Places'
  <2>1. pc[x] = "restore" /\ pc'[x] = "backup" /\ Same(x) /\ rows'[x] = rows[x]
    BY <1>7 DEF Restore, GoTo, Typed, TypeOK
  <2>2. QED
    BY <1>3, <2>1 DEF Outside
<1>8. ASSUME NEW x \in Runs, RestoreFails(x) \/ Backup(x) \/ Reset(x) PROVE Places'
  <2>1. /\ pc[x] \in {"restore", "backup", "reset"} /\ Same(x) /\ rows'[x] = rows[x]
        /\ pc'[x] \in {"idle", "reset", "next"} /\ (pc'[x] = "idle" => todo'[x] = {})
    BY <1>8 DEF RestoreFails, Backup, Reset, GoTo, Typed, TypeOK
  <2>2. QED
    BY <1>3, <2>1 DEF Outside
<1>9. ASSUME NEW x \in Runs, SkipEntity(x) \/ CommitCentral(x) \/ FailEntity(x)
                             \/ CentralCommitFails(x) \/ Crash(x)
      PROVE  Places'
  <2>1. PICK E \in SUBSET Entities : Leave(x, E)
    <3>1. \A y : todo[x] \ {y} \in SUBSET Entities
      BY DEF Typed, TypeOK
    <3>2. {} \in SUBSET Entities
      OBVIOUS
    <3>3. QED
      BY <1>9, <3>1, <3>2 DEF SkipEntity, CommitCentral, FailEntity, CentralCommitFails, Crash
  <2>2. QED
    BY <1>2, <2>1, LeavePlace
<1>10. ASSUME NEW x \in Runs, ReadEntity(x) PROVE Places'
  <2> DEFINE e == Min(todo[x])
  <2>1. e \in todo[x] /\ e \in Entities
    BY <1>10, MinIn DEF ReadEntity, Typed, TypeOK, Busy, Outside
  <2>2. /\ pc[x] = "next" /\ Same(x) /\ todo'[x] = todo[x] /\ entity'[x] = e
        /\ rows'[x] = source \cap Keys(e) /\ crosswalk' = crosswalk
        /\ ids'[x] = {crosswalk[r] : r \in Keys(e)} \ {None}
        /\ pc'[x] \in {"write", "delete"}
    BY <1>10 DEF ReadEntity, GoTo, Typed, TypeOK
  <2>3. ~report'[e].done
    BY <1>10, <2>1 DEF ReadEntity, NoReport, Typed, TypeOK
  <2>4. PlaceOf(x)'
    <3> HIDE DEF e
    <3>1. QED
      BY <1>1, <2>1, <2>2, <2>3 DEF PlaceOf, Outside, Before, Open
  <2>5. QED
    BY <1>2, <2>4
<1>11. ASSUME NEW x \in Runs, DeleteRows(x) PROVE Places'
  <2>1. /\ pc[x] = "delete" /\ pc'[x] = "unmap" /\ Kept(x) /\ rows'[x] = rows[x]
        /\ new'[x] = new[x] /\ keys'[x] = keys[x] /\ xw'[x] = xw[x] /\ wrote'[x] = wrote[x]
        /\ report' = report
    BY <1>11 DEF DeleteRows, GoTo, Typed, TypeOK
  <2>2. PlaceOf(x)'
    BY <1>1, <2>1 DEF PlaceOf, Outside, Before, Open
  <2>3. QED
    BY <1>2, <2>2
<1>12. ASSUME NEW x \in Runs, DeleteEntries(x) PROVE Places'
  <2>1. /\ pc[x] = "unmap" /\ pc'[x] = "write" /\ Kept(x) /\ rows'[x] = rows[x]
        /\ wrote'[x] = wrote[x] /\ report' = report
        /\ keys'[x] \subseteq Keys(entity[x])
    BY <1>12 DEF DeleteEntries, GoTo, Typed, TypeOK
  <2>2. PlaceOf(x)'
    BY <1>1, <2>1 DEF PlaceOf, Outside, Before, Open
  <2>3. QED
    BY <1>2, <2>2
<1>13. ASSUME NEW x \in Runs, NEW r \in Refs, UpdateRow(x, r) \/ InsertRow(x, r) \/ RejectRow(x, r)
       PROVE  Places'
  <2>1. /\ pc[x] = "write" /\ Kept(x) /\ report' = report /\ keys'[x] = keys[x]
        /\ r \in rows[x] /\ rows'[x] = rows[x] \ {r}
        /\ wrote'[x] \subseteq wrote[x] \cup {r}
        /\ pc'[x] = "write" \/ (pc'[x] = "record" /\ cur'[x] = r)
    <3>1. CASE UpdateRow(x, r)
      BY <3>1 DEF UpdateRow, Typed, TypeOK
    <3>2. CASE InsertRow(x, r)
      BY <3>2 DEF InsertRow, GoTo, Typed, TypeOK
    <3>3. CASE RejectRow(x, r)
      BY <3>3 DEF RejectRow, Typed, TypeOK
    <3>4. QED
      BY <1>13, <3>1, <3>2, <3>3
  <2>2. PlaceOf(x)'
    BY <1>1, <2>1 DEF PlaceOf, Outside, Before, Open
  <2>3. QED
    BY <1>2, <2>2
<1>14. ASSUME NEW x \in Runs, RecordRow(x) PROVE Places'
  <2>1. /\ pc[x] = "record" /\ Kept(x) /\ report' = report /\ pc'[x] = "write"
        /\ keys'[x] = keys[x] \cup {cur[x]} /\ rows'[x] = rows[x] /\ wrote'[x] = wrote[x]
    BY <1>14 DEF RecordRow, GoTo, Typed, TypeOK
  <2>2. PlaceOf(x)'
    BY <1>1, <2>1 DEF PlaceOf, Outside, Before, Open
  <2>3. QED
    BY <1>2, <2>2
<1>15. ASSUME NEW x \in Runs, CommitTarget(x) PROVE Places'
  <2>1. /\ pc[x] = "write" /\ pc'[x] = "central" /\ Kept(x) /\ keys'[x] = keys[x]
        /\ rows'[x] = rows[x] /\ wrote'[x] = wrote[x] /\ gone'[x] = {} /\ new'[x] = {}
    BY <1>15 DEF CommitTarget, GoTo, Typed, TypeOK
  <2>2. /\ entity[x] \in Entities
        /\ report'[entity[x]].done = report[entity[x]].done
        /\ todo[x] = {} => wrote[x] \subseteq report'[entity[x]].rows
    <3>1. entity[x] \in Entities /\ report[entity[x]] \in [done : BOOLEAN, rows : SUBSET Refs]
      BY DEF Typed, TypeOK
    <3>2. report'[entity[x]] = [report[entity[x]] EXCEPT !.rows =
                                   IF todo[x] = {} THEN @ \cup wrote[x] ELSE @]
      BY <1>15, <3>1 DEF CommitTarget, Typed, TypeOK
    <3>3. QED
      BY <3>1, <3>2
  <2>3. PlaceOf(x)'
    BY <1>1, <2>1, <2>2 DEF PlaceOf, Outside, Before, Open
  <2>4. QED
    BY <1>2, <2>3
<1>16. ASSUME NEW r \in Refs, ChangeSource(r) PROVE Places'
  BY <1>1, <1>16 DEF ChangeSource, Places, PlaceOf
<1>17. CASE UNCHANGED vars
  BY <1>1, <1>17 DEF vars, Places, PlaceOf
<1>18. QED
  BY <1>4, <1>5, <1>6, <1>7, <1>8, <1>9, <1>10, <1>11, <1>12, <1>13, <1>14, <1>15, <1>16, <1>17
     DEF Next

\* Ids are drawn once between two resets, and a table has rows of its own only.
LEMMA IdsStep ==
    ASSUME OneProcess, Typed, Busy, Places, IdsInv, [Next]_vars PROVE IdsInv'
<1> USE DEF dbVars, workVars, txVars, boundVars, Start
<1>1. \A x \in Runs : /\ Tab(x) \in Tables /\ entity[x] \in Entities /\ PlaceOf(x)
                      /\ \A row \in target[Tab(x)] \cup new[x] : row \in Row
  BY DEF Tab, Typed, TypeOK, Places
<1>2. \A t \in Tables : nextId[t] \in Nat
  BY DEF Typed, TypeOK
<1>3. ASSUME NEW x \in Runs, target' = target, nextId' = nextId, new'[x] \subseteq new[x],
             entity'[x] = entity[x] \/ new'[x] = {}, entity'[x] \in Entities
      PROVE  IdsInv'
  <2>1. Tab(x)' = TableOf[entity'[x]] /\ Tab(x)' \in Tables
    BY <1>3 DEF Tab
  <2>2. RowsOf(Tab(x), target[Tab(x)] \cup new[x])'
    <3>1. CASE new'[x] = {}
      BY <1>3, <2>1, <3>1 DEF IdsInv, RowsOf
    <3>2. CASE entity'[x] = entity[x]
      <4>1. Tab(x)' = Tab(x)
        BY <3>2 DEF Tab
      <4>2. QED
        BY <1>3, <4>1 DEF IdsInv, RowsOf
    <3>3. QED
      BY <1>3, <3>1, <3>2
  <2>3. \A y \in Runs : y = x
    BY DEF OneProcess
  <2>4. QED
    BY <1>3, <2>2, <2>3 DEF IdsInv, RowsOf
<1>4. ASSUME UNCHANGED <<target, nextId, new, entity>> PROVE IdsInv'
  BY <1>4 DEF IdsInv, RowsOf, Tab
<1>5. ASSUME NEW x \in Workers, NEW r \in Refs, StartDelivery(x, r) PROVE IdsInv'
  <2>1. /\ x \in Runs /\ new'[x] = new[x] /\ new[x] = {} /\ entity'[x] = EntityOf[r]
        /\ target' = target /\ nextId' = nextId
    BY <1>1, <1>5 DEF StartDelivery, Typed, TypeOK, Runs, PlaceOf, Before, Outside
  <2>2. QED
    BY <1>3, <2>1
<1>6. ASSUME NEW x \in Runs, Reset(x) PROVE IdsInv'
  <2>1. /\ target' = [t \in Tables |-> {}] /\ new'[x] = {} /\ entity' = entity
    BY <1>1, <1>6 DEF Reset, PlaceOf, Before, Outside
  <2>2. Tab(x)' \in Tables
    BY <1>1, <2>1 DEF Tab
  <2>3. RowsOf(Tab(x), target[Tab(x)] \cup new[x])' /\ \A t \in Tables : RowsOf(t, target[t])'
    BY <2>1, <2>2 DEF RowsOf
  <2>4. QED
    BY <2>3 DEF OneProcess, IdsInv
<1>7. ASSUME NEW x \in Runs, SkipEntity(x) \/ CommitCentral(x) \/ FailEntity(x)
                             \/ CentralCommitFails(x) \/ Crash(x)
      PROVE  IdsInv'
  <2>1. /\ new'[x] = {} /\ entity' = entity /\ target' = target /\ nextId' = nextId
    BY <1>7 DEF SkipEntity, CommitCentral, FailEntity, CentralCommitFails, Crash, Leave, Typed, TypeOK
  <2>2. QED
    BY <1>1, <1>3, <2>1
<1>8. ASSUME NEW x \in Runs, ReadEntity(x) PROVE IdsInv'
  <2>1. /\ new'[x] = {} /\ target' = target /\ nextId' = nextId
    BY <1>1, <1>8 DEF ReadEntity, PlaceOf, Before, Outside
  <2>2. entity'[x] \in Entities
    BY <1>8, MinIn DEF ReadEntity, Typed, TypeOK, Busy, Outside
  <2>3. QED
    BY <1>3, <2>1, <2>2
<1>9. ASSUME NEW x \in Runs, NEW r \in Refs, InsertRow(x, r) PROVE IdsInv'
  <2> DEFINE row == [id |-> nextId[Tab(x)], ref |-> r]
             T   == target[Tab(x)] \cup new[x]
  <2>1. /\ target' = target /\ new'[x] = new[x] \cup {row} /\ entity' = entity
        /\ nextId' = [nextId EXCEPT ![Tab(x)] = @ + 1]
        /\ r \in Keys(entity[x])
    BY <1>1, <1>9 DEF InsertRow, Typed, TypeOK, PlaceOf, Outside
  <2>2. Tab(x)' = Tab(x) /\ TableOf[EntityOf[r]] = Tab(x)
    BY <2>1 DEF Tab, Keys
  <2>3. /\ nextId'[Tab(x)] = nextId[Tab(x)] + 1
        /\ \A t \in Tables : t # Tab(x) => nextId'[t] = nextId[t]
    BY <1>1, <2>1 DEF Typed, TypeOK
  <2>4. RowsOf(Tab(x), T)
    BY DEF IdsInv
  <2>5. \A m \in T : m.id \in Nat /\ m.id < nextId[Tab(x)] /\ TableOf[EntityOf[m.ref]] = Tab(x)
    BY <1>1, <2>4 DEF RowsOf, Row
  <2>6. /\ \A m \in T \cup {row} : TableOf[EntityOf[m.ref]] = Tab(x) /\ m.id < nextId[Tab(x)] + 1
        /\ \A m, n \in T \cup {row} : m.id = n.id => m = n
    BY <1>1, <1>2, <2>2, <2>4, <2>5 DEF RowsOf
  <2>7. target'[Tab(x)] \cup new'[x] = T \cup {row}
    BY <2>1
  <2>8. RowsOf(Tab(x), target[Tab(x)] \cup new[x])'
    <3> HIDE DEF T, row
    <3>1. QED
      BY <2>2, <2>3, <2>6, <2>7 DEF RowsOf
  <2>9. \A t \in Tables : RowsOf(t, target[t])'
    <3>1. \A t \in Tables : \A m \in target[t] : m.id \in Nat
      BY DEF Typed, TypeOK, Row
    <3>2. QED
      BY <1>2, <2>1, <2>3, <3>1 DEF IdsInv, RowsOf
  <2>10. QED
    BY <2>8, <2>9 DEF OneProcess, IdsInv
<1>10. ASSUME NEW x \in Runs, CommitTarget(x) PROVE IdsInv'
  <2>1. /\ target' = [target EXCEPT ![Tab(x)] = Visible(x)] /\ new'[x] = {}
        /\ nextId' = nextId /\ entity' = entity
    BY <1>10 DEF CommitTarget, Typed, TypeOK
  <2>2. Tab(x)' = Tab(x) /\ target'[Tab(x)] = Visible(x)
    BY <1>1, <2>1 DEF Tab, Typed, TypeOK
  <2>3. Visible(x) \subseteq target[Tab(x)] \cup new[x]
    BY DEF Visible
  <2>4. RowsOf(Tab(x), target[Tab(x)])' /\ RowsOf(Tab(x), target[Tab(x)] \cup new[x])'
    BY <2>1, <2>2, <2>3 DEF IdsInv, RowsOf
  <2>5. \A t \in Tables : t # Tab(x) => RowsOf(t, target[t])'
    BY <1>1, <2>1 DEF IdsInv, RowsOf, Typed
  <2>6. QED
    BY <1>1, <2>2, <2>4, <2>5 DEF OneProcess, IdsInv
<1>11. CASE UNCHANGED vars
  BY <1>4, <1>11 DEF vars
<1>12. QED
  BY <1>4, <1>5, <1>6, <1>7, <1>8, <1>9, <1>10, <1>11
     DEF Next, StartRefresh, StartNightly, Restore, RestoreFails, Backup, DeleteRows,
         DeleteEntries, UpdateRow, RejectRow, RecordRow, ChangeSource

-----------------------------------------------------------------------------
(* Rows, entries and reports *)

\* A run that is at none of its open steps has nothing to agree with.
LEMMA NotOpen ==
    ASSUME OneProcess, NEW x \in Runs, pc'[x] \notin Open PROVE Opened'
BY DEF OneProcess, Opened

\* What is settled stays so until a commit.
LEMMA SettledFrame ==
    ASSUME OneProcess, Settled, NEW x \in Runs,
           target' = target, crosswalk' = crosswalk, apart \subseteq apart',
           pc[x] = "central" => Tab(x) \in apart',
           \A e \in Entities : report'[e] = report[e] \/ ~report'[e].done
    PROVE  Settled'
<1> SUFFICES ASSUME NEW t \in Tables, t \notin apart'
             PROVE  /\ Tracks(target[t], crosswalk, {})'
                    /\ \A e \in Entities : TableOf[e] = t => Agrees(e, target[t], crosswalk)'
  BY DEF Settled
<1>1. ~Between(t) /\ t \notin apart
  BY DEF OneProcess, Between
<1>2. /\ Tracks(target[t], crosswalk, {})
      /\ \A e \in Entities : TableOf[e] = t => Agrees(e, target[t], crosswalk)
  BY <1>1 DEF Settled
<1>3. QED
  BY <1>2 DEF Tracks, Agrees, Leads, Holds

\* What the rows and the crosswalk of the run's table are before it opens its
\* transactions.
LEMMA BeforeOpen ==
    ASSUME OneProcess, Settled, NEW x \in Runs, pc[x] # "central",
           NEW t \in Tables \ apart
    PROVE  /\ Tracks(target[t], crosswalk, {})
           /\ \A e \in Entities : TableOf[e] = t => Agrees(e, target[t], crosswalk)
<1>1. ~Between(t)
  BY DEF OneProcess, Between
<1>2. QED
  BY <1>1 DEF Settled

\* What a step of a run that is at an open step afterwards has to show.
LEMMA OpenedAt ==
    ASSUME OneProcess, NEW x \in Runs, Tab(x)' \notin apart' => OpenedBy(x)'
    PROVE  Opened'
BY DEF OneProcess, Opened

\* Two entities have no key in common.
LEMMA KeysApart ==
    ASSUME NEW d \in Entities, NEW e \in Entities, d # e, NEW r \in Keys(d)
    PROVE  r \notin Keys(e)
BY DEF Keys

\* A delivery opens its transactions on a table that agrees.
LEMMA DeliveryOpens ==
    ASSUME OneProcess, RefreshInv, NEW x \in Workers, NEW r \in Refs, StartDelivery(x, r)
    PROVE  Settled' /\ Opened'
<1> DEFINE e == EntityOf[r]
           t == TableOf[e]
<1>1. x \in Runs /\ e \in Entities /\ t \in Tables
  BY DEF Runs
<1>2. /\ pc[x] = "idle" /\ pc'[x] = "write" /\ entity'[x] = e /\ todo'[x] = {}
      /\ gone'[x] = {} /\ new'[x] = {} /\ keys'[x] = {} /\ wrote'[x] = {}
      /\ UNCHANGED <<target, crosswalk, report, apart>>
  BY <1>1 DEF StartDelivery, Start, GoTo, RefreshInv, Typed, TypeOK, Places, PlaceOf,
     Before, Outside, txVars, dbVars
<1>3. Settled'
  BY <1>1, <1>2, SettledFrame DEF RefreshInv
<1>4. ASSUME t \notin apart PROVE OpenedBy(x)'
  <2>1. /\ Tracks(target[t], crosswalk, {})
        /\ \A d \in Entities : TableOf[d] = t => Agrees(d, target[t], crosswalk)
    BY <1>1, <1>2, <1>4, BeforeOpen DEF RefreshInv
  <2>2. Tab(x)' = t /\ Visible(x)' = target[t] /\ Recording(x)' = {}
    BY <1>2 DEF Tab, Visible, Recording
  <2>3. \A q \in Refs : Seen(x)'[q] = crosswalk[q]
    BY <1>2 DEF Seen, Lookup
  <2>4. Said(x)' = report[e].rows /\ (Sure(x)' <=> report[e].done)
    BY <1>2 DEF Said, Sure
  <2>5. \A m \in target[t] : m.ref \in Refs
    BY <1>1 DEF RefreshInv, Typed, Row
  <2>6. Tracks(Visible(x), Seen(x), Recording(x))'
    BY <2>1, <2>2, <2>3, <2>5 DEF Tracks
  <2>7. ASSUME NEW d \in Entities \ {e}, TableOf[d] = t PROVE Agrees(d, Visible(x), Seen(x))'
    BY <1>2, <2>1, <2>2, <2>3, <2>7 DEF Agrees, Leads, Holds, Keys
  <2>8. Shared(t) \/ report[e].done => Leads(e, Visible(x)', Seen(x)')
    BY <1>1, <2>1, <2>2, <2>3 DEF Agrees, Leads, Keys
  <2>9. Sure(x)' => Holds(e, Visible(x)', Said(x)')
    BY <1>1, <2>1, <2>2, <2>4 DEF Agrees, Holds
  <2>10. QED
    BY <1>2, <2>2, <2>4, <2>6, <2>7, <2>8, <2>9 DEF OpenedBy
<1>5. Tab(x)' = t
  BY <1>2 DEF Tab
<1>6. QED
  BY <1>1, <1>2, <1>3, <1>4, <1>5, OpenedAt

\* An entity without entries has no rows either: its refresh opens on what is
\* there.
LEMMA ReadOpens ==
    ASSUME OneProcess, RefreshInv, NEW x \in Runs, ReadEntity(x)
    PROVE  Settled' /\ Opened'
<1> DEFINE e == Min(todo[x])
           t == TableOf[e]
<1>1. e \in todo[x] /\ e \in Entities /\ t \in Tables
  BY MinIn DEF ReadEntity, RefreshInv, Typed, TypeOK, Busy, Outside
<1>2. /\ pc[x] = "next" /\ entity'[x] = e /\ todo'[x] = todo[x]
      /\ gone'[x] = {} /\ new'[x] = {} /\ keys'[x] = {} /\ wrote'[x] = {}
      /\ UNCHANGED <<target, crosswalk, apart>>
      /\ report' = [report EXCEPT ![e] = NoReport]
      /\ ids'[x] = {crosswalk[r] : r \in Keys(e)} \ {None}
      /\ pc'[x] = IF ids'[x] = {} THEN "write" ELSE "delete"
  BY DEF ReadEntity, GoTo, RefreshInv, Typed, TypeOK, Places, PlaceOf, Before, Outside,
     txVars, boundVars
<1>3. ~report'[e].done /\ \A d \in Entities : d # e => report'[d] = report[d]
  BY <1>1, <1>2 DEF NoReport, RefreshInv, Typed, TypeOK
<1>4. Settled'
  <2>1. \A d \in Entities : report'[d] = report[d] \/ ~report'[d].done
    BY <1>3
  <2>2. QED
    BY <1>2, <2>1, SettledFrame DEF RefreshInv
<1>5. CASE pc'[x] = "delete"
  BY <1>4, <1>5, NotOpen DEF Open
<1>6. CASE ids'[x] = {}
  <2>1. \A r \in Keys(e) : crosswalk[r] = None
    BY <1>2, <1>6
  <2>2. ASSUME t \notin apart PROVE OpenedBy(x)'
    <3>1. /\ Tracks(target[t], crosswalk, {})
          /\ \A d \in Entities : TableOf[d] = t => Agrees(d, target[t], crosswalk)
      BY <1>1, <1>2, <2>2, BeforeOpen DEF RefreshInv
    <3>2. Tab(x)' = t /\ Visible(x)' = target[t] /\ Recording(x)' = {} /\ pc'[x] = "write"
      BY <1>2, <1>6 DEF Tab, Visible, Recording
    <3>3. \A q \in Refs : Seen(x)'[q] = crosswalk[q]
      BY <1>2 DEF Seen, Lookup
    <3>4. Said(x)' = {}
      BY <1>1, <1>2 DEF Said
    <3>5. \A m \in target[t] : m.ref \in Refs /\ m.id # None
      BY <1>1 DEF RefreshInv, Typed, Row, None
    <3>6. Tracks(Visible(x), Seen(x), Recording(x))'
      BY <3>1, <3>2, <3>3, <3>5 DEF Tracks
    <3>7. ASSUME NEW d \in Entities \ {e}, TableOf[d] = t PROVE Agrees(d, Visible(x), Seen(x))'
      BY <1>3, <3>1, <3>2, <3>3, <3>7 DEF Agrees, Leads, Holds, Keys
    <3>8. Leads(e, Visible(x)', Seen(x)')
      BY <2>1, <3>3 DEF Leads, Keys
    <3>9. Holds(e, Visible(x)', {})
      BY <2>1, <3>1, <3>2, <3>5 DEF Holds, Tracks
    <3>10. QED
      BY <1>2, <3>2, <3>4, <3>6, <3>7, <3>8, <3>9 DEF OpenedBy
  <2>3. Tab(x)' = t
    BY <1>2 DEF Tab
  <2>4. QED
    BY <1>2, <1>4, <2>2, <2>3, OpenedAt
<1>7. QED
  BY <1>2, <1>5, <1>6

\* The rows with the ids of an entity's entries are the rows of that entity.
LEMMA DeleteOpens ==
    ASSUME OneProcess, RefreshInv, NEW x \in Runs, DeleteRows(x)
    PROVE  Settled' /\ Opened'
<1> DEFINE e == entity[x]
           t == TableOf[e]
           I == ids[x]
           V == {m \in target[t] : m.id \notin I}
<1>1. e \in todo[x] /\ e \in Entities /\ t \in Tables /\ t = Tab(x)
  BY DEF DeleteRows, RefreshInv, Typed, TypeOK, Places, PlaceOf, Tab
<1>2. /\ pc[x] = "delete" /\ pc'[x] = "unmap" /\ entity' = entity /\ todo' = todo
      /\ new'[x] = {} /\ keys'[x] = {} /\ wrote'[x] = {}
      /\ gone'[x] = {m \in target[t] : m.id \in I}
      /\ UNCHANGED <<target, crosswalk, apart, report>>
      /\ I = {crosswalk[r] : r \in Keys(e)} \ {None}
  BY <1>1 DEF DeleteRows, GoTo, RefreshInv, Typed, TypeOK, Places, PlaceOf, Before, Outside,
     workVars, dbVars, boundVars
<1>3. Settled'
  BY <1>2, SettledFrame DEF RefreshInv
<1>4. ASSUME t \notin apart PROVE OpenedBy(x)'
  <2>1. /\ Tracks(target[t], crosswalk, {})
        /\ \A d \in Entities : TableOf[d] = t => Agrees(d, target[t], crosswalk)
    BY <1>1, <1>2, <1>4, BeforeOpen DEF RefreshInv
  <2>2. Tab(x)' = t /\ Recording(x)' = {}
    BY <1>2 DEF Tab, Recording
  <2>3. Visible(x)' = V
    BY <1>2, <2>2 DEF Visible
  <2>4. \A q \in Refs : Seen(x)'[q] = crosswalk[q]
    BY <1>2 DEF Seen, Lookup
  <2>5. Said(x)' = {}
    BY <1>1, <1>2 DEF Said
  <2>6. \A m \in target[t] : m.ref \in Refs /\ m.id # None
    BY <1>1 DEF RefreshInv, Typed, Row, None
  <2>7. Tracks(Visible(x), Seen(x), Recording(x))'
    BY <2>1, <2>2, <2>3, <2>4, <2>6 DEF Tracks
  <2>8. ASSUME NEW d \in Entities \ {e}, TableOf[d] = t, NEW m \in target[t], m.ref \in Keys(d)
        PROVE  m \in V
    <3>1. SUFFICES ASSUME m.id \in I PROVE FALSE
      BY <2>8
    <3>2. PICK q \in Keys(e) : crosswalk[q] = m.id /\ m.id # None
      BY <1>2, <3>1
    <3>3. Shared(t)
      BY <1>1, <2>8 DEF Shared
    <3>4. [id |-> m.id, ref |-> q] \in target[t]
      BY <1>1, <2>1, <3>2, <3>3 DEF Agrees, Leads
    <3>5. m = [id |-> m.id, ref |-> q]
      BY <1>1, <3>4 DEF RefreshInv, IdsInv, RowsOf
    <3>6. m.ref = q
      BY <3>5
    <3>7. QED
      BY <1>1, <2>8, <3>6, KeysApart
  <2>9. ASSUME NEW d \in Entities \ {e}, TableOf[d] = t PROVE Agrees(d, Visible(x), Seen(x))'
    <3>1. Agrees(d, target[t], crosswalk)
      BY <2>1, <2>9
    <3>2. Leads(d, target[t], crosswalk) => Leads(d, V, crosswalk)
      <4> SUFFICES ASSUME Leads(d, target[t], crosswalk), NEW r \in Keys(d), crosswalk[r] # None
                   PROVE  [id |-> crosswalk[r], ref |-> r] \in V
        BY DEF Leads
      <4> DEFINE m == [id |-> crosswalk[r], ref |-> r]
      <4>1. m \in target[t] /\ m.ref = r
        BY DEF Leads
      <4>2. QED
        BY <2>8, <2>9, <4>1
    <3>3. Holds(d, target[t], report[d].rows) => Holds(d, V, report[d].rows)
      BY <2>8, <2>9 DEF Holds
    <3>4. Shared(t)
      BY <1>1, <2>9 DEF Shared
    <3>5. Leads(d, V, crosswalk) => Leads(d, V, Seen(x)')
      BY <2>4 DEF Leads, Keys
    <3>6. QED
      BY <1>2, <2>3, <2>9, <3>1, <3>2, <3>3, <3>4, <3>5 DEF Agrees
  <2>10. Holds(e, V, {})
    BY <1>2, <2>1, <2>6 DEF Holds, Tracks
  <2>11. QED
    BY <1>2, <2>2, <2>3, <2>5, <2>7, <2>9, <2>10 DEF OpenedBy
<1>5. Tab(x)' = t
  BY <1>2 DEF Tab
<1>6. QED
  BY <1>2, <1>3, <1>4, <1>5, OpenedAt

\* A step inside the transactions leaves what is committed alone; what it shows
\* agreed before.
LEMMA Inside ==
    ASSUME OneProcess, RefreshInv, NEW x \in Runs,
           pc[x] \in {"unmap", "write", "record"},
           UNCHANGED <<target, crosswalk, report, apart, entity, todo>>
    PROVE  /\ Settled'
           /\ Tab(x)' = Tab(x) /\ entity[x] \in Entities
           /\ (Sure(x)' <=> Sure(x))
           /\ Tab(x) \notin apart => OpenedBy(x)
           /\ (Tab(x) \notin apart => OpenedBy(x)') => Opened'
           /\ \A m \in Visible(x) : m.ref \in Refs /\ m.id # None /\ m \in Row
<1>1. Settled'
  BY SettledFrame DEF RefreshInv
<1>2. Tab(x)' = Tab(x) /\ entity[x] \in Entities /\ (Sure(x)' <=> Sure(x))
  BY DEF Tab, Sure, RefreshInv, Typed, TypeOK
<1>3. Tab(x) \notin apart => OpenedBy(x)
  BY DEF RefreshInv, Opened, Open
<1>4. (Tab(x) \notin apart => OpenedBy(x)') => Opened'
  BY <1>2, OpenedAt
<1>5. Visible(x) \subseteq Row
  BY DEF Visible, RefreshInv, Typed, TypeOK, Tab
<1>6. \A m \in Row : m.ref \in Refs /\ m.id # None
  BY DEF Row, None
<1>7. QED
  BY <1>1, <1>2, <1>3, <1>4, <1>5, <1>6

\* The entries of an entity that has no rows left are given up.
LEMMA UnmapKeeps ==
    ASSUME OneProcess, RefreshInv, NEW x \in Runs, DeleteEntries(x)
    PROVE  Settled' /\ Opened'
<1> DEFINE e == entity[x]
<1>1. /\ pc[x] = "unmap" /\ pc'[x] = "write" /\ gone' = gone /\ new' = new /\ wrote' = wrote
      /\ UNCHANGED <<target, crosswalk, report, apart, entity, todo>>
      /\ keys[x] = {} /\ wrote[x] = {} /\ todo[x] # {}
      /\ keys'[x] = {r \in Keys(e) : crosswalk[r] # None}
      /\ xw'[x] = [r \in Refs |-> None]
  BY DEF DeleteEntries, GoTo, RefreshInv, Typed, TypeOK, Places, PlaceOf, Open,
     workVars, dbVars, boundVars
<1>2. Settled' /\ Tab(x)' = Tab(x) /\ e \in Entities /\ (Sure(x)' <=> Sure(x))
  BY <1>1, Inside
<1>3. ASSUME Tab(x) \notin apart PROVE OpenedBy(x)'
  <2>1. OpenedBy(x) /\ \A m \in Visible(x) : m.ref \in Refs /\ m.id # None
    BY <1>1, <1>3, Inside
  <2>2. Visible(x)' = Visible(x) /\ Said(x) = {} /\ Said(x)' = {} /\ Sure(x)
    BY <1>1, <1>2 DEF Visible, Said, Sure
  <2>3. \A r \in Refs : Seen(x)'[r] = IF r \in Keys(e) THEN None ELSE Seen(x)[r]
    BY <1>1 DEF Seen, Lookup
  <2>4. Recording(x)' = {} /\ Recording(x) = {}
    BY <1>1 DEF Recording
  <2>5. Holds(e, Visible(x), {})
    BY <2>1, <2>2 DEF OpenedBy
  <2>6. Tracks(Visible(x), Seen(x), Recording(x))'
    BY <2>1, <2>2, <2>3, <2>4, <2>5 DEF OpenedBy, Tracks, Holds, Keys
  <2>7. ASSUME NEW d \in Entities \ {e}, TableOf[d] = Tab(x)
        PROVE  Agrees(d, Visible(x), Seen(x))'
    <3>1. Agrees(d, Visible(x), Seen(x))
      BY <2>1, <2>7 DEF OpenedBy
    <3>2. \A r \in Keys(d) : Seen(x)'[r] = Seen(x)[r]
      BY <1>2, <2>3, <2>7, KeysApart DEF Keys
    <3>3. QED
      BY <1>1, <2>2, <3>1, <3>2 DEF Agrees, Leads, Holds
  <2>8. Leads(e, Visible(x)', Seen(x)')
    BY <2>3 DEF Leads, Keys
  <2>9. QED
    BY <1>1, <1>2, <2>2, <2>5, <2>6, <2>7, <2>8 DEF OpenedBy
<1>4. QED
  BY <1>1, <1>2, <1>3, Inside

\* A row that is found again is the source row's own, where that matters.
LEMMA UpdateKeeps ==
    ASSUME OneProcess, RefreshInv, NEW x \in Runs, NEW r \in Refs, UpdateRow(x, r)
    PROVE  Settled' /\ Opened'
<1> DEFINE e == entity[x]
<1>1. /\ pc[x] = "write" /\ pc' = pc /\ gone' = gone /\ new' = new /\ keys' = keys /\ xw' = xw
      /\ UNCHANGED <<target, crosswalk, report, apart, entity, todo>>
      /\ r \in Keys(e) /\ Exists(x, r)
      /\ wrote'[x] = wrote[x] \cup {r}
  BY DEF UpdateRow, RefreshInv, Typed, TypeOK, Places, PlaceOf, Outside, dbVars, txVars, boundVars
<1>2. Settled' /\ Tab(x)' = Tab(x) /\ (Sure(x)' <=> Sure(x))
  BY <1>1, Inside
<1>3. ASSUME Tab(x) \notin apart PROVE OpenedBy(x)'
  <2>1. OpenedBy(x) /\ \A m \in Visible(x) : m.ref \in Refs /\ m.id # None
    BY <1>1, <1>3, Inside
  <2>2. Visible(x)' = Visible(x) /\ Seen(x)' = Seen(x)
    BY <1>1 DEF Visible, Seen, Lookup, Tab
  <2>3. Recording(x)' = {} /\ Recording(x) = {}
    BY <1>1 DEF Recording
  <2>4. Said(x)' = Said(x) \cup {r}
    BY <1>1 DEF Said
  <2>5. ASSUME Sure(x) PROVE \E m \in Visible(x) : m.ref = r
    <3>1. PICK m \in Visible(x) : m.id = Lookup(x, r)
      BY <1>1 DEF Exists
    <3>2. Seen(x)[r] # None
      BY <2>1, <3>1 DEF Seen
    <3>3. [id |-> Seen(x)[r], ref |-> r] \in Visible(x)
      BY <1>1, <2>1, <2>5, <3>2 DEF OpenedBy, Leads
    <3>4. QED
      BY <3>3
  <2>6. Sure(x) => Holds(e, Visible(x), Said(x)')
    BY <2>1, <2>4, <2>5 DEF OpenedBy, Holds
  <2>7. QED
    BY <1>1, <1>2, <2>1, <2>2, <2>3, <2>6 DEF OpenedBy, Agrees
<1>4. QED
  BY <1>1, <1>2, <1>3, Inside

\* A row is inserted for a source row that has none.
LEMMA InsertKeeps ==
    ASSUME OneProcess, RefreshInv, NEW x \in Runs, NEW r \in Refs, InsertRow(x, r)
    PROVE  Settled' /\ Opened'
<1> DEFINE e == entity[x]
           n == [id |-> nextId[Tab(x)], ref |-> r]
<1>1. /\ pc[x] = "write" /\ pc'[x] = "record" /\ gone' = gone /\ keys' = keys /\ xw' = xw
      /\ new'[x] = new[x] \cup {n}
      /\ UNCHANGED <<target, crosswalk, report, apart, entity, todo>>
      /\ r \in Keys(e) /\ ~Exists(x, r)
      /\ wrote'[x] = wrote[x] \cup {r} /\ cur'[x] = r
  BY DEF InsertRow, GoTo, RefreshInv, Typed, TypeOK, Places, PlaceOf, Outside, boundVars
<1>2. Settled' /\ Tab(x)' = Tab(x) /\ e \in Entities /\ (Sure(x)' <=> Sure(x))
  BY <1>1, Inside
<1>3. ASSUME Tab(x) \notin apart PROVE OpenedBy(x)'
  <2>1. OpenedBy(x) /\ \A m \in Visible(x) : m.ref \in Refs /\ m.id # None
    BY <1>1, <1>3, Inside
  <2>2. Visible(x)' = Visible(x) \cup {n} /\ Seen(x)' = Seen(x)
    BY <1>1, <1>2 DEF Visible, Seen, Lookup
  <2>3. Recording(x)' = {r} /\ Recording(x) = {} /\ n.ref = r
    BY <1>1 DEF Recording
  <2>4. Said(x)' = Said(x) \cup {r}
    BY <1>1 DEF Said
  <2>5. \A m \in Visible(x) : m.ref # r
    <3>1. \A m \in Visible(x) : Seen(x)[m.ref] = m.id
      BY <2>1, <2>3 DEF OpenedBy, Tracks
    <3>2. QED
      BY <1>1, <3>1 DEF Exists, Seen
  <2>6. Tracks(Visible(x), Seen(x), Recording(x))'
    BY <2>1, <2>2, <2>3 DEF OpenedBy, Tracks
  <2>7. \A m, q \in Visible(x)' : m.ref = r /\ q.ref = r => m = q
    BY <2>2, <2>5
  <2>8. ASSUME NEW d \in Entities \ {e}, TableOf[d] = Tab(x)
        PROVE  Agrees(d, Visible(x), Seen(x))'
    <3>1. Agrees(d, Visible(x), Seen(x))
      BY <2>1, <2>8 DEF OpenedBy
    <3>2. n.ref \notin Keys(d)
      BY <1>1, <1>2, <2>3, <2>8, KeysApart
    <3>3. QED
      <4> HIDE DEF n
      <4>1. QED
        BY <1>1, <2>2, <3>1, <3>2 DEF Agrees, Leads, Holds
  <2>9. Leads(e, Visible(x), Seen(x)) => Leads(e, Visible(x)', Seen(x)')
    BY <2>2 DEF Leads
  <2>10. Sure(x) => Holds(e, Visible(x)', Said(x)')
    <3> HIDE DEF n
    <3>1. QED
      BY <2>1, <2>2, <2>3, <2>4 DEF OpenedBy, Holds
  <2>11. QED
    BY <1>1, <1>2, <2>1, <2>6, <2>7, <2>8, <2>9, <2>10 DEF OpenedBy
<1>4. QED
  BY <1>1, <1>2, <1>3, Inside

\* A source row that is left out changes nothing that can be seen.
LEMMA RejectKeeps ==
    ASSUME OneProcess, RefreshInv, NEW x \in Runs, NEW r \in Refs, RejectRow(x, r)
    PROVE  Settled' /\ Opened'
<1>1. /\ pc[x] = "write" /\ pc' = pc /\ UNCHANGED <<gone, new, keys, xw, wrote, cur>>
      /\ UNCHANGED <<target, crosswalk, report, apart, entity, todo>>
  BY DEF RejectRow, dbVars, txVars
<1>2. Tab(x) \notin apart => OpenedBy(x)
  BY <1>1, Inside
<1>3. OpenedBy(x)' <=> OpenedBy(x)
  <2>1. Visible(x)' = Visible(x) /\ Seen(x)' = Seen(x)
    BY <1>1 DEF Visible, Seen, Lookup, Tab
  <2>2. Recording(x)' = Recording(x) /\ Said(x)' = Said(x) /\ (Sure(x)' <=> Sure(x))
        /\ Tab(x)' = Tab(x)
    BY <1>1 DEF Recording, Said, Sure, Tab
  <2>3. QED
    BY <1>1, <2>1, <2>2 DEF OpenedBy, Agrees
<1>4. QED
  BY <1>1, <1>2, <1>3, Inside

\* The entry of an inserted row leads to it.
LEMMA RecordKeeps ==
    ASSUME OneProcess, RefreshInv, NEW x \in Runs, RecordRow(x)
    PROVE  Settled' /\ Opened'
<1> DEFINE e == entity[x]
           c == cur[x]
<1>1. PICK row \in new[x] : row.ref = c /\ xw' = [xw EXCEPT ![x][c] = row.id]
  BY DEF RecordRow
<1>2. /\ pc[x] = "record" /\ pc'[x] = "write" /\ gone' = gone /\ new' = new /\ wrote' = wrote
      /\ UNCHANGED <<target, crosswalk, report, apart, entity, todo>>
      /\ keys'[x] = keys[x] \cup {c} /\ c \in Keys(e)
      /\ xw'[x] = [xw[x] EXCEPT ![c] = row.id]
      /\ xw[x] \in [Refs -> Nat]
  BY <1>1 DEF RecordRow, GoTo, RefreshInv, Typed, TypeOK, Places, PlaceOf,
     workVars, dbVars, boundVars
<1>3. Settled' /\ Tab(x)' = Tab(x) /\ e \in Entities /\ (Sure(x)' <=> Sure(x))
  BY <1>2, Inside
<1>4. ASSUME Tab(x) \notin apart PROVE OpenedBy(x)'
  <2>1. OpenedBy(x) /\ \A m \in Visible(x) : m.ref \in Refs /\ m.id # None /\ m \in Row
    BY <1>2, <1>4, Inside
  <2>2. Visible(x)' = Visible(x) /\ Said(x)' = Said(x) /\ row \in Visible(x)
    BY <1>1, <1>2, <1>3 DEF Visible, Said
  <2>3. \A q \in Refs : Seen(x)'[q] = IF q = c THEN row.id ELSE Seen(x)[q]
    <3>1. \A q \in Refs : xw'[x][q] = IF q = c THEN row.id ELSE xw[x][q]
      BY <1>2
    <3>2. QED
      BY <1>2, <3>1 DEF Seen, Lookup
  <2>4. Recording(x)' = {} /\ Recording(x) = {c}
    BY <1>2 DEF Recording
  <2>5. Tracks(Visible(x), Seen(x), Recording(x))'
    <3> SUFFICES ASSUME NEW m \in Visible(x) PROVE Seen(x)'[m.ref] = m.id
      BY <2>2, <2>4 DEF Tracks
    <3>1. CASE m.ref = c
      <4>1. m = row
        BY <1>1, <1>2, <2>1, <2>2, <3>1 DEF OpenedBy
      <4>2. QED
        BY <2>1, <2>3, <3>1, <4>1
    <3>2. CASE m.ref # c
      BY <2>1, <2>3, <2>4, <3>2 DEF OpenedBy, Tracks
    <3>3. QED
      BY <3>1, <3>2
  <2>6. ASSUME NEW d \in Entities \ {e}, TableOf[d] = Tab(x)
        PROVE  Agrees(d, Visible(x), Seen(x))'
    <3>1. Agrees(d, Visible(x), Seen(x))
      BY <2>1, <2>6 DEF OpenedBy
    <3>2. \A r \in Keys(d) : Seen(x)'[r] = Seen(x)[r]
      BY <1>2, <1>3, <2>3, <2>6, KeysApart DEF Keys
    <3>3. QED
      BY <1>2, <2>2, <3>1, <3>2 DEF Agrees, Leads, Holds
  <2>7. Leads(e, Visible(x), Seen(x)) => Leads(e, Visible(x)', Seen(x)')
    <3> SUFFICES ASSUME Leads(e, Visible(x), Seen(x)), NEW r \in Keys(e), Seen(x)'[r] # None
                 PROVE  [id |-> Seen(x)'[r], ref |-> r] \in Visible(x)
      BY <2>2 DEF Leads
    <3>1. r \in Refs
      BY DEF Keys
    <3>2. CASE r = c
      <4>1. row = [id |-> row.id, ref |-> row.ref]
        BY <2>1, <2>2 DEF Row
      <4>2. QED
        BY <1>1, <2>2, <2>3, <3>1, <3>2, <4>1
    <3>3. CASE r # c
      BY <2>3, <3>1, <3>3 DEF Leads
    <3>4. QED
      BY <3>2, <3>3
  <2>8. QED
    BY <1>2, <1>3, <2>1, <2>2, <2>4, <2>5, <2>6, <2>7 DEF OpenedBy
<1>5. QED
  BY <1>2, <1>3, <1>4, Inside

\* The target's commit shows to everybody what the run saw.
LEMMA CommitTargetKeeps ==
    ASSUME OneProcess, RefreshInv, NEW x \in Runs, CommitTarget(x)
    PROVE  Settled' /\ Opened'
<1> DEFINE e == entity[x]
           t == Tab(x)
<1>1. /\ pc[x] = "write" /\ pc'[x] = "central" /\ gone'[x] = {} /\ new'[x] = {}
      /\ UNCHANGED <<crosswalk, apart, entity, todo, keys, xw, wrote>>
      /\ e \in Entities /\ t \in Tables /\ t = TableOf[e]
      /\ target'[t] = Visible(x)
      /\ \A u \in Tables : u # t => target'[u] = target[u]
  BY DEF CommitTarget, GoTo, RefreshInv, Typed, TypeOK, Tab, workVars, boundVars
<1>2. /\ report'[e].done = report[e].done
      /\ report'[e].rows = IF todo[x] = {} THEN report[e].rows \cup wrote[x] ELSE report[e].rows
      /\ \A d \in Entities : d # e => report'[d] = report[d]
  <2>1. report \in [Entities -> [done : BOOLEAN, rows : SUBSET Refs]]
    BY DEF RefreshInv, Typed, TypeOK
  <2>2. report'[e] = [report[e] EXCEPT !.rows =
                         IF todo[x] = {} THEN @ \cup wrote[x] ELSE @]
    BY <1>1, <2>1 DEF CommitTarget
  <2>3. \A d \in Entities : d # e => report'[d] = report[d]
    BY <2>1 DEF CommitTarget
  <2>4. report[e] \in [done : BOOLEAN, rows : SUBSET Refs]
    BY <1>1, <2>1
  <2>5. QED
    BY <2>2, <2>3, <2>4
<1>3. Tab(x)' = t /\ Between(t)'
  BY <1>1 DEF Tab, Between
<1>4. Settled'
  <2> SUFFICES ASSUME NEW u \in Tables \ apart, u # t
               PROVE  /\ Tracks(target[u], crosswalk, {})'
                      /\ \A d \in Entities : TableOf[d] = u => Agrees(d, target[u], crosswalk)'
    BY <1>1, <1>3 DEF Settled
  <2>1. /\ Tracks(target[u], crosswalk, {})
        /\ \A d \in Entities : TableOf[d] = u => Agrees(d, target[u], crosswalk)
    BY <1>1, BeforeOpen DEF RefreshInv
  <2>2. \A d \in Entities : TableOf[d] = u => report'[d] = report[d]
    BY <1>1, <1>2
  <2>3. QED
    BY <1>1, <2>1, <2>2 DEF Tracks, Agrees, Leads, Holds
<1>5. ASSUME t \notin apart PROVE OpenedBy(x)'
  <2>1. OpenedBy(x)
    BY <1>1, <1>5 DEF RefreshInv, Opened, Open
  <2>2. Visible(x)' = Visible(x) /\ Seen(x)' = Seen(x)
    <3>1. Visible(x)' = (target'[t] \ {}) \cup {}
      BY <1>1, <1>3 DEF Visible
    <3>2. QED
      BY <1>1, <3>1 DEF Seen, Lookup
  <2>3. Recording(x)' = {} /\ Recording(x) = {} /\ Said(x)' = Said(x) /\ (Sure(x)' <=> Sure(x))
    BY <1>1, <1>2 DEF Recording, Said, Sure
  <2>4. ASSUME NEW d \in Entities \ {e}, TableOf[d] = t PROVE Agrees(d, Visible(x), Seen(x))'
    BY <1>2, <2>1, <2>2, <2>4 DEF OpenedBy, Agrees
  <2>5. QED
    BY <1>1, <1>3, <2>1, <2>2, <2>3, <2>4 DEF OpenedBy
<1>6. QED
  BY <1>3, <1>4, <1>5, OpenedAt, <1>1

\* With the central commit the entity is as it is reported.
LEMMA CommitCentralSettles ==
    ASSUME OneProcess, RefreshInv, NEW x \in Runs, CommitCentral(x)
    PROVE  Settled' /\ Opened'
<1> DEFINE e == entity[x]
           t == Tab(x)
<1>1. /\ pc[x] = "central" /\ pc'[x] \in Outside
      /\ UNCHANGED <<target, apart>>
      /\ crosswalk' = Seen(x)
      /\ e \in Entities /\ t = TableOf[e] /\ keys[x] \subseteq Keys(e)
      /\ Visible(x) = target[t]
      /\ todo[x] = {} => wrote[x] \subseteq report[e].rows
  <2>1. todo[x] \ {e} \in SUBSET Entities
    BY DEF RefreshInv, Typed, TypeOK
  <2>2. pc'[x] \in Outside
    BY <2>1, LeavePlace DEF CommitCentral, RefreshInv
  <2>3. PlaceOf(x) /\ e \in Entities
    BY DEF RefreshInv, Typed, TypeOK, Places
  <2>4. pc[x] = "central" /\ gone[x] = {} /\ new[x] = {} /\ keys[x] \subseteq Keys(e)
        /\ (todo[x] = {} => wrote[x] \subseteq report[e].rows)
    BY <2>3 DEF CommitCentral, PlaceOf, Outside
  <2>5. QED
    BY <2>2, <2>3, <2>4 DEF CommitCentral, Tab, Visible, Seen, boundVars
<1>2. /\ \A d \in Entities : d # e => report'[d] = report[d]
      /\ todo[x] = {} => report'[e] = report[e]
      /\ todo[x] # {} => report'[e].rows = wrote[x]
  BY <1>1 DEF CommitCentral, RefreshInv, Typed, TypeOK
<1>3. Opened'
  BY <1>1, NotOpen DEF Open, Outside
<1>4. ASSUME NEW u \in Tables \ apart
      PROVE  /\ Tracks(target[u], crosswalk', {})
             /\ \A d \in Entities : TableOf[d] = u =>
                   /\ Shared(u) \/ report'[d].done => Leads(d, target[u], crosswalk')
                   /\ report'[d].done => Holds(d, target[u], report'[d].rows)
  <2>1. CASE u = t
    <3>1. OpenedBy(x)
      BY <1>1, <2>1 DEF RefreshInv, Opened, Open
    <3>2. Recording(x) = {}
      BY <1>1 DEF Recording
    <3>3. Tracks(target[u], crosswalk', {})
      BY <1>1, <2>1, <3>1, <3>2 DEF OpenedBy
    <3>4. \A d \in Entities \ {e} : TableOf[d] = u =>
             /\ Shared(u) \/ report'[d].done => Leads(d, target[u], crosswalk')
             /\ report'[d].done => Holds(d, target[u], report'[d].rows)
      BY <1>1, <1>2, <2>1, <3>1 DEF OpenedBy, Agrees
    <3>5. report'[e].done => Sure(x)
      BY <1>2 DEF Sure
    <3>6. Shared(u) \/ report'[e].done => Leads(e, target[u], crosswalk')
      BY <1>1, <2>1, <3>1, <3>5 DEF OpenedBy
    <3>7. report'[e].done => Said(x) = report'[e].rows
      BY <1>1, <1>2 DEF Said
    <3>8. report'[e].done => Holds(e, target[u], report'[e].rows)
      BY <1>1, <2>1, <3>1, <3>5, <3>7 DEF OpenedBy
    <3>9. QED
      BY <3>3, <3>4, <3>6, <3>8
  <2>2. CASE u # t
    <3>1. ~Between(u)
      BY <2>2 DEF OneProcess, Between
    <3>2. /\ Tracks(target[u], crosswalk, {})
          /\ \A d \in Entities : TableOf[d] = u => Agrees(d, target[u], crosswalk)
      BY <3>1 DEF RefreshInv, Settled
    <3>3. \A r \in Refs : TableOf[EntityOf[r]] = u => crosswalk'[r] = crosswalk[r]
      BY <1>1, <2>2 DEF Seen, Lookup, Keys
    <3>4. \A m \in target[u] : m.ref \in Refs /\ TableOf[EntityOf[m.ref]] = u
      BY DEF RefreshInv, Typed, TypeOK, IdsInv, RowsOf, Row
    <3>5. Tracks(target[u], crosswalk', {})
      BY <3>2, <3>3, <3>4 DEF Tracks
    <3>6. \A d \in Entities : TableOf[d] = u => report'[d] = report[d]
      BY <1>1, <1>2, <2>2
    <3>7. \A d \in Entities : TableOf[d] = u =>
             (Leads(d, target[u], crosswalk) => Leads(d, target[u], crosswalk'))
      BY <3>3 DEF Leads, Keys
    <3>8. QED
      BY <3>2, <3>5, <3>6, <3>7 DEF Agrees
  <2>3. QED
    BY <2>1, <2>2
<1>5. QED
  BY <1>1, <1>3, <1>4 DEF Settled, Agrees, Tracks, Leads, Holds

\* A new table agrees with a crosswalk that is silent about it, and with any where
\* it is one entity's: nothing is reported of it.
LEMMA ResetSettles ==
    ASSUME OneProcess, RefreshInv, NEW x \in Runs, Reset(x)
    PROVE  Settled' /\ Opened'
<1>1. /\ pc'[x] = "next" /\ target' = [t \in Tables |-> {}] /\ crosswalk' = crosswalk
      /\ apart' = Mixed
      /\ \A e \in Entities : ~report'[e].done
  BY DEF Reset, GoTo, NoReport, RefreshInv, Typed, TypeOK
<1>2. ASSUME NEW t \in Tables \ Mixed, NEW e \in Entities, TableOf[e] = t, Shared(t)
      PROVE  \A r \in Keys(e) : crosswalk[r] = None
  BY <1>2 DEF Mixed, Shared, Keys
<1>3. Settled'
  BY <1>1, <1>2 DEF Settled, Tracks, Agrees, Leads, Shared, Keys
<1>4. QED
  BY <1>1, <1>3, NotOpen DEF Open

\* A rollback leaves what is committed.
LEMMA LeaveKeeps ==
    ASSUME OneProcess, RefreshInv, NEW x \in Runs,
           SkipEntity(x) \/ FailEntity(x) \/ CentralCommitFails(x) \/ Crash(x)
    PROVE  Settled' /\ Opened'
<1>1. PICK E \in SUBSET Entities : Leave(x, E)
  <2>1. \A y : todo[x] \ {y} \in SUBSET Entities
    BY DEF RefreshInv, Typed, TypeOK
  <2>2. {} \in SUBSET Entities
    OBVIOUS
  <2>3. QED
    BY <2>1, <2>2 DEF SkipEntity, FailEntity, CentralCommitFails, Crash
<1>2. Opened'
  BY <1>1, LeavePlace, NotOpen DEF RefreshInv, Open, Outside
<1>3. /\ target' = target /\ crosswalk' = crosswalk /\ report' = report
      /\ apart \subseteq apart' /\ (pc[x] = "central" => Tab(x) \in apart')
  BY DEF SkipEntity, FailEntity, CentralCommitFails, Crash, dbVars, boundVars
<1>4. QED
  BY <1>2, <1>3, SettledFrame DEF RefreshInv

\* Nor do the steps outside the transactions change it.
LEMMA OutsideKeeps ==
    ASSUME OneProcess, RefreshInv, NEW x \in Runs,
           pc[x] \in Outside, pc'[x] \in Outside,
           UNCHANGED <<target, crosswalk, report, apart>>
    PROVE  Settled' /\ Opened'
<1>1. Settled'
  BY SettledFrame DEF RefreshInv, Outside
<1>2. QED
  BY <1>1, NotOpen DEF Open, Outside

-----------------------------------------------------------------------------
(* The theorem *)

LEMMA RefreshInit == Init => RefreshInv
<1> SUFFICES ASSUME Init PROVE RefreshInv
  OBVIOUS
<1>1. Typed
  BY TypeInit
<1>2. Busy /\ Places
  BY DEF Init, Busy, Places, PlaceOf, Outside, Before, Open
<1>3. IdsInv
  BY <1>1 DEF Init, IdsInv, RowsOf, Tab, Typed, TypeOK
<1>4. Settled
  BY DEF Init, Settled, Tracks, Agrees, Leads, Holds, NoReport, Keys
<1>5. Opened
  BY DEF Init, Opened, Open
<1>6. QED
  BY <1>1, <1>2, <1>3, <1>4, <1>5 DEF RefreshInv

LEMMA SettledStep ==
    ASSUME OneProcess, RefreshInv, [Next]_vars PROVE Settled' /\ Opened'
<1> USE DEF dbVars, workVars, txVars, boundVars, Start
<1>1. ASSUME NEW x \in Refreshers, NEW E \in SUBSET Entities, StartRefresh(x, E)
      PROVE  Settled' /\ Opened'
  <2>1. x \in Runs /\ pc[x] \in Outside /\ pc'[x] \in Outside
    BY <1>1 DEF StartRefresh, GoTo, RefreshInv, Typed, TypeOK, Runs, Outside
  <2>2. QED
    BY <1>1, <2>1, OutsideKeeps DEF StartRefresh
<1>2. ASSUME NEW x \in Refreshers, NEW restore \in BOOLEAN, StartNightly(x, restore)
      PROVE  Settled' /\ Opened'
  <2>1. x \in Runs /\ pc[x] \in Outside /\ pc'[x] \in Outside
    BY <1>2 DEF StartNightly, GoTo, RefreshInv, Typed, TypeOK, Runs, Outside
  <2>2. QED
    BY <1>2, <2>1, OutsideKeeps DEF StartNightly
<1>3. ASSUME NEW x \in Workers, NEW r \in Refs, StartDelivery(x, r) PROVE Settled' /\ Opened'
  BY <1>3, DeliveryOpens
<1>4. ASSUME NEW x \in Runs, NEW S \in SUBSET Refs, Restore(x, S) PROVE Settled' /\ Opened'
  <2>1. pc[x] \in Outside /\ pc'[x] \in Outside
    BY <1>4 DEF Restore, GoTo, RefreshInv, Typed, TypeOK, Outside
  <2>2. QED
    BY <1>4, <2>1, OutsideKeeps DEF Restore
<1>5. ASSUME NEW x \in Runs, RestoreFails(x) \/ Backup(x) PROVE Settled' /\ Opened'
  <2>1. pc[x] \in Outside /\ pc'[x] \in Outside
    BY <1>5 DEF RestoreFails, Backup, GoTo, RefreshInv, Typed, TypeOK, Outside
  <2>2. QED
    BY <1>5, <2>1, OutsideKeeps DEF RestoreFails, Backup
<1>6. ASSUME NEW x \in Runs, SkipEntity(x) \/ FailEntity(x) \/ CentralCommitFails(x) \/ Crash(x)
      PROVE  Settled' /\ Opened'
  BY <1>6, LeaveKeeps
<1>7. ASSUME NEW x \in Runs, ReadEntity(x) PROVE Settled' /\ Opened'
  BY <1>7, ReadOpens
<1>8. ASSUME NEW x \in Runs, DeleteRows(x) PROVE Settled' /\ Opened'
  BY <1>8, DeleteOpens
<1>9. ASSUME NEW x \in Runs, DeleteEntries(x) PROVE Settled' /\ Opened'
  BY <1>9, UnmapKeeps
<1>10. ASSUME NEW x \in Runs, NEW r \in Refs, UpdateRow(x, r) PROVE Settled' /\ Opened'
  BY <1>10, UpdateKeeps
<1>11. ASSUME NEW x \in Runs, NEW r \in Refs, InsertRow(x, r) PROVE Settled' /\ Opened'
  BY <1>11, InsertKeeps
<1>12. ASSUME NEW x \in Runs, NEW r \in Refs, RejectRow(x, r) PROVE Settled' /\ Opened'
  BY <1>12, RejectKeeps
<1>13. ASSUME NEW x \in Runs, RecordRow(x) PROVE Settled' /\ Opened'
  BY <1>13, RecordKeeps
<1>14. ASSUME NEW x \in Runs, CommitTarget(x) PROVE Settled' /\ Opened'
  BY <1>14, CommitTargetKeeps
<1>15. ASSUME NEW x \in Runs, CommitCentral(x) PROVE Settled' /\ Opened'
  BY <1>15, CommitCentralSettles
<1>16. ASSUME NEW x \in Runs, Reset(x) PROVE Settled' /\ Opened'
  BY <1>16, ResetSettles
<1>17. CASE UNCHANGED <<target, crosswalk, report, pc, todo, entity, wrote, cur, txVars, apart>>
  <2>1. \A x \in Runs : Tab(x)' = Tab(x) /\ Visible(x)' = Visible(x) /\ Seen(x)' = Seen(x)
    BY <1>17 DEF Tab, Visible, Seen, Lookup
  <2>2. \A x \in Runs : /\ Said(x)' = Said(x) /\ (Sure(x)' <=> Sure(x))
                        /\ Recording(x)' = Recording(x)
    BY <1>17 DEF Said, Sure, Recording
  <2>3. Settled'
    BY <1>17, <2>1 DEF RefreshInv, Settled, Between, Agrees
  <2>4. \A x \in Runs : OpenedBy(x) => OpenedBy(x)'
    BY <1>17, <2>1, <2>2 DEF OpenedBy, Agrees
  <2>5. QED
    BY <1>17, <2>1, <2>3, <2>4 DEF RefreshInv, Opened
<1>18. ASSUME NEW r \in Refs, ChangeSource(r) PROVE Settled' /\ Opened'
  BY <1>17, <1>18 DEF ChangeSource
<1>19. CASE UNCHANGED vars
  BY <1>17, <1>19 DEF vars
<1>20. QED
  BY <1>1, <1>2, <1>3, <1>4, <1>5, <1>6, <1>7, <1>8, <1>9, <1>10, <1>11, <1>12, <1>13, <1>14,
     <1>15, <1>16, <1>18, <1>19 DEF Next

LEMMA RefreshStep == OneProcess /\ RefreshInv /\ [Next]_vars => RefreshInv'
<1> SUFFICES ASSUME OneProcess, RefreshInv, [Next]_vars PROVE RefreshInv'
  OBVIOUS
<1>1. Typed /\ Busy /\ Places /\ IdsInv
  BY DEF RefreshInv
<1>2. Typed' /\ Busy'
  BY <1>1, TypeStep, BusyStep
<1>3. Places' /\ IdsInv'
  BY <1>1, PlaceStep, IdsStep
<1>4. QED
  BY <1>2, <1>3, SettledStep DEF RefreshInv

\* A table the crosswalk tracks has a row for a source row once, and has it where
\* the entity's report says so.
LEMMA TrackedIsExact ==
    ASSUME Typed, NEW e \in Entities, NEW r \in Keys(e),
           NEW but, r \notin but, NEW X, Tracks(target[TableOf[e]], X, but),
           RowsOf(TableOf[e], target[TableOf[e]])
    PROVE  /\ Cardinality(Copies(r)) =< 1
           /\ report[e].done /\ Holds(e, target[TableOf[e]], report[e].rows) =>
                 Cardinality(Copies(r)) = IF r \in report[e].rows THEN 1 ELSE 0
<1> DEFINE T == target[TableOf[e]]
<1>1. Copies(r) = {m \in T : m.ref = r}
  BY DEF Copies, Keys
<1>2. \A m, n \in Copies(r) : m = n
  BY <1>1 DEF Tracks, RowsOf
<1>3. CASE Copies(r) = {}
  <2>1. Cardinality(Copies(r)) = 0
    BY <1>3, FS_EmptySet
  <2>2. Holds(e, T, report[e].rows) => r \notin report[e].rows
    BY <1>1, <1>3 DEF Holds
  <2>3. QED
    BY <2>1, <2>2
<1>4. CASE Copies(r) # {}
  <2>1. PICK m : m \in Copies(r)
    BY <1>4
  <2>2. Copies(r) = {m}
    BY <1>2, <2>1
  <2>3. Cardinality(Copies(r)) = 1
    BY <2>2, FS_Singleton
  <2>4. Holds(e, T, report[e].rows) => r \in report[e].rows
    BY <1>1, <2>1 DEF Holds
  <2>5. QED
    BY <2>3, <2>4
<1>5. QED
  BY <1>3, <1>4

\* The invariant says so of every table, also of one whose two commits are not both
\* made.
LEMMA InvIsExact == OneProcess /\ RefreshInv => ExactOnTrack
<1> SUFFICES ASSUME OneProcess, RefreshInv, NEW e \in Entities, TableOf[e] \notin apart,
                    NEW r \in Keys(e)
             PROVE  /\ Cardinality(Copies(r)) =< 1
                    /\ report[e].done =>
                          Cardinality(Copies(r)) = IF r \in report[e].rows THEN 1 ELSE 0
  <2>1. \A r \in Refs : EntityOf[r] \in Entities /\ r \in Keys(EntityOf[r])
    BY DEF Keys
  <2>2. QED
    BY <2>1 DEF ExactOnTrack, RefreshedExactOnTrack, NoDuplicates, Exact
<1> DEFINE t == TableOf[e]
<1>1. Typed /\ t \in Tables /\ RowsOf(t, target[t])
  BY DEF RefreshInv, IdsInv
<1>2. CASE ~Between(t)
  <2>1. Tracks(target[t], crosswalk, {}) /\ Agrees(e, target[t], crosswalk)
    BY <1>1, <1>2 DEF RefreshInv, Settled
  <2>2. QED
    BY <1>1, <2>1, TrackedIsExact DEF Agrees
<1>3. CASE Between(t)
  <2>1. PICK x \in Runs : pc[x] = "central" /\ Tab(x) = t
    BY <1>3 DEF Between
  <2>2. OpenedBy(x) /\ PlaceOf(x)
    BY <2>1 DEF RefreshInv, Opened, Open, Places
  <2>3. Visible(x) = target[t] /\ Recording(x) = {}
    BY <2>1, <2>2 DEF Visible, Recording, PlaceOf
  <2>4. Tracks(target[t], Seen(x), {})
    BY <2>2, <2>3 DEF OpenedBy
  <2>5. ASSUME report[e].done PROVE Holds(e, target[t], report[e].rows)
    <3>1. CASE e = entity[x]
      <4>1. todo[x] = {} /\ Sure(x)
        BY <2>1, <2>2, <2>5, <3>1 DEF PlaceOf, Outside, Sure
      <4>2. Said(x) = report[e].rows
        BY <2>1, <2>2, <3>1, <4>1 DEF PlaceOf, Said
      <4>3. QED
        BY <2>2, <2>3, <3>1, <4>1, <4>2 DEF OpenedBy
    <3>2. CASE e # entity[x]
      BY <2>1, <2>2, <2>3, <2>5, <3>2 DEF OpenedBy, Agrees
    <3>3. QED
      BY <3>1, <3>2
  <2>6. QED
    BY <1>1, <2>4, <2>5, TrackedIsExact
<1>4. QED
  BY <1>2, <1>3

\* Where one process refreshes, rebuilds and delivers, an entity that is reported
\* done has in the target the rows of its last refresh and of the deliveries since,
\* each once, and nothing else, and a source row never has two rows: in every table
\* the crosswalk has not lost track of (refresh_entity, delete_entity_rows,
\* redeliver_all, recreate_target_database).
THEOREM RefreshIsExact == OneProcess /\ Spec => []ExactOnTrack
<1>1. OneProcess => OneProcess'
  BY DEF OneProcess
<1>2. OneProcess /\ Spec => []OneProcess
  BY <1>1, PTL DEF Spec
<1>3. QED
  BY RefreshInit, RefreshStep, InvIsExact, <1>2, PTL DEF Spec
=============================================================================
