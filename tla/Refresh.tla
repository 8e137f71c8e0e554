------------------------------ MODULE Refresh ------------------------------
(***************************************************************************)
(* Rebuilding the target from the source: redeliver_all refreshes entity   *)
(* after entity (delete what the crosswalk lists, write every source row,  *)
(* commit the target, commit the central database); run_nightly_refresh    *)
(* resets the target first.  Several runs, and the worker's deliveries,    *)
(* may be in progress at the same time: a refresh, a refresh of everything *)
(* and the nightly script exclude one another nowhere.                     *)
(*                                                                         *)
(* An entity writes one table with AUTO_INCREMENT keys, which entities may *)
(* share; a row is its id and the source row it came from.  The fan-out    *)
(* over several tables is the subject of Delivery.                         *)
(***************************************************************************)
EXTENDS Naturals, FiniteSets, FiniteSetsExt

CONSTANTS
    NEntities,      \* entities, numbered in the order of source_table
    Refs,           \* external references: source rows
    EntityOf,       \* [Refs -> Entities]
    Tables,
    TableOf,        \* [Entities -> Tables]
    Unmapped,       \* entities without an approved mapping
    Refreshers,     \* processes that refresh, at the same time
    Workers,        \* processes that deliver events; one that does both does one at a time
    Kinds,          \* the refreshes that are started: "refresh", "nightly"
    MaxStarts,      \* bound: runs ever started
    MaxChanges,     \* bound: changes of the source
    MaxFailures,    \* bound: entities that fail before the target is committed
    MaxLost         \* bound: crashes, and commits of the central database that fail

Entities == 1..NEntities
Runs     == Refreshers \cup Workers

ASSUME RefreshAssumption ==
    /\ NEntities \in Nat \ {0}
    /\ Refs # {}
    /\ EntityOf \in [Refs -> Entities]
    /\ TableOf \in [Entities -> Tables]
    /\ Unmapped \subseteq Entities
    /\ Kinds \subseteq {"refresh", "nightly"}
    /\ MaxStarts \in Nat /\ MaxChanges \in Nat /\ MaxFailures \in Nat /\ MaxLost \in Nat

VARIABLES
    source,     \* source rows
    target,     \* committed rows of each table
    nextId,     \* AUTO_INCREMENT of each table; a rollback does not give ids back
    crosswalk,  \* committed id_crosswalk: the target id of a source row, or None
    report,     \* each entity: was its last refresh reported done, and the rows written
    \* each run
    pc, todo,   \* its control and the entities it has still to refresh
    entity,     \* the entity it is at
    ids,        \* target ids it read from the crosswalk
    rows,       \* source rows it has still to write
    wrote,      \* source rows it wrote
    cur,        \* the source row being recorded
    gone, new,  \* rows its target transaction deleted and inserted
    keys, xw,   \* crosswalk keys its central transaction changed, and to what
    apart,      \* history: tables whose rows the crosswalk has lost track of
    starts, changes, failures, lost

dbVars    == <<source, target, nextId, crosswalk, report>>
workVars  == <<ids, rows, wrote, cur>>
txVars    == <<gone, new, keys, xw>>
boundVars == <<apart, starts, changes, failures, lost>>
vars == <<dbVars, pc, todo, entity, workVars, txVars, boundVars>>

None == 0
Row  == [id : Nat \ {0}, ref : Refs]
Keys(e) == {r \in Refs : EntityOf[r] = e}
NoReport == [done |-> FALSE, rows |-> {}]

TypeOK ==
    /\ source \subseteq Refs
    /\ \A t \in Tables : target[t] \subseteq Row
    /\ nextId \in [Tables -> Nat \ {0}]
    /\ crosswalk \in [Refs -> Nat]
    /\ report \in [Entities -> [done : BOOLEAN, rows : SUBSET Refs]]
    /\ pc \in [Runs -> {"idle", "restore", "backup", "reset", "next", "delete", "unmap", "write",
                        "record", "central"}]
    /\ todo \in [Runs -> SUBSET Entities]
    /\ entity \in [Runs -> Entities]
    /\ \A x \in Runs : ids[x] \subseteq Nat \ {0}
    /\ rows \in [Runs -> SUBSET Refs]
    /\ wrote \in [Runs -> SUBSET Refs]
    /\ cur \in [Runs -> Refs]
    /\ \A x \in Runs : gone[x] \subseteq Row /\ new[x] \subseteq Row
    /\ keys \in [Runs -> SUBSET Refs]
    /\ xw \in [Runs -> [Refs -> Nat]]
    /\ apart \subseteq Tables
    /\ starts \in 0..MaxStarts /\ changes \in 0..MaxChanges
    /\ failures \in 0..MaxFailures /\ lost \in 0..MaxLost

\* Nothing is delivered yet.
Init ==
    /\ source \in SUBSET Refs
    /\ target = [t \in Tables |-> {}]
    /\ nextId = [t \in Tables |-> 1]
    /\ crosswalk = [r \in Refs |-> None]
    /\ report = [e \in Entities |-> NoReport]
    /\ pc = [x \in Runs |-> "idle"]
    /\ todo = [x \in Runs |-> {}]
    /\ entity = [x \in Runs |-> 1]
    /\ ids = [x \in Runs |-> {}]
    /\ rows = [x \in Runs |-> {}]
    /\ wrote = [x \in Runs |-> {}]
    /\ cur = [x \in Runs |-> CHOOSE r \in Refs : TRUE]
    /\ gone = [x \in Runs |-> {}]
    /\ new = [x \in Runs |-> {}]
    /\ keys = [x \in Runs |-> {}]
    /\ xw = [x \in Runs |-> [r \in Refs |-> None]]
    /\ apart = {}
    /\ starts = 0 /\ changes = 0 /\ failures = 0 /\ lost = 0

-----------------------------------------------------------------------------
(* What a run sees and waits for *)

GoTo(x, step) == pc' = [pc EXCEPT ![x] = step]

Tab(x) == TableOf[entity[x]]

\* The rows of its table, in its own target transaction.
Visible(x) == (target[Tab(x)] \ gone[x]) \cup new[x]

\* The crosswalk, in its own central transaction.
Lookup(x, r) == IF r \in keys[x] THEN xw[x][r] ELSE crosswalk[r]

\* Another target transaction has changed a row with one of these ids.
Locked(x, I) ==
    \E y \in Runs \ {x} : Tab(y) = Tab(x) /\ \E row \in gone[y] \cup new[y] : row.id \in I

\* Another central transaction has changed one of these keys.
KeysLocked(x, K) == \E y \in Runs \ {x} : K \cap keys[y] # {}

-----------------------------------------------------------------------------
(* Starting *)

Start(x) ==
    /\ starts < MaxStarts
    /\ starts' = starts + 1
    /\ pc[x] = "idle"

\* ops.refresh: the entities of the tables asked for.
StartRefresh(x, E) ==
    /\ "refresh" \in Kinds
    /\ Start(x)
    /\ E # {}
    /\ todo' = [todo EXCEPT ![x] = E]
    /\ GoTo(x, "next")
    /\ UNCHANGED <<dbVars, entity, workVars, txVars, apart, changes, failures, lost>>

\* run_nightly_refresh: every deployed entity; the restore is opt-in.
StartNightly(x, restore) ==
    /\ "nightly" \in Kinds
    /\ Start(x)
    /\ todo' = [todo EXCEPT ![x] = Entities]
    /\ GoTo(x, IF restore THEN "restore" ELSE "backup")
    /\ UNCHANGED <<dbVars, entity, workVars, txVars, apart, changes, failures, lost>>

\* The worker delivers an event of the source row (deliver_event).
StartDelivery(x, r) ==
    /\ Start(x)
    /\ r \in source
    /\ entity' = [entity EXCEPT ![x] = EntityOf[r]]
    /\ rows' = [rows EXCEPT ![x] = {r}]
    /\ GoTo(x, "write")
    /\ UNCHANGED <<dbVars, todo, ids, wrote, cur, txVars, apart, changes, failures, lost>>

\* A row is added to the source, or removed.
ChangeSource(r) ==
    /\ changes < MaxChanges
    /\ changes' = changes + 1
    /\ source' = (source \ {r}) \cup ({r} \ source)
    /\ UNCHANGED <<target, nextId, crosswalk, report, pc, todo, entity, workVars, txVars,
                   apart, starts, failures, lost>>

-----------------------------------------------------------------------------
(* The nightly steps *)

\* restore_source_dump: the dump's rows replace the source.
Restore(x, S) ==
    /\ pc[x] = "restore"
    /\ source' = S
    /\ GoTo(x, "backup")
    /\ UNCHANGED <<target, nextId, crosswalk, report, todo, entity, workVars, txVars, boundVars>>

\* It fails, and nothing else is done.
RestoreFails(x) ==
    /\ pc[x] = "restore"
    /\ todo' = [todo EXCEPT ![x] = {}]
    /\ GoTo(x, "idle")
    /\ UNCHANGED <<dbVars, entity, workVars, txVars, boundVars>>

\* backup_target: the run goes on whether there is a dump afterwards or not.
Backup(x) ==
    /\ pc[x] = "backup"
    /\ GoTo(x, "reset")
    /\ UNCHANGED <<dbVars, todo, entity, workVars, txVars, boundVars>>

\* Tables of several entities to whose rows the crosswalk leads: after a reset
\* the ids of one entity may be given to rows of another.
Mixed == {t \in Tables :
            /\ \E d, e \in Entities : d # e /\ TableOf[d] = t /\ TableOf[e] = t
            /\ \E r \in Refs : TableOf[EntityOf[r]] = t /\ crosswalk[r] # None}

\* recreate_target_database: the tables are new, their counters too.  The
\* crosswalk is not touched.
Reset(x) ==
    /\ pc[x] = "reset"
    /\ \A y \in Runs \ {x} : gone[y] \cup new[y] = {}
    /\ target' = [t \in Tables |-> {}]
    /\ nextId' = [t \in Tables |-> 1]
    /\ report' = [e \in Entities |-> NoReport]
    /\ apart' = Mixed
    /\ GoTo(x, "next")
    /\ UNCHANGED <<source, crosswalk, todo, entity, workVars, txVars,
                   starts, changes, failures, lost>>

-----------------------------------------------------------------------------
(* redeliver_all: one entity *)

\* The pair of transactions is over, and the run goes on.
Leave(x, E) ==
    /\ gone' = [gone EXCEPT ![x] = {}]
    /\ new' = [new EXCEPT ![x] = {}]
    /\ keys' = [keys EXCEPT ![x] = {}]
    /\ xw' = [xw EXCEPT ![x] = [r \in Refs |-> None]]
    /\ ids' = [ids EXCEPT ![x] = {}]
    /\ rows' = [rows EXCEPT ![x] = {}]
    /\ wrote' = [wrote EXCEPT ![x] = {}]
    /\ todo' = [todo EXCEPT ![x] = E]
    /\ GoTo(x, IF E = {} THEN "idle" ELSE "next")
    /\ UNCHANGED <<entity, cur>>

\* No approved mapping: skipped.
SkipEntity(x) ==
    /\ pc[x] = "next"
    /\ Min(todo[x]) \in Unmapped
    /\ Leave(x, todo[x] \ {Min(todo[x])})
    /\ UNCHANGED <<dbVars, boundVars>>

\* The source rows and the ids the crosswalk lists for the entity are read.
ReadEntity(x) ==
    LET e == Min(todo[x])
    IN  /\ pc[x] = "next"
        /\ e \notin Unmapped
        /\ entity' = [entity EXCEPT ![x] = e]
        /\ rows' = [rows EXCEPT ![x] = source \cap Keys(e)]
        /\ ids' = [ids EXCEPT ![x] = {crosswalk[r] : r \in Keys(e)} \ {None}]
        /\ report' = [report EXCEPT ![e] = NoReport]
        /\ GoTo(x, IF ids'[x] = {} THEN "write" ELSE "delete")
        /\ UNCHANGED <<source, target, nextId, crosswalk, todo, wrote, cur, txVars, boundVars>>

\* Mutation: the table is emptied.
DeleteRows_Truncate(x) ==
    /\ pc[x] = "delete"
    /\ ~Locked(x, ids[x])
    /\ gone' = [gone EXCEPT ![x] = target[Tab(x)]]
    /\ GoTo(x, "unmap")
    /\ UNCHANGED <<dbVars, todo, entity, workVars, new, keys, xw, boundVars>>

\* delete_entity_rows: the rows with those ids.
DeleteRows(x) ==
    /\ pc[x] = "delete"
    /\ ~Locked(x, ids[x])
    /\ gone' = [gone EXCEPT ![x] = {row \in target[Tab(x)] : row.id \in ids[x]}]
    /\ GoTo(x, "unmap")
    /\ UNCHANGED <<dbVars, todo, entity, workVars, new, keys, xw, boundVars>>

\* ... and every crosswalk entry the entity has by now.
DeleteEntries(x) ==
    LET K == {r \in Keys(entity[x]) : crosswalk[r] # None}
    IN  /\ pc[x] = "unmap"
        /\ ~KeysLocked(x, K)
        /\ keys' = [keys EXCEPT ![x] = K]
        /\ GoTo(x, "write")
        /\ UNCHANGED <<dbVars, todo, entity, workVars, gone, new, xw, boundVars>>

\* _crosswalk_lookup and _row_exists.
Exists(x, r) == \E row \in Visible(x) : row.id = Lookup(x, r)

\* write_source_row finds the row again and updates it.
UpdateRow(x, r) ==
    /\ pc[x] = "write"
    /\ r \in rows[x]
    /\ Exists(x, r)
    /\ ~Locked(x, {Lookup(x, r)})
    /\ rows' = [rows EXCEPT ![x] = @ \ {r}]
    /\ wrote' = [wrote EXCEPT ![x] = @ \cup {r}]
    /\ UNCHANGED <<dbVars, pc, todo, entity, ids, cur, txVars, boundVars>>

\* Or it inserts one, with the next key.
InsertRow(x, r) ==
    /\ pc[x] = "write"
    /\ r \in rows[x]
    /\ ~Exists(x, r)
    /\ new' = [new EXCEPT ![x] = @ \cup {[id |-> nextId[Tab(x)], ref |-> r]}]
    /\ nextId' = [nextId EXCEPT ![Tab(x)] = @ + 1]
    /\ rows' = [rows EXCEPT ![x] = @ \ {r}]
    /\ wrote' = [wrote EXCEPT ![x] = @ \cup {r}]
    /\ cur' = [cur EXCEPT ![x] = r]
    /\ GoTo(x, "record")
    /\ UNCHANGED <<source, target, crosswalk, report, todo, entity, ids, gone, keys, xw,
                   boundVars>>

\* _crosswalk_record, an upsert that waits for the key.
RecordRow(x) ==
    /\ pc[x] = "record"
    /\ ~KeysLocked(x, {cur[x]})
    /\ keys' = [keys EXCEPT ![x] = @ \cup {cur[x]}]
    /\ \E row \in new[x] : row.ref = cur[x] /\ xw' = [xw EXCEPT ![x][cur[x]] = row.id]
    /\ GoTo(x, "write")
    /\ UNCHANGED <<dbVars, todo, entity, workVars, gone, new, boundVars>>

\* A source row whose values cannot be built is reported and left out.
RejectRow(x, r) ==
    /\ pc[x] = "write"
    /\ r \in rows[x]
    /\ failures < MaxFailures
    /\ failures' = failures + 1
    /\ rows' = [rows EXCEPT ![x] = @ \ {r}]
    /\ UNCHANGED <<dbVars, pc, todo, entity, ids, wrote, cur, txVars, apart, starts, changes, lost>>

\* tconn.commit(); what a delivery wrote adds to the last report.
CommitTarget(x) ==
    /\ pc[x] = "write"
    /\ rows[x] = {}
    /\ target' = [target EXCEPT ![Tab(x)] = Visible(x)]
    /\ report' = [report EXCEPT ![entity[x]].rows = IF todo[x] = {} THEN @ \cup wrote[x] ELSE @]
    /\ gone' = [gone EXCEPT ![x] = {}]
    /\ new' = [new EXCEPT ![x] = {}]
    /\ GoTo(x, "central")
    /\ UNCHANGED <<source, nextId, crosswalk, todo, entity, workVars, keys, xw, boundVars>>

\* cconn.commit(): the next entity; a delivery has none.
CommitCentral(x) ==
    /\ pc[x] = "central"
    /\ crosswalk' = [r \in Refs |-> Lookup(x, r)]
    /\ report' = [report EXCEPT ![entity[x]] =
                     IF todo[x] = {} THEN @ ELSE [done |-> TRUE, rows |-> wrote[x]]]
    /\ Leave(x, todo[x] \ {entity[x]})
    /\ UNCHANGED <<source, target, nextId, boundVars>>

\* An entity fails: both transactions are rolled back and the next one follows.
FailEntity(x) ==
    /\ failures < MaxFailures
    /\ failures' = failures + 1
    /\ pc[x] \in {"delete", "unmap", "write", "record"}
    /\ Leave(x, todo[x] \ {entity[x]})
    /\ UNCHANGED <<dbVars, apart, starts, changes, lost>>

\* cconn.commit() raises: the target is committed already.
CentralCommitFails(x) ==
    /\ lost < MaxLost
    /\ lost' = lost + 1
    /\ pc[x] = "central"
    /\ apart' = apart \cup {Tab(x)}
    /\ Leave(x, todo[x] \ {entity[x]})
    /\ UNCHANGED <<dbVars, starts, changes, failures>>

\* The process dies, wherever it is.
Crash(x) ==
    /\ lost < MaxLost
    /\ lost' = lost + 1
    /\ pc[x] # "idle"
    /\ apart' = IF pc[x] = "central" THEN apart \cup {Tab(x)} ELSE apart
    /\ Leave(x, {})
    /\ UNCHANGED <<dbVars, starts, changes, failures>>

-----------------------------------------------------------------------------
(* The specification *)

Next ==
    \/ \E x \in Refreshers :
          \/ \E E \in SUBSET Entities : StartRefresh(x, E)
          \/ \E restore \in BOOLEAN : StartNightly(x, restore)
    \/ \E x \in Workers, r \in Refs : StartDelivery(x, r)
    \/ \E x \in Runs :
          \/ \E S \in SUBSET Refs : Restore(x, S)
          \/ RestoreFails(x) \/ Backup(x) \/ Reset(x)
          \/ SkipEntity(x) \/ ReadEntity(x) \/ DeleteRows(x) \/ DeleteEntries(x)
          \/ \E r \in Refs : UpdateRow(x, r) \/ InsertRow(x, r) \/ RejectRow(x, r)
          \/ RecordRow(x) \/ CommitTarget(x) \/ CommitCentral(x)
          \/ FailEntity(x) \/ CentralCommitFails(x) \/ Crash(x)
    \/ \E r \in Refs : ChangeSource(r)

Spec == Init /\ [][Next]_vars

-----------------------------------------------------------------------------
(* Properties *)

Copies(r) == {row \in target[TableOf[EntityOf[r]]] : row.ref = r}

Exact(e) == \A r \in Keys(e) : Cardinality(Copies(r)) = IF r \in report[e].rows THEN 1 ELSE 0

\* What a refresh reports is in the target, once, and nothing else of its
\* entity but what was delivered since; it stays so until the entity is refreshed
\* again or the target reset, whatever other entities are refreshed meanwhile, in
\* the tables the crosswalk has kept track of: no central commit was lost after
\* the target's, or the target was reset since then, and no reset has left the
\* old ids of several entities behind (refresh_entity, delete_entity_rows,
\* redeliver_all, recreate_target_database).
RefreshedExactOnTrack ==
    \A e \in Entities : report[e].done /\ TableOf[e] \notin apart => Exact(e)

\* In such a table a source row has one row at most: re-delivery and refreshes
\* find again what was written before (the crosswalk).
NoDuplicates ==
    \A r \in Refs : TableOf[EntityOf[r]] \notin apart => Cardinality(Copies(r)) =< 1

\* Refreshing is exact where the crosswalk has kept track (refresh_entity,
\* run_nightly_refresh).
ExactOnTrack == RefreshedExactOnTrack /\ NoDuplicates
=============================================================================
