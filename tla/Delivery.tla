------------------------------ MODULE Delivery ------------------------------
(***************************************************************************)
(* The delivery worker: workers claim outbox events in batches, fan each   *)
(* event out over the target tables, and commit two databases that share   *)
(* no transaction.                                                         *)
(*                                                                         *)
(* The central database holds the outbox, the quarantine, the audit trail, *)
(* the id crosswalk and the id sequence; a worker commits it once per      *)
(* batch.  The target database holds the rows and the delivery envelope; a *)
(* worker commits it once per event.  What a worker has written to the     *)
(* central database and not yet committed is in its variables tx*; what it *)
(* has written to the target is in ids and how.                            *)
(*                                                                         *)
(* Tables are numbered in the order registry.topological_order gives them, *)
(* events by created_at, the start of the transaction that inserts them.   *)
(***************************************************************************)
EXTENDS Integers, Sequences, FiniteSets

CONSTANTS
    Workers,        \* processes and threads that run process_once
    Refs,           \* external references: one per source row
    Entities,       \* source entities
    Values,         \* the distinct column values a payload can carry
    NTables,        \* how many target tables one event fans out over
    MaxEvents,      \* bound: events ever put in the outbox
    Backlog,        \* how many of them are waiting when the workers start
    MaxAttempts,    \* MAX_ATTEMPTS
    BatchSize,      \* SYNC_BATCH_SIZE
    MaxCrashes,     \* bound: batches lost to a crash or a central error
    MaxReplays,     \* bound: replays by an operator
    MaxToggles,     \* bound: uses of the kill switch
    MaxAutoId,      \* the last key AUTO_INCREMENT can hand out
    LegacyWriter    \* TRUE: lrmis_writer into MySQL; FALSE: GenericWriter into Postgres

EventIds == 1..MaxEvents
Tables   == 1..NTables

CONSTANTS
    EntityOf,       \* [Refs -> Entities]
    RefOf,          \* [EventIds -> Refs]: the source row an event is about
    PayloadOf,      \* [EventIds -> Values]
    Kind,           \* [Tables -> {"auto", "app", "ref"}]: how a row gets its id
    Parent          \* [Tables -> Nat]: the table its foreign key names, or 0

ASSUME BoundsAssumption ==
    /\ NTables \in Nat \ {0}
    /\ MaxEvents \in Nat
    /\ Backlog \in 0..MaxEvents
    /\ MaxAttempts \in Nat \ {0}
    /\ BatchSize \in Nat \ {0}
    /\ MaxCrashes \in Nat
    /\ MaxReplays \in Nat
    /\ MaxToggles \in Nat
    /\ MaxAutoId \in Nat
    /\ LegacyWriter \in BOOLEAN

ASSUME ShapeAssumption ==
    /\ EntityOf \in [Refs -> Entities]
    /\ RefOf \in [EventIds -> Refs]
    /\ PayloadOf \in [EventIds -> Values]
    /\ Kind \in [Tables -> {"auto", "app", "ref"}]
    /\ Parent \in [Tables -> 0..NTables]
    /\ \A t \in Tables : Parent[t] < t

VARIABLES
    \* committed in the central database
    status, attempts, due, quarantine, audit, enabled, crosswalk, idSeq,
    \* committed in the target database
    target, envelope, nextId,
    \* each worker: control, then its uncommitted central and target writes
    pc, todo, pos, txStatus, txXw, txSeq, ids, how,
    \* history: events that a newer one of their entity may be written before
    overtaken,
    \* how much of each bound is used
    crashes, replays, toggles

centralVars == <<status, attempts, due, quarantine, audit, crosswalk, idSeq>>
targetVars  == <<target, envelope, nextId>>
txVars      == <<txStatus, txXw, txSeq>>
writeVars   == <<pos, ids, how>>
boundVars   == <<overtaken, crashes, replays, toggles>>
vars == <<centralVars, enabled, targetVars, pc, todo, writeVars, txVars, boundVars>>

-----------------------------------------------------------------------------
(* The state *)

Claimable == {"pending", "retry"}
Terminal  == {"delivered", "quarantined", "dead_letter"}
Status    == {"absent"} \cup Claimable \cup Terminal
TxStatus  == {"none", "processing", "retry"} \cup Terminal
Outcome   == {"accepted", "transport_error"}

\* A target row: its key, the source row that created it, the event whose
\* values it carries and the parent row its foreign key names (0: none).
Row == [id : Nat, ref : Refs, ev : EventIds, fk : Nat]

TypeOK ==
    /\ status \in [EventIds -> Status]
    /\ attempts \in [EventIds -> 0..MaxAttempts]
    /\ due \in [EventIds -> BOOLEAN]
    /\ quarantine \subseteq EventIds
    /\ audit \in [EventIds -> Seq(Outcome)]
    /\ enabled \in [Entities -> BOOLEAN]
    /\ crosswalk \in [Refs -> [Tables -> Nat]]
    /\ idSeq \in [Tables -> Nat]
    /\ target \in [Tables -> SUBSET Row]
    /\ envelope \subseteq EventIds
    /\ nextId \in [Tables -> Nat]
    /\ pc \in [Workers -> {"idle", "write", "record"}]
    /\ todo \in [Workers -> SUBSET EventIds]
    /\ pos \in [Workers -> 1..(NTables + 1)]
    /\ txStatus \in [Workers -> [EventIds -> TxStatus]]
    /\ txXw \in [Workers -> [Refs -> [Tables -> Nat]]]
    /\ txSeq \in [Workers -> [Tables -> Nat]]
    /\ ids \in [Workers -> [Tables -> Nat]]
    /\ how \in [Workers -> [Tables -> {"none", "insert", "update", "ghost", "match"}]]
    /\ overtaken \subseteq EventIds
    /\ crashes \in 0..MaxCrashes
    /\ replays \in 0..MaxReplays
    /\ toggles \in 0..MaxToggles

NoStatus == [e \in EventIds |-> "none"]
NoXw     == [r \in Refs |-> [t \in Tables |-> 0]]
NoIds    == [t \in Tables |-> 0]
NoWrites == [t \in Tables |-> "none"]

Init ==
    /\ status = [e \in EventIds |-> IF e =< Backlog THEN "pending" ELSE "absent"]
    /\ attempts = [e \in EventIds |-> 0]
    /\ due = [e \in EventIds |-> TRUE]
    /\ quarantine = {}
    /\ audit = [e \in EventIds |-> <<>>]
    /\ enabled = [n \in Entities |-> TRUE]
    /\ crosswalk = NoXw
    /\ idSeq = NoIds
    /\ target = [t \in Tables |-> {}]
    /\ envelope = {}
    /\ nextId = NoIds
    /\ pc = [w \in Workers |-> "idle"]
    /\ todo = [w \in Workers |-> {}]
    /\ pos = [w \in Workers |-> 1]
    /\ txStatus = [w \in Workers |-> NoStatus]
    /\ txXw = [w \in Workers |-> NoXw]
    /\ txSeq = [w \in Workers |-> NoIds]
    /\ ids = [w \in Workers |-> NoIds]
    /\ how = [w \in Workers |-> NoWrites]
    /\ overtaken = {}
    /\ crashes = 0 /\ replays = 0 /\ toggles = 0

-----------------------------------------------------------------------------
(* The rest of the system, as the outbox sees it *)

\* The transaction of a source change, or of a backfill, commits its event; one
\* that started later may have committed before it.
Enqueue(e) ==
    /\ status[e] = "absent"
    /\ status' = [status EXCEPT ![e] = "pending"]
    /\ UNCHANGED <<attempts, due, quarantine, audit, crosswalk, idSeq, enabled,
                   targetVars, pc, todo, writeVars, txVars, boundVars>>

\* The back-off of a retry runs out.
BecomeDue(e) ==
    /\ status[e] = "retry"
    /\ ~due[e]
    /\ due' = [due EXCEPT ![e] = TRUE]
    /\ UNCHANGED <<status, attempts, quarantine, audit, crosswalk, idSeq, enabled,
                   targetVars, pc, todo, writeVars, txVars, boundVars>>

\* The kill switch of an entity.
SetEntityEnabled(n) ==
    /\ toggles < MaxToggles
    /\ enabled' = [enabled EXCEPT ![n] = ~enabled[n]]
    /\ toggles' = toggles + 1
    /\ UNCHANGED <<centralVars, targetVars, pc, todo, writeVars, txVars,
                   overtaken, crashes, replays>>

\* Mutation: rows are selected without FOR UPDATE SKIP LOCKED.
Unlocked_Never(e) == e \in EventIds

Unlocked(e) == \A x \in Workers : txStatus[x][e] = "none"

\* Mutation: the quarantine row of a replayed event is left behind.
Replay_KeepsQuarantineRow(e) ==
    /\ replays < MaxReplays
    /\ status[e] \in Terminal
    /\ Unlocked(e)
    /\ status' = [status EXCEPT ![e] = "pending"]
    /\ attempts' = [attempts EXCEPT ![e] = 0]
    /\ due' = [due EXCEPT ![e] = TRUE]
    /\ replays' = replays + 1
    /\ overtaken' = overtaken \cup {e}
    /\ UNCHANGED <<quarantine, audit, crosswalk, idSeq, enabled, targetVars, pc, todo,
                   writeVars, txVars, crashes, toggles>>

\* An operator replays an event; the UPDATE waits for the row's lock.
Replay(e) ==
    /\ replays < MaxReplays
    /\ status[e] \in Terminal
    /\ Unlocked(e)
    /\ status' = [status EXCEPT ![e] = "pending"]
    /\ attempts' = [attempts EXCEPT ![e] = 0]
    /\ due' = [due EXCEPT ![e] = TRUE]
    /\ quarantine' = quarantine \ {e}
    /\ replays' = replays + 1
    /\ overtaken' = overtaken \cup {e}
    /\ UNCHANGED <<audit, crosswalk, idSeq, enabled, targetVars, pc, todo,
                   writeVars, txVars, crashes, toggles>>

-----------------------------------------------------------------------------
(* One pass of the worker: claim a batch *)

\* Mutation: events in retry are not selected.
Ready_PendingOnly == {e \in EventIds :
            /\ status[e] = "pending"
            /\ due[e]
            /\ enabled[EntityOf[RefOf[e]]]
            /\ Unlocked(e)}

Ready == {e \in EventIds :
            /\ status[e] \in Claimable
            /\ due[e]
            /\ enabled[EntityOf[RefOf[e]]]
            /\ Unlocked(e)}

\* ORDER BY created_at LIMIT BatchSize: the earliest events of a set.
IsFirstBatch(B, C) ==
    /\ B \subseteq C
    /\ \A e \in B, f \in C \ B : e < f
    /\ \/ B = C /\ Cardinality(C) =< BatchSize
       \/ Cardinality(B) = BatchSize

\* Event f is about the same entity as e and was created later.
Newer(f, e) == e < f /\ EntityOf[RefOf[e]] = EntityOf[RefOf[f]]

\* Events that are not visible yet, wait for their back-off or are in another
\* worker's hands while a newer one is claimed.
OvertakenBy(B) ==
    {e \in EventIds \ Ready : status[e] \notin Terminal /\ \E f \in B : Newer(f, e)}

Claim(w, B) ==
    /\ pc[w] = "idle"
    /\ B # {}
    /\ IsFirstBatch(B, Ready)
    /\ pc' = [pc EXCEPT ![w] = "write"]
    /\ todo' = [todo EXCEPT ![w] = B]
    /\ txStatus' = [txStatus EXCEPT
                      ![w] = [e \in EventIds |-> IF e \in B THEN "processing" ELSE "none"]]
    /\ overtaken' = overtaken \cup OvertakenBy(B)
    /\ UNCHANGED <<centralVars, enabled, targetVars, writeVars, txXw, txSeq,
                   crashes, replays, toggles>>

\* A pass that finds nothing to do.
EmptyPass(w) ==
    /\ pc[w] = "idle"
    /\ Ready = {}
    /\ UNCHANGED vars

\* Mutation: the batch is taken from its end.
IsCurrent_Newest(w, e) ==
    /\ e \in todo[w]
    /\ \A f \in todo[w] : f =< e

\* The event the worker is on: events are taken in the order they were claimed.
IsCurrent(w, e) ==
    /\ e \in todo[w]
    /\ \A f \in todo[w] : e =< f

\* The event is finished with outcome s; its target transaction has ended.
FinishEvent(w, e, s) ==
    /\ txStatus' = [txStatus EXCEPT ![w][e] = s]
    /\ todo' = [todo EXCEPT ![w] = @ \ {e}]
    /\ pc' = [pc EXCEPT ![w] = "write"]
    /\ pos' = [pos EXCEPT ![w] = 1]
    /\ ids' = [ids EXCEPT ![w] = NoIds]
    /\ how' = [how EXCEPT ![w] = NoWrites]

\* No approved mapping, a transform that fails, or no value to write: the
\* event is quarantined before anything is written for it.
Quarantine(w, e) ==
    /\ pc[w] = "write"
    /\ pos[w] = 1
    /\ IsCurrent(w, e)
    /\ FinishEvent(w, e, "quarantined")
    /\ UNCHANGED <<centralVars, enabled, targetVars, txXw, txSeq, boundVars>>

-----------------------------------------------------------------------------
(* Writing one event: table after table, parents first *)

\* The target id the crosswalk gives, as the worker's transaction sees it.
CrosswalkLookup(w, r, t) ==
    IF txXw[w][r][t] # 0 THEN txXw[w][r][t] ELSE crosswalk[r][t]

RowExists(t, id) == \E row \in target[t] : row.id = id

\* Mutation: what earlier batches recorded is not found.
TakesFastPath_OwnBatchOnly(w, r, t) ==
    /\ txXw[w][r][t] # 0
    /\ RowExists(t, CrosswalkLookup(w, r, t))

\* Mutation: the crosswalk is trusted without looking for the row.
TakesFastPath_Trusting(w, r, t) == CrosswalkLookup(w, r, t) # 0

\* The row the fast path updates: the legacy writer asks that it still exists,
\* GenericWriter does not.
TakesFastPath(w, r, t) ==
    /\ CrosswalkLookup(w, r, t) # 0
    /\ LegacyWriter => RowExists(t, CrosswalkLookup(w, r, t))

\* Another worker's open target transaction holds the row.
RowLocked(w, t, id) ==
    \E x \in Workers \ {w} : how[x][t] \in {"insert", "update"} /\ ids[x][t] = id

\* The foreign key filled from the parent written earlier in this fan-out.
ParentId(w, t) == IF Parent[t] = 0 THEN 0 ELSE ids[w][Parent[t]]

\* A dead id taken from the crosswalk fails the foreign-key constraint.
ParentMissing(w, t) == Parent[t] # 0 /\ how[w][Parent[t]] = "ghost"

\* Mutation: the id is read and written back without holding the row.
SeqLocked_Never(w, t) == w \notin Workers /\ t \notin Tables

SeqLocked(w, t) == \E x \in Workers \ {w} : txSeq[x][t] # 0

\* The id allocate_id would hand out.
NextAppId(w, t) == 1 + (IF txSeq[w][t] # 0 THEN txSeq[w][t] ELSE idSeq[t])

\* Rows resolve_reference_id finds by the supplied values.
Matches(w, e, t) ==
    {row \in target[t] : /\ PayloadOf[row.ev] = PayloadOf[e]
                         /\ row.fk = ParentId(w, t)}

AtTable(w, e, kinds) ==
    /\ pc[w] = "write"
    /\ IsCurrent(w, e)
    /\ pos[w] \in Tables
    /\ Kind[pos[w]] \in kinds

\* The write of the table at pos[w] took row id; k is how it got it.
Wrote(w, id, k) ==
    /\ ids' = [ids EXCEPT ![w][pos[w]] = id]
    /\ how' = [how EXCEPT ![w][pos[w]] = k]

\* The crosswalk names a row: update it, without looking whether there is one
\* when the writer is GenericWriter.
UpdateRow(w, e) ==
    LET t  == pos[w]
        id == CrosswalkLookup(w, RefOf[e], t)
    IN  /\ AtTable(w, e, {"auto", "app"})
        /\ TakesFastPath(w, RefOf[e], t)
        /\ ~RowLocked(w, t, id)
        /\ RowExists(t, id) => ~ParentMissing(w, t)
        /\ Wrote(w, id, IF RowExists(t, id) THEN "update" ELSE "ghost")
        /\ pos' = [pos EXCEPT ![w] = t + 1]
        /\ UNCHANGED <<centralVars, enabled, targetVars, pc, todo, txVars, boundVars>>

\* AUTO_INCREMENT: the key is drawn for good, whatever becomes of the row.
InsertAuto(w, e) ==
    LET t == pos[w]
    IN  /\ AtTable(w, e, {"auto"})
        /\ ~TakesFastPath(w, RefOf[e], t)
        /\ ~ParentMissing(w, t)
        /\ nextId[t] < MaxAutoId
        /\ nextId' = [nextId EXCEPT ![t] = @ + 1]
        /\ Wrote(w, nextId[t] + 1, "insert")
        /\ pc' = [pc EXCEPT ![w] = "record"]
        /\ UNCHANGED <<centralVars, enabled, target, envelope, todo, pos, txVars, boundVars>>

\* An app-assigned table joins an existing row that carries the same values.
MatchRow(w, e, row) ==
    /\ AtTable(w, e, {"app"})
    /\ ~TakesFastPath(w, RefOf[e], pos[w])
    /\ row \in Matches(w, e, pos[w])
    /\ Wrote(w, row.id, "match")
    /\ pc' = [pc EXCEPT ![w] = "record"]
    /\ UNCHANGED <<centralVars, enabled, targetVars, todo, pos, txVars, boundVars>>

\* Otherwise it allocates an id, which locks the sequence row for the batch.
InsertApp(w, e) ==
    LET t == pos[w]
    IN  /\ AtTable(w, e, {"app"})
        /\ ~TakesFastPath(w, RefOf[e], t)
        /\ Matches(w, e, t) = {}
        /\ ~SeqLocked(w, t)
        /\ ~ParentMissing(w, t)
        /\ ~RowExists(t, NextAppId(w, t))
        /\ txSeq' = [txSeq EXCEPT ![w][t] = NextAppId(w, t)]
        /\ Wrote(w, NextAppId(w, t), "insert")
        /\ pc' = [pc EXCEPT ![w] = "record"]
        /\ UNCHANGED <<centralVars, enabled, targetVars, todo, pos, txStatus, txXw, boundVars>>

\* A reference table resolves to a seeded row (not finding one is FailEvent).
ResolveReference(w, e) ==
    /\ AtTable(w, e, {"ref"})
    /\ Wrote(w, 1, "match")
    /\ pos' = [pos EXCEPT ![w] = @ + 1]
    /\ UNCHANGED <<centralVars, enabled, targetVars, pc, todo, txVars, boundVars>>

\* Another worker's open batch holds this crosswalk key.
KeyLocked(w, r, t) == \E x \in Workers \ {w} : txXw[x][r][t] # 0

\* _crosswalk_record: the upsert waits for the key's lock, then wins.
RecordCrosswalk(w, e) ==
    /\ pc[w] = "record"
    /\ IsCurrent(w, e)
    /\ pos[w] \in Tables
    /\ ~KeyLocked(w, RefOf[e], pos[w])
    /\ txXw' = [txXw EXCEPT ![w][RefOf[e]][pos[w]] = ids[w][pos[w]]]
    /\ pc' = [pc EXCEPT ![w] = "write"]
    /\ pos' = [pos EXCEPT ![w] = @ + 1]
    /\ UNCHANGED <<centralVars, enabled, targetVars, todo, txStatus, txSeq, ids, how, boundVars>>

-----------------------------------------------------------------------------
(* The end of one event *)

\* The rows of table t once worker w commits what it wrote for event e.
Written(w, e, t) ==
    LET id == ids[w][t] IN
    CASE how[w][t] = "insert" ->
           target[t] \cup {[id |-> id, ref |-> RefOf[e], ev |-> e, fk |-> ParentId(w, t)]}
      [] how[w][t] = "update" ->
           {IF row.id = id THEN [row EXCEPT !.ev = e, !.fk = ParentId(w, t)] ELSE row :
               row \in target[t]}
      [] OTHER -> target[t]

\* retry_or_dead_letter
RetryOrDeadLetter(e) ==
    IF attempts[e] + 1 >= MaxAttempts THEN "dead_letter" ELSE "retry"

\* Mutation: the target is committed where it should be rolled back.
Fail_Commits(w, e) ==
    /\ pc[w] = "write"
    /\ IsCurrent(w, e)
    /\ FinishEvent(w, e, RetryOrDeadLetter(e))
    /\ target' = [t \in Tables |-> Written(w, e, t)]
    /\ UNCHANGED <<centralVars, enabled, envelope, nextId, txXw, boundVars>>

\* The event raises: its target transaction is rolled back.  Crosswalk rows
\* and allocated ids are in the central transaction and stay.  The rest of the
\* batch goes on, and overtakes it.
Fail(w, e) ==
    /\ pc[w] = "write"
    /\ IsCurrent(w, e)
    /\ FinishEvent(w, e, RetryOrDeadLetter(e))
    /\ overtaken' = IF \E f \in todo[w] : Newer(f, e) THEN overtaken \cup {e} ELSE overtaken
    /\ UNCHANGED <<centralVars, enabled, targetVars, txXw, crashes, replays, toggles>>

\* A transport or target error at any point of the fan-out.
FailEvent(w, e) == Fail(w, e) /\ UNCHANGED txSeq

\* MySQL's wait for a target row lock times out; Postgres's does not by default.
LockTimeout(w, e) ==
    /\ LegacyWriter
    /\ pos[w] \in Tables
    /\ TakesFastPath(w, RefOf[e], pos[w])
    /\ RowLocked(w, pos[w], CrosswalkLookup(w, RefOf[e], pos[w]))
    /\ Fail(w, e)
    /\ UNCHANGED txSeq

\* The write fails the foreign key: the parent id is dead.
ForeignKeyError(w, e) ==
    /\ AtTable(w, e, {"auto", "app"})
    /\ ParentMissing(w, pos[w])
    /\ LET id == CrosswalkLookup(w, RefOf[e], pos[w])
       IN  TakesFastPath(w, RefOf[e], pos[w]) => RowExists(pos[w], id)
    /\ Fail(w, e)
    /\ UNCHANGED txSeq

\* The table has run out of generated keys.
KeysExhausted(w, e) ==
    /\ AtTable(w, e, {"auto"})
    /\ ~TakesFastPath(w, RefOf[e], pos[w])
    /\ nextId[pos[w]] >= MaxAutoId
    /\ Fail(w, e)
    /\ UNCHANGED txSeq

\* The allocated id is taken: the sequence was rolled back with a batch whose
\* rows had been committed.
DuplicateKey(w, e) ==
    LET t == pos[w]
    IN  /\ AtTable(w, e, {"app"})
        /\ ~TakesFastPath(w, RefOf[e], t)
        /\ Matches(w, e, t) = {}
        /\ ~SeqLocked(w, t)
        /\ RowExists(t, NextAppId(w, t))
        /\ txSeq' = [txSeq EXCEPT ![w][t] = NextAppId(w, t)]
        /\ Fail(w, e)

\* Mutation: the event is marked without committing the target.
CommitEvent_MarkOnly(w, e) ==
    /\ pc[w] = "write"
    /\ pos[w] = NTables + 1
    /\ IsCurrent(w, e)
    /\ FinishEvent(w, e, "delivered")
    /\ UNCHANGED <<centralVars, enabled, targetVars, txXw, txSeq, boundVars>>

\* The envelope is written, the target committed, and only then is the event
\* marked delivered in the open central transaction.
CommitEvent(w, e) ==
    /\ pc[w] = "write"
    /\ pos[w] = NTables + 1
    /\ IsCurrent(w, e)
    /\ target' = [t \in Tables |-> Written(w, e, t)]
    /\ envelope' = envelope \cup {e}
    /\ FinishEvent(w, e, "delivered")
    /\ UNCHANGED <<centralVars, enabled, nextId, txXw, txSeq, boundVars>>

-----------------------------------------------------------------------------
(* The end of a batch *)

\* The worker's connections are back in their pools.
Release(w) ==
    /\ pc' = [pc EXCEPT ![w] = "idle"]
    /\ todo' = [todo EXCEPT ![w] = {}]
    /\ pos' = [pos EXCEPT ![w] = 1]
    /\ ids' = [ids EXCEPT ![w] = NoIds]
    /\ how' = [how EXCEPT ![w] = NoWrites]
    /\ txStatus' = [txStatus EXCEPT ![w] = NoStatus]
    /\ txXw' = [txXw EXCEPT ![w] = NoXw]
    /\ txSeq' = [txSeq EXCEPT ![w] = NoIds]

\* The audit row an outcome adds.
AuditEntry(s) ==
    CASE s = "delivered" -> <<"accepted">>
      [] s \in {"retry", "dead_letter"} -> <<"transport_error">>
      [] OTHER -> <<>>

\* conn.commit(): everything the batch did to the central database at once.
CommitBatch(w) ==
    LET tx == txStatus[w]
    IN  /\ pc[w] = "write"
        /\ todo[w] = {}
        /\ status' = [e \in EventIds |-> IF tx[e] = "none" THEN status[e] ELSE tx[e]]
        /\ attempts' = [e \in EventIds |->
              IF tx[e] \in {"delivered", "retry", "dead_letter"}
              THEN attempts[e] + 1 ELSE attempts[e]]
        /\ due' = [e \in EventIds |-> due[e] /\ tx[e] \notin {"retry", "dead_letter"}]
        /\ quarantine' = quarantine \cup {e \in EventIds : tx[e] = "quarantined"}
        /\ audit' = [e \in EventIds |-> audit[e] \o AuditEntry(tx[e])]
        /\ crosswalk' = [r \in Refs |-> [t \in Tables |-> CrosswalkLookup(w, r, t)]]
        /\ idSeq' = [t \in Tables |-> IF txSeq[w][t] # 0 THEN txSeq[w][t] ELSE idSeq[t]]
        /\ Release(w)
        /\ UNCHANGED <<enabled, targetVars, boundVars>>

\* The batch is lost: both open transactions are rolled back, the target rows
\* of the events already committed stay, and will be written again.
LoseBatch(w) ==
    /\ pc[w] # "idle"
    /\ overtaken' = overtaken \cup {e \in EventIds : txStatus[w][e] \in Terminal}
    /\ Release(w)
    /\ UNCHANGED <<centralVars, enabled, targetVars, replays, toggles>>

\* The process dies, or an error of the central database ends the pass.
Crash(w) ==
    /\ crashes < MaxCrashes
    /\ crashes' = crashes + 1
    /\ LoseBatch(w)

\* Worker w waits for a lock of the central database that x holds.
WaitsFor(w, x) ==
    \E e \in todo[w] :
        /\ IsCurrent(w, e)
        /\ pos[w] \in Tables
        /\ \/ pc[w] = "record" /\ txXw[x][RefOf[e]][pos[w]] # 0
           \/ /\ AtTable(w, e, {"app"})
              /\ ~TakesFastPath(w, RefOf[e], pos[w])
              /\ Matches(w, e, pos[w]) = {}
              /\ txSeq[x][pos[w]] # 0

\* Mutation: the error is swallowed and the statement tried again.
DeadlockVictim_TriesAgain(w) == pc[w] = "record" /\ UNCHANGED vars

\* The central database breaks a cycle of waits by failing one statement; the
\* transaction it leaves aborted fails the pass.
DeadlockVictim(w) ==
    /\ \E S \in SUBSET Workers :
          /\ w \in S
          /\ \A s \in S : /\ \E x \in S \ {s} : WaitsFor(s, x)
                          /\ \E x \in S \ {s} : WaitsFor(x, s)
    /\ LoseBatch(w)
    /\ UNCHANGED crashes

-----------------------------------------------------------------------------
(* The specification *)

\* Steps the worker's loop is sure to take when it can.
Work(w) ==
    \/ \E B \in SUBSET EventIds : Claim(w, B)
    \/ \E e \in EventIds :
          \/ UpdateRow(w, e)
          \/ InsertAuto(w, e)
          \/ \E row \in UNION {target[t] : t \in Tables} : MatchRow(w, e, row)
          \/ InsertApp(w, e)
          \/ ResolveReference(w, e)
          \/ RecordCrosswalk(w, e)
          \/ CommitEvent(w, e)
          \/ LockTimeout(w, e)
          \/ ForeignKeyError(w, e)
          \/ KeysExhausted(w, e)
          \/ DuplicateKey(w, e)
    \/ CommitBatch(w)
    \/ DeadlockVictim(w)

\* Steps that may happen at any time or never.
Environment ==
    \/ \E e \in EventIds : Enqueue(e) \/ Replay(e)
    \/ \E n \in Entities : SetEntityEnabled(n)
    \/ \E w \in Workers :
          \/ EmptyPass(w)
          \/ Crash(w)
          \/ \E e \in EventIds : Quarantine(w, e) \/ FailEvent(w, e)

Next ==
    \/ \E w \in Workers : Work(w)
    \/ \E e \in EventIds : BecomeDue(e)
    \/ Environment

Spec == Init /\ [][Next]_vars

Fairness ==
    /\ \A w \in Workers : WF_vars(Work(w))
    /\ \A e \in EventIds : WF_vars(BecomeDue(e))

FairSpec == Spec /\ Fairness

-----------------------------------------------------------------------------
(* Properties *)

\* SKIP LOCKED gives an event to one worker at a time, and what a worker still
\* has to do is what it holds and has not settled (claim_events, process_once).
LockExclusion ==
    /\ \A w, x \in Workers : \A e \in EventIds :
          w # x /\ txStatus[w][e] # "none" => txStatus[x][e] = "none"
    /\ \A w \in Workers : todo[w] = {e \in EventIds : txStatus[w][e] = "processing"}

\* The quarantine table lists exactly the quarantined events, whatever replays,
\* crashes and other workers do in between (quarantine, replay).
QuarantineMatches == quarantine = {e \in EventIds : status[e] = "quarantined"}

\* An event is tried MaxAttempts times and no more: a retry has attempts left, a
\* dead letter has none, and only a replay starts the count again
\* (retry_or_dead_letter, mark_event_delivered, replay).
AttemptsBounded ==
    \A e \in EventIds :
        /\ status[e] \in {"absent", "pending"} => attempts[e] = 0
        /\ status[e] = "retry" => attempts[e] \in 1..(MaxAttempts - 1)
        /\ status[e] = "dead_letter" => attempts[e] = MaxAttempts
        /\ status[e] = "delivered" => attempts[e] \in 1..MaxAttempts
        /\ status[e] = "quarantined" => attempts[e] < MaxAttempts

\* The audit trail explains the attempts counter: the last attempts[e] entries
\* are failures, but for a final acceptance exactly when the event is delivered
\* (mark_event_delivered, retry_or_dead_letter).
AuditExplainsAttempts ==
    \A e \in EventIds :
        LET n == Len(audit[e])
        IN  /\ attempts[e] =< n
            /\ \A i \in (n - attempts[e] + 1)..n :
                  audit[e][i] = "accepted" <=> i = n /\ status[e] = "delivered"

\* What an operator sees in the outbox, the quarantine and the audit trail agrees,
\* after any mix of retries, replays, crashes and lost batches (integration_store).
OutboxRows == QuarantineMatches /\ AttemptsBounded /\ AuditExplainsAttempts

\* The commit order keeps the promise of a delivery: an event that is delivered,
\* or that an open batch will mark delivered, has its envelope committed in the
\* target; a crash can only lose the mark (_deliver_path_b).
DeliveredHasEnvelope ==
    \A e \in EventIds :
        status[e] = "delivered" \/ (\E w \in Workers : txStatus[w][e] = "delivered")
            => e \in envelope

HasRow(r, t) == \E row \in target[t] : row.ref = r

\* A delivered event has its row in every table that generates its keys, with
\* any number of workers and whatever crashed before (write_source_row).
DeliveredNotLost ==
    \A e \in EventIds : status[e] = "delivered" =>
        \A t \in Tables : Kind[t] = "auto" => HasRow(RefOf[e], t)

\* A partial fan-out never persists: a source row has a row in all the tables
\* that generate their keys or in none (_deliver_path_b).
FanOutWhole ==
    \A r \in Refs : \A s, t \in Tables :
        Kind[s] = "auto" /\ Kind[t] = "auto" /\ HasRow(r, s) => HasRow(r, t)

\* Two open batches never hold the same allocated id (allocate_id).
AllocatedIdsDistinct ==
    \A w, x \in Workers : \A t \in Tables :
        w # x /\ Kind[t] = "app" /\ how[w][t] = "insert" /\ how[x][t] = "insert"
            => ids[w][t] # ids[x][t]

\* What open batches have taken of the central database is their own: an event,
\* and an id of a table whose ids are allocated (claim_events, allocate_id).
BatchesApart == LockExclusion /\ AllocatedIdsDistinct

\* Re-delivering an event updates the same rows instead of duplicating them, as
\* long as no batch was lost and one worker delivers (the crosswalk keyed by
\* external reference and table).
NoDuplicateRows ==
    crashes = 0 /\ Cardinality(Workers) = 1 =>
        \A t \in Tables : Kind[t] = "auto" =>
            \A a, b \in target[t] : a.ref = b.ref => a = b

\* The crosswalk of a delivered event leads to a row its own source row made:
\* the next event finds it again (_crosswalk_lookup, _row_exists).
CrosswalkLeadsToRow ==
    \A e \in EventIds : status[e] = "delivered" =>
        \A t \in Tables : Kind[t] = "auto" =>
            \E row \in target[t] : row.id = crosswalk[RefOf[e]][t] /\ row.ref = RefOf[e]

\* A later event of a source row works on the rows of the earlier ones
\* (write_source_row: crosswalk first, insert otherwise).
RowsFoundAgain == NoDuplicateRows /\ CrosswalkLeadsToRow

\* What an event wrote is overwritten by an older one of its entity only if the older
\* had been overtaken: it became visible, or got out of its back-off or of another
\* worker's hands, after the newer had been claimed; it failed in a batch with the
\* newer; or it was settled before and came back, by a replay or with a lost batch.
\* Nothing compares the times of the two; only the order in which events are claimed
\* and taken keeps all others from going back (claim_events, process_once, _update).
OnlyOvertakenGoBack ==
    [][\A t \in Tables : \A a \in target[t] \ target'[t] : \A b \in target'[t] :
          a.id = b.id /\ Newer(a.ev, b.ev) => b.ev \in overtaken]_vars

\* Every event waiting for delivery is settled, unless its entity is switched
\* off: retries run out, lock waits and deadlocks end (run_loop, claim_events).
EventuallySettled ==
    \A e \in EventIds :
        status[e] \in Claimable ~> (status[e] \in Terminal \/ ~enabled[EntityOf[RefOf[e]]])

\* No worker waits for ever inside a batch.
BatchEnds == \A w \in Workers : pc[w] # "idle" ~> pc[w] = "idle"

-----------------------------------------------------------------------------
(* What the worker implements *)

OutboxView == INSTANCE Outbox
    WITH EventIds <- EventIds, MaxAttempts <- MaxAttempts, status <- status,
         attempts <- attempts, quarantine <- quarantine, audit <- audit

\* Seen through the committed rows alone, with any number of workers, the
\* worker is the outbox: events are settled from a waiting state, once, with one
\* audit row and one attempt each (claim_events, process_once, replay).
ImplementsOutbox == OutboxView!Spec
=============================================================================
