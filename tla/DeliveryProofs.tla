--------------------------- MODULE DeliveryProofs ---------------------------
(***************************************************************************)
(* Proofs about Delivery, for every number of workers, events, tables,     *)
(* crashes and replays.                                                    *)
(*                                                                         *)
(* What the committed rows say about an event is inductive only together   *)
(* with what open batches hold: an event in an open batch is still waiting *)
(* in the committed rows, with an attempt left for the outcome the batch   *)
(* has given it (TxClaimed).                                               *)
(*                                                                         *)
(* The rows the worker leaves in the target, for the writer that looks     *)
(* whether the row of a crosswalk entry still exists: a generated key is   *)
(* drawn once, so whoever names it, a row, a crosswalk entry or an open    *)
(* write, names a row of one source row (KeysInv), and what an event       *)
(* updates is a row its own source row made (WriteInv).  That a later      *)
(* event finds the rows of the earlier ones needs that one worker delivers *)
(* (FoundInv).                                                             *)
(*                                                                         *)
(* That an event is not written over a newer one of its entity rests on    *)
(* what is older than a row, or than what a batch still has to do: it is   *)
(* settled, or in the same batch, or was overtaken (OrderInv).             *)
(***************************************************************************)
EXTENDS Delivery, SequenceTheorems, TLAPS

\* An open batch holds only events that wait, and its failures were judged
\* against the attempts counter that is still the committed one.
TxClaimed ==
    \A w \in Workers : \A e \in EventIds :
        txStatus[w][e] # "none" =>
            /\ status[e] \in Claimable
            /\ txStatus[w][e] = "retry" => attempts[e] + 1 < MaxAttempts
            /\ txStatus[w][e] = "dead_letter" => attempts[e] + 1 = MaxAttempts

\* The life of an event, in the committed rows and in the open batches.
OutboxInv ==
    /\ LockExclusion
    /\ QuarantineMatches
    /\ AttemptsBounded
    /\ AuditExplainsAttempts
    /\ DeliveredHasEnvelope
    /\ TxClaimed

\* The row lock of an id sequence: one open batch has drawn from it, and only that
\* batch inserts rows with ids of its table.
SequenceInv ==
    /\ \A t \in Tables : \A w, x \in Workers :
          txSeq[w][t] # 0 /\ txSeq[x][t] # 0 => w = x
    /\ \A w \in Workers : \A t \in Tables :
          Kind[t] = "app" /\ how[w][t] = "insert" => txSeq[w][t] # 0

IInv == TypeOK /\ OutboxInv /\ SequenceInv

USE DEF centralVars, targetVars, txVars, writeVars, boundVars

-----------------------------------------------------------------------------
(* Types *)

\* The first outbox and the empty target and crosswalk have their types.
LEMMA TypeInit == Init => TypeOK
  <1> SUFFICES ASSUME Init PROVE TypeOK
        OBVIOUS
  <1>1. status \in [EventIds -> Status]
        BY DEF Init, Status, Claimable
  <1> QED
        BY <1>1, BoundsAssumption, ShapeAssumption
        DEF Init, TypeOK, NoStatus, NoXw, NoIds, NoWrites, TxStatus, Tables

\* Enqueueing and replaying an event keep the types.
LEMMA TypeEnqueueReplay ==
  ASSUME TypeOK, NEW e \in EventIds, Enqueue(e) \/ Replay(e)
  PROVE  TypeOK'
  <1>1. CASE Enqueue(e)
        BY <1>1 DEF TypeOK, Enqueue, Status, Claimable
  <1>2. CASE Replay(e)
        BY <1>2, BoundsAssumption DEF TypeOK, Replay, Status, Claimable
  <1> QED  BY <1>1, <1>2

\* The end of an event resets the worker's target transaction.
LEMMA TypeFinish ==
  ASSUME TypeOK, NEW w \in Workers, NEW e \in EventIds,
         NEW s \in TxStatus, FinishEvent(w, e, s)
  PROVE  /\ txStatus' \in [Workers -> [EventIds -> TxStatus]]
         /\ todo' \in [Workers -> SUBSET EventIds]
         /\ pc' \in [Workers -> {"idle", "write", "record"}]
         /\ pos' \in [Workers -> 1..(NTables + 1)]
         /\ ids' \in [Workers -> [Tables -> Nat]]
         /\ how' \in [Workers -> [Tables -> {"none", "insert", "update", "ghost", "match"}]]
  BY BoundsAssumption DEF TypeOK, FinishEvent, NoIds, NoWrites

\* A batch that is lost leaves a worker in its initial, well-typed state.
LEMMA TypeRelease ==
  ASSUME TypeOK, NEW w \in Workers, Release(w)
  PROVE  /\ txStatus' \in [Workers -> [EventIds -> TxStatus]]
         /\ txXw' \in [Workers -> [Refs -> [Tables -> Nat]]]
         /\ txSeq' \in [Workers -> [Tables -> Nat]]
         /\ todo' \in [Workers -> SUBSET EventIds]
         /\ pc' \in [Workers -> {"idle", "write", "record"}]
         /\ pos' \in [Workers -> 1..(NTables + 1)]
         /\ ids' \in [Workers -> [Tables -> Nat]]
         /\ how' \in [Workers -> [Tables -> {"none", "insert", "update", "ghost", "match"}]]
  BY BoundsAssumption DEF TypeOK, Release, NoIds, NoWrites, NoXw, NoStatus, TxStatus

\* An event belongs to one source row (external_reference).
LEMMA RefOfType == ASSUME NEW e \in EventIds PROVE RefOf[e] \in Refs
  BY ShapeAssumption

\* _crosswalk_lookup returns an id, or none, whoever recorded it.
LEMMA LookupType ==
  ASSUME TypeOK, NEW w \in Workers, NEW r \in Refs, NEW t \in Tables
  PROVE  CrosswalkLookup(w, r, t) \in Nat
  BY DEF TypeOK, CrosswalkLookup

\* allocate_id hands out an id.
LEMMA NextAppIdType ==
  ASSUME TypeOK, NEW w \in Workers, NEW t \in Tables
  PROVE  NextAppId(w, t) \in Nat
  BY DEF TypeOK, NextAppId

\* The foreign key _apply_foreign_keys fills in is an id or none.
LEMMA ParentIdType ==
  ASSUME TypeOK, NEW w \in Workers, NEW t \in Tables
  PROVE  ParentId(w, t) \in Nat
  <1>1. CASE Parent[t] = 0
        BY <1>1 DEF ParentId
  <1>2. CASE Parent[t] # 0
    <2>1. Parent[t] \in 0..NTables
          BY ShapeAssumption
    <2>2. Parent[t] \in Tables
          BY <1>2, <2>1, BoundsAssumption DEF Tables
    <2>3. ids[w] \in [Tables -> Nat]
          BY DEF TypeOK
    <2> QED  BY <1>2, <2>2, <2>3 DEF ParentId
  <1> QED  BY <1>1, <1>2

\* The row that _insert or _update writes is a row of the target.
LEMMA WrittenType ==
  ASSUME TypeOK, NEW w \in Workers, NEW e \in EventIds, NEW t \in Tables
  PROVE  Written(w, e, t) \in SUBSET Row
  <1> DEFINE new == [id |-> ids[w][t], ref |-> RefOf[e], ev |-> e, fk |-> ParentId(w, t)]
  <1>1. ids[w][t] \in Nat /\ ParentId(w, t) \in Nat /\ target[t] \in SUBSET Row
        BY ParentIdType DEF TypeOK
  <1>2. CASE how[w][t] = "insert"
    <2>1. new \in Row
          BY <1>1, RefOfType DEF Row
    <2> QED  BY <1>1, <1>2, <2>1 DEF Written
  <1>3. CASE how[w][t] = "update"
    <2>1. ASSUME NEW row \in target[t]
          PROVE  [row EXCEPT !.ev = e, !.fk = ParentId(w, t)] \in Row
          BY <1>1 DEF Row
    <2> QED  BY <1>1, <1>3, <2>1 DEF Written
  <1>4. CASE how[w][t] \notin {"insert", "update"}
        BY <1>1, <1>4 DEF Written
  <1> QED  BY <1>2, <1>3, <1>4

\* After a table comes the next one, or the end of the fan-out.
LEMMA NextPos ==
  ASSUME NEW p \in Tables
  PROVE  p + 1 \in 1..(NTables + 1)
  BY BoundsAssumption DEF Tables

\* The steps of a worker inside an event.
LEMMA TypeWrite ==
  ASSUME TypeOK, NEW w \in Workers, NEW e \in EventIds,
         \/ UpdateRow(w, e)
         \/ InsertAuto(w, e)
         \/ \E row \in UNION {target[t] : t \in Tables} : MatchRow(w, e, row)
         \/ InsertApp(w, e)
         \/ ResolveReference(w, e)
         \/ RecordCrosswalk(w, e)
  PROVE  TypeOK'
  <1>1. CASE UpdateRow(w, e)
    <2>1. pos[w] \in Tables
          BY <1>1 DEF UpdateRow, AtTable
    <2>2. CrosswalkLookup(w, RefOf[e], pos[w]) \in Nat
          BY <2>1, LookupType, RefOfType
    <2>3. pos[w] + 1 \in 1..(NTables + 1)
          BY <2>1, NextPos
    <2> QED  BY <1>1, <2>1, <2>2, <2>3 DEF TypeOK, UpdateRow, Wrote
  <1>2. CASE InsertAuto(w, e)
    <2>1. pos[w] \in Tables /\ nextId[pos[w]] \in Nat
          BY <1>2 DEF InsertAuto, AtTable, TypeOK
    <2>2. /\ ids' \in [Workers -> [Tables -> Nat]]
          /\ how' \in [Workers -> [Tables -> {"none", "insert", "update", "ghost", "match"}]]
          BY <1>2, <2>1 DEF TypeOK, InsertAuto, Wrote
    <2>3. nextId' \in [Tables -> Nat]
          BY <1>2, <2>1 DEF TypeOK, InsertAuto
    <2> QED  BY <1>2, <2>1, <2>2, <2>3 DEF TypeOK, InsertAuto
  <1>3. ASSUME NEW row \in UNION {target[t] : t \in Tables}, MatchRow(w, e, row)
        PROVE  TypeOK'
    <2>1. row.id \in Nat
          BY DEF TypeOK, Row
    <2> QED  BY <1>3, <2>1 DEF TypeOK, MatchRow, AtTable, Wrote
  <1>4. CASE InsertApp(w, e)
    <2>1. pos[w] \in Tables
          BY <1>4 DEF InsertApp, AtTable
    <2>2. NextAppId(w, pos[w]) \in Nat
          BY <2>1, NextAppIdType
    <2> QED  BY <1>4, <2>1, <2>2 DEF TypeOK, InsertApp, Wrote
  <1>5. CASE ResolveReference(w, e)
    <2>1. pos[w] \in Tables /\ pos[w] + 1 \in 1..(NTables + 1)
          BY <1>5, NextPos DEF ResolveReference, AtTable
    <2> QED  BY <1>5, <2>1 DEF TypeOK, ResolveReference, Wrote
  <1>6. CASE RecordCrosswalk(w, e)
    <2>1. pos[w] \in Tables /\ pos[w] + 1 \in 1..(NTables + 1)
          BY <1>6, NextPos DEF RecordCrosswalk
    <2>2. ids[w][pos[w]] \in Nat
          BY <2>1 DEF TypeOK
    <2>3. txXw' \in [Workers -> [Refs -> [Tables -> Nat]]]
          BY <1>6, <2>1, <2>2, RefOfType DEF TypeOK, RecordCrosswalk
    <2>4. pos' \in [Workers -> 1..(NTables + 1)]
          BY <1>6, <2>1 DEF TypeOK, RecordCrosswalk
    <2> QED  BY <1>6, <2>3, <2>4 DEF TypeOK, RecordCrosswalk
  <1> QED  BY <1>1, <1>2, <1>3, <1>4, <1>5, <1>6

\* A failed event rolls the target back and keeps the types.
LEMMA TypeFail ==
  ASSUME TypeOK, NEW w \in Workers, NEW e \in EventIds, Fail(w, e),
         txSeq' \in [Workers -> [Tables -> Nat]]
  PROVE  TypeOK'
  <1>1. RetryOrDeadLetter(e) \in TxStatus /\ FinishEvent(w, e, RetryOrDeadLetter(e))
        BY DEF Fail, RetryOrDeadLetter, TxStatus, Terminal
  <1> QED  BY <1>1, TypeFinish DEF TypeOK, Fail

\* Each way an event can fail is a Fail and keeps the types.
LEMMA TypeAnyFail ==
  ASSUME TypeOK, NEW w \in Workers, NEW e \in EventIds,
         \/ FailEvent(w, e) \/ LockTimeout(w, e) \/ ForeignKeyError(w, e)
         \/ KeysExhausted(w, e) \/ DuplicateKey(w, e)
  PROVE  Fail(w, e) /\ TypeOK'
  <1>1. Fail(w, e)
        BY DEF FailEvent, LockTimeout, ForeignKeyError, KeysExhausted, DuplicateKey
  <1>2. CASE DuplicateKey(w, e)
    <2>1. pos[w] \in Tables
          BY <1>2 DEF DuplicateKey, AtTable
    <2>2. NextAppId(w, pos[w]) \in Nat
          BY <2>1, NextAppIdType
    <2>3. txSeq' \in [Workers -> [Tables -> Nat]]
          BY <1>2, <2>1, <2>2 DEF TypeOK, DuplicateKey
    <2> QED  BY <1>1, <2>3, TypeFail
  <1>3. CASE UNCHANGED txSeq
        BY <1>1, <1>3, TypeFail DEF TypeOK
  <1> QED  BY <1>1, <1>2, <1>3 DEF FailEvent, LockTimeout, ForeignKeyError, KeysExhausted

\* What an outcome adds to the audit trail: a delivery,
LEMMA AuditDelivered ==
  ASSUME NEW s, s = "delivered", NEW trail \in Seq(Outcome)
  PROVE  trail \o AuditEntry(s) = Append(trail, "accepted")
  <1>1. "accepted" \in Outcome /\ AuditEntry(s) = <<"accepted">>
        BY DEF Outcome, AuditEntry
  <1> QED  BY <1>1, AppendIsConcat

\* a failure,
LEMMA AuditFailed ==
  ASSUME NEW s, s \in {"retry", "dead_letter"}, NEW trail \in Seq(Outcome)
  PROVE  trail \o AuditEntry(s) = Append(trail, "transport_error")
  <1>1. "transport_error" \in Outcome /\ AuditEntry(s) = <<"transport_error">>
        BY DEF Outcome, AuditEntry
  <1> QED  BY <1>1, AppendIsConcat

\* and anything else.
LEMMA AuditNone ==
  ASSUME NEW s, s \in {"none", "processing", "quarantined"}, NEW trail \in Seq(Outcome)
  PROVE  trail \o AuditEntry(s) = trail
  <1>1. AuditEntry(s) = <<>>
        BY DEF AuditEntry
  <1> QED  BY <1>1, ConcatEmptySeq

\* The audit trail stays a sequence of outcomes.
LEMMA AuditType ==
  ASSUME NEW s \in TxStatus, NEW trail \in Seq(Outcome)
  PROVE  trail \o AuditEntry(s) \in Seq(Outcome)
  <1>1. "accepted" \in Outcome /\ "transport_error" \in Outcome
        BY DEF Outcome
  <1>2. CASE s = "delivered"
    <2>1. trail \o AuditEntry(s) = Append(trail, "accepted")
          BY <1>2, AuditDelivered
    <2> QED  BY <1>1, <2>1, AppendProperties
  <1>3. CASE s \in {"retry", "dead_letter"}
    <2>1. trail \o AuditEntry(s) = Append(trail, "transport_error")
          BY <1>3, AuditFailed
    <2> QED  BY <1>1, <2>1, AppendProperties
  <1>4. CASE s \in {"none", "processing", "quarantined"}
        BY <1>4, AuditNone
  <1> QED  BY <1>2, <1>3, <1>4 DEF TxStatus, Terminal

\* A batch commits the outcomes it holds, and its failures fit the counter.
LEMMA TypeCommitBatch ==
  ASSUME TypeOK, OutboxInv, NEW w \in Workers, CommitBatch(w)
  PROVE  TypeOK'
  <1>1. ASSUME NEW e \in EventIds
        PROVE  /\ status'[e] \in Status
               /\ attempts'[e] \in 0..MaxAttempts
               /\ due'[e] \in BOOLEAN
               /\ audit'[e] \in Seq(Outcome)
    <2>1. txStatus[w][e] # "processing"
          BY DEF OutboxInv, LockExclusion, CommitBatch
    <2>2. txStatus[w][e] \in TxStatus
          BY DEF TypeOK
    <2>3. txStatus[w][e] # "none" => status[e] \in Claimable
          BY DEF OutboxInv, TxClaimed
    <2>4. status'[e] \in Status
          BY <2>1, <2>2 DEF CommitBatch, TypeOK, Status, TxStatus, Claimable
    <2>5. status[e] \in Claimable => attempts[e] + 1 \in 0..MaxAttempts
          BY BoundsAssumption DEF OutboxInv, AttemptsBounded, Claimable, TypeOK
    <2>6. attempts'[e] \in 0..MaxAttempts
          BY <2>3, <2>5 DEF CommitBatch, TypeOK
    <2>7. audit[e] \in Seq(Outcome) /\ audit'[e] = audit[e] \o AuditEntry(txStatus[w][e])
          BY DEF CommitBatch, TypeOK
    <2>8. audit'[e] \in Seq(Outcome)
          BY <2>2, <2>7, AuditType
    <2>9. due'[e] \in BOOLEAN
      <3>1. due'[e] = (due[e] /\ txStatus[w][e] \notin {"retry", "dead_letter"})
            BY DEF CommitBatch
      <3> QED  BY <3>1
    <2> QED  BY <2>4, <2>6, <2>8, <2>9
  <1>2. /\ status' \in [EventIds -> Status]
        /\ attempts' \in [EventIds -> 0..MaxAttempts]
        /\ due' \in [EventIds -> BOOLEAN]
        /\ audit' \in [EventIds -> Seq(Outcome)]
        /\ quarantine' \subseteq EventIds
        BY <1>1 DEF CommitBatch, TypeOK
  <1>3. crosswalk' \in [Refs -> [Tables -> Nat]]
        BY LookupType DEF CommitBatch
  <1>5. idSeq' \in [Tables -> Nat]
        BY DEF CommitBatch, TypeOK
  <1>4. Release(w)
        BY DEF CommitBatch
  <1> QED  BY <1>2, <1>3, <1>4, <1>5, TypeRelease DEF TypeOK, CommitBatch

\* Every step keeps the types, given the invariant of the outbox.
LEMMA TypeStep == TypeOK /\ OutboxInv /\ [Next]_vars => TypeOK'
  <1> SUFFICES ASSUME TypeOK, OutboxInv, [Next]_vars PROVE TypeOK'
      OBVIOUS
  <1>1. ASSUME NEW w \in Workers, Work(w) PROVE TypeOK'
    <2>1. ASSUME NEW B \in SUBSET EventIds, Claim(w, B) PROVE TypeOK'
      <3>1. overtaken' \subseteq EventIds
            BY <2>1 DEF TypeOK, Claim, OvertakenBy
      <3> QED  BY <2>1, <3>1 DEF TypeOK, Claim, TxStatus
    <2>2. ASSUME NEW e \in EventIds, CommitEvent(w, e) PROVE TypeOK'
      <3>1. "delivered" \in TxStatus /\ FinishEvent(w, e, "delivered")
            BY <2>2 DEF CommitEvent, TxStatus, Terminal
      <3>2. target' \in [Tables -> SUBSET Row]
            BY <2>2, WrittenType DEF CommitEvent
      <3> QED  BY <2>2, <3>1, <3>2, TypeFinish DEF TypeOK, CommitEvent
    <2>3. ASSUME DeadlockVictim(w) PROVE TypeOK'
      <3>1. Release(w)
            BY <2>3 DEF DeadlockVictim, LoseBatch
      <3> QED  BY <2>3, <3>1, TypeRelease DEF TypeOK, DeadlockVictim, LoseBatch
    <2> QED  BY <1>1, <2>1, <2>2, <2>3, TypeWrite, TypeAnyFail, TypeCommitBatch DEF Work
  <1>2. ASSUME NEW e \in EventIds, BecomeDue(e) PROVE TypeOK'
        BY <1>2 DEF TypeOK, BecomeDue
  <1>3. ASSUME Environment PROVE TypeOK'
    <2>1. ASSUME NEW e \in EventIds, Enqueue(e) \/ Replay(e) PROVE TypeOK'
          BY <2>1, TypeEnqueueReplay
    <2>2. ASSUME NEW n \in Entities, SetEntityEnabled(n) PROVE TypeOK'
          BY <2>2, BoundsAssumption DEF TypeOK, SetEntityEnabled
    <2>3. ASSUME NEW w \in Workers, EmptyPass(w) PROVE TypeOK'
          BY <2>3 DEF TypeOK, EmptyPass, vars
    <2>4. ASSUME NEW w \in Workers, Crash(w) PROVE TypeOK'
      <3>1. Release(w) /\ crashes' \in 0..MaxCrashes
            BY <2>4, BoundsAssumption DEF Crash, LoseBatch, TypeOK
      <3> QED  BY <2>4, <3>1, TypeRelease DEF TypeOK, Crash, LoseBatch
    <2>5. ASSUME NEW w \in Workers, NEW e \in EventIds, Quarantine(w, e) PROVE TypeOK'
      <3>1. "quarantined" \in TxStatus /\ FinishEvent(w, e, "quarantined")
            BY <2>5 DEF Quarantine, TxStatus, Terminal
      <3> QED  BY <2>5, <3>1, TypeFinish DEF TypeOK, Quarantine
    <2> QED  BY <1>3, <2>1, <2>2, <2>3, <2>4, <2>5, TypeAnyFail DEF Environment
  <1>4. CASE UNCHANGED vars
        BY <1>4 DEF TypeOK, vars
  <1> QED  BY <1>1, <1>2, <1>3, <1>4 DEF Next

-----------------------------------------------------------------------------
(* The life of an event *)

\* The invariant of the outbox holds of events that all wait or are to come.
LEMMA OutboxInit == Init => OutboxInv
  BY BoundsAssumption
  DEF Init, OutboxInv, LockExclusion, QuarantineMatches, AttemptsBounded,
      AuditExplainsAttempts, DeliveredHasEnvelope, TxClaimed, NoStatus, EventIds

\* Most steps touch neither the outbox nor what batches hold of it.
LEMMA OutboxFrame ==
  ASSUME OutboxInv,
         UNCHANGED <<status, attempts, quarantine, audit, envelope, txStatus, todo>>
  PROVE  OutboxInv'
  BY DEF OutboxInv, LockExclusion, QuarantineMatches, AttemptsBounded,
         AuditExplainsAttempts, DeliveredHasEnvelope, TxClaimed

\* A change capture adds a fresh pending event.
LEMMA OutboxEnqueue ==
  ASSUME TypeOK, OutboxInv, NEW e \in EventIds, Enqueue(e)
  PROVE  OutboxInv'
  <1>1. LockExclusion'
        BY DEF OutboxInv, LockExclusion, Enqueue
  <1>2. QuarantineMatches'
        BY DEF OutboxInv, QuarantineMatches, Enqueue, TypeOK
  <1>3. AttemptsBounded'
        BY DEF OutboxInv, AttemptsBounded, Enqueue, TypeOK
  <1>4. AuditExplainsAttempts'
        BY DEF OutboxInv, AuditExplainsAttempts, AttemptsBounded, Enqueue, TypeOK
  <1>5. DeliveredHasEnvelope'
        BY DEF OutboxInv, DeliveredHasEnvelope, Enqueue, TypeOK
  <1>6. TxClaimed'
        BY DEF OutboxInv, TxClaimed, Enqueue, TypeOK, Claimable
  <1> QED  BY <1>1, <1>2, <1>3, <1>4, <1>5, <1>6 DEF OutboxInv

\* replay starts an event's count again and drops its quarantine row.
LEMMA OutboxReplay ==
  ASSUME TypeOK, OutboxInv, NEW e \in EventIds, Replay(e)
  PROVE  OutboxInv'
  <1>1. LockExclusion'
        BY DEF OutboxInv, LockExclusion, Replay
  <1>2. QuarantineMatches'
        BY DEF OutboxInv, QuarantineMatches, Replay, TypeOK
  <1>3. AttemptsBounded'
        BY DEF OutboxInv, AttemptsBounded, Replay, TypeOK
  <1>4. AuditExplainsAttempts'
    <2> SUFFICES ASSUME NEW f \in EventIds
                 PROVE  /\ attempts'[f] =< Len(audit'[f])
                        /\ \A i \in (Len(audit'[f]) - attempts'[f] + 1)..Len(audit'[f]) :
                              audit'[f][i] = "accepted" <=>
                                  i = Len(audit'[f]) /\ status'[f] = "delivered"
        BY DEF AuditExplainsAttempts
    <2>1. CASE f = e
      <3>1. attempts'[f] = 0 /\ audit'[f] = audit[f] /\ Len(audit[f]) \in Nat
            BY <2>1 DEF Replay, TypeOK
      <3> QED  BY <3>1
    <2>2. CASE f # e
          BY <2>2 DEF OutboxInv, AuditExplainsAttempts, Replay, TypeOK
    <2> QED  BY <2>1, <2>2
  <1>5. DeliveredHasEnvelope'
        BY DEF OutboxInv, DeliveredHasEnvelope, Replay, TypeOK
  <1>6. TxClaimed'
        BY DEF OutboxInv, TxClaimed, Replay, Unlocked, TypeOK
  <1> QED  BY <1>1, <1>2, <1>3, <1>4, <1>5, <1>6 DEF OutboxInv

\* claim_events takes only events no other batch holds.
LEMMA OutboxClaim ==
  ASSUME TypeOK, OutboxInv, NEW w \in Workers, NEW B \in SUBSET EventIds, Claim(w, B)
  PROVE  OutboxInv'
  <1>1. \A e \in B : status[e] \in Claimable /\ Unlocked(e)
        BY DEF Claim, IsFirstBatch, Ready
  <1>2. \A x \in Workers : \A e \in EventIds :
           txStatus'[x][e] = IF x = w THEN (IF e \in B THEN "processing" ELSE "none")
                             ELSE txStatus[x][e]
        BY DEF Claim, TypeOK
  <1>3. \A x \in Workers : todo'[x] = IF x = w THEN B ELSE todo[x]
        BY DEF Claim, TypeOK
  <1>4. LockExclusion'
    <2>1. \A x \in Workers : todo'[x] = {e \in EventIds : txStatus'[x][e] = "processing"}
          BY <1>2, <1>3 DEF OutboxInv, LockExclusion
    <2> QED  BY <1>1, <1>2, <2>1 DEF OutboxInv, LockExclusion, Unlocked
  <1>5. QuarantineMatches' /\ AttemptsBounded' /\ AuditExplainsAttempts'
        BY DEF OutboxInv, QuarantineMatches, AttemptsBounded, AuditExplainsAttempts, Claim
  <1>6. DeliveredHasEnvelope'
        BY <1>2 DEF OutboxInv, DeliveredHasEnvelope, Claim
  <1>7. TxClaimed'
        BY <1>1, <1>2 DEF OutboxInv, TxClaimed, Claim
  <1> QED  BY <1>4, <1>5, <1>6, <1>7 DEF OutboxInv

\* An event that a batch finishes: quarantined, failed or delivered.
LEMMA OutboxFinish ==
  ASSUME TypeOK, OutboxInv, NEW w \in Workers, NEW e \in EventIds,
         NEW s \in TxStatus \ {"none", "processing"},
         IsCurrent(w, e), FinishEvent(w, e, s),
         UNCHANGED <<status, attempts, quarantine, audit>>,
         envelope \subseteq envelope',
         s = "delivered" => e \in envelope',
         s = "retry" => attempts[e] + 1 < MaxAttempts,
         s = "dead_letter" => attempts[e] + 1 = MaxAttempts
  PROVE  OutboxInv'
  <1>1. \A x \in Workers : \A f \in EventIds :
           txStatus'[x][f] = IF x = w /\ f = e THEN s ELSE txStatus[x][f]
        BY DEF FinishEvent, TypeOK
  <1>2. \A x \in Workers : todo'[x] = IF x = w THEN todo[w] \ {e} ELSE todo[x]
        BY DEF FinishEvent, TypeOK
  <1>3. txStatus[w][e] = "processing"
        BY DEF OutboxInv, LockExclusion, IsCurrent
  <1>4. LockExclusion'
    <2>1. \A x \in Workers : todo'[x] = {f \in EventIds : txStatus'[x][f] = "processing"}
          BY <1>1, <1>2 DEF OutboxInv, LockExclusion
    <2> QED  BY <1>1, <1>3, <2>1 DEF OutboxInv, LockExclusion
  <1>5. QuarantineMatches' /\ AttemptsBounded' /\ AuditExplainsAttempts'
        BY DEF OutboxInv, QuarantineMatches, AttemptsBounded, AuditExplainsAttempts
  <1>6. DeliveredHasEnvelope'
        BY <1>1 DEF OutboxInv, DeliveredHasEnvelope
  <1>7. TxClaimed'
        BY <1>1, <1>3 DEF OutboxInv, TxClaimed
  <1> QED  BY <1>4, <1>5, <1>6, <1>7 DEF OutboxInv

\* A failed event is a finished one (retry_or_dead_letter).
LEMMA OutboxFail ==
  ASSUME TypeOK, OutboxInv, NEW w \in Workers, NEW e \in EventIds, Fail(w, e)
  PROVE  OutboxInv'
  <1>1. status[e] \in Claimable
        BY DEF OutboxInv, LockExclusion, TxClaimed, Fail, IsCurrent
  <1>2. attempts[e] + 1 =< MaxAttempts /\ attempts[e] \in Nat
        BY <1>1, BoundsAssumption DEF OutboxInv, AttemptsBounded, Claimable, TypeOK
  <1>3. /\ RetryOrDeadLetter(e) \in TxStatus \ {"none", "processing", "delivered"}
        /\ RetryOrDeadLetter(e) = "retry" => attempts[e] + 1 < MaxAttempts
        /\ RetryOrDeadLetter(e) = "dead_letter" => attempts[e] + 1 = MaxAttempts
        BY <1>2, BoundsAssumption DEF RetryOrDeadLetter, TxStatus, Terminal
  <1> QED  BY <1>3, OutboxFinish DEF Fail

\* The batch is lost: what it held of the outbox is dropped.
LEMMA OutboxRelease ==
  ASSUME TypeOK, OutboxInv, NEW w \in Workers, Release(w),
         UNCHANGED <<status, attempts, quarantine, audit, envelope>>
  PROVE  OutboxInv'
  <1>1. \A x \in Workers : \A f \in EventIds :
           txStatus'[x][f] = IF x = w THEN "none" ELSE txStatus[x][f]
        BY DEF Release, TypeOK, NoStatus
  <1>2. \A x \in Workers : todo'[x] = IF x = w THEN {} ELSE todo[x]
        BY DEF Release, TypeOK
  <1>3. LockExclusion'
    <2>1. \A x \in Workers : todo'[x] = {f \in EventIds : txStatus'[x][f] = "processing"}
          BY <1>1, <1>2 DEF OutboxInv, LockExclusion
    <2> QED  BY <1>1, <2>1 DEF OutboxInv, LockExclusion
  <1>4. QuarantineMatches' /\ AttemptsBounded' /\ AuditExplainsAttempts'
        BY DEF OutboxInv, QuarantineMatches, AttemptsBounded, AuditExplainsAttempts
  <1>5. DeliveredHasEnvelope' /\ TxClaimed'
        BY <1>1 DEF OutboxInv, DeliveredHasEnvelope, TxClaimed
  <1> QED  BY <1>3, <1>4, <1>5 DEF OutboxInv

\* The batch is committed: its outcomes become the committed rows.
LEMMA OutboxCommitBatch ==
  ASSUME TypeOK, OutboxInv, NEW w \in Workers, CommitBatch(w)
  PROVE  OutboxInv'
  <1> DEFINE tx == txStatus[w]
  <1>1. \A x \in Workers : \A f \in EventIds :
           txStatus'[x][f] = IF x = w THEN "none" ELSE txStatus[x][f]
        BY DEF CommitBatch, Release, TypeOK, NoStatus
  <1>2. \A x \in Workers : todo'[x] = IF x = w THEN {} ELSE todo[x]
        BY DEF CommitBatch, Release, TypeOK
  <1>3. \A f \in EventIds : tx[f] # "processing" /\ tx[f] \in TxStatus
        BY DEF OutboxInv, LockExclusion, CommitBatch, TypeOK
  <1>4. \A f \in EventIds :
           /\ status'[f] = IF tx[f] = "none" THEN status[f] ELSE tx[f]
           /\ attempts'[f] = IF tx[f] \in {"delivered", "retry", "dead_letter"}
                             THEN attempts[f] + 1 ELSE attempts[f]
           /\ audit'[f] = audit[f] \o AuditEntry(tx[f])
        BY DEF CommitBatch
  <1>5. \A f \in EventIds : tx[f] # "none" =>
           /\ status[f] \in Claimable
           /\ attempts[f] \in 0..(MaxAttempts - 1)
           /\ tx[f] = "retry" => attempts[f] + 1 < MaxAttempts
           /\ tx[f] = "dead_letter" => attempts[f] + 1 = MaxAttempts
        BY BoundsAssumption DEF OutboxInv, TxClaimed, AttemptsBounded, Claimable, TypeOK
  <1>6. LockExclusion'
    <2>1. \A x \in Workers : todo'[x] = {f \in EventIds : txStatus'[x][f] = "processing"}
          BY <1>1, <1>2 DEF OutboxInv, LockExclusion
    <2> QED  BY <1>1, <2>1 DEF OutboxInv, LockExclusion
  <1>7. QuarantineMatches'
        BY <1>4, <1>5 DEF OutboxInv, QuarantineMatches, CommitBatch, Claimable
  <1>8. AttemptsBounded'
    <2> SUFFICES ASSUME NEW f \in EventIds
                 PROVE  /\ status'[f] \in {"absent", "pending"} => attempts'[f] = 0
                        /\ status'[f] = "retry" => attempts'[f] \in 1..(MaxAttempts - 1)
                        /\ status'[f] = "dead_letter" => attempts'[f] = MaxAttempts
                        /\ status'[f] = "delivered" => attempts'[f] \in 1..MaxAttempts
                        /\ status'[f] = "quarantined" => attempts'[f] < MaxAttempts
        BY DEF AttemptsBounded
    <2>1. CASE tx[f] = "none"
          BY <1>4, <2>1 DEF OutboxInv, AttemptsBounded
    <2>2. CASE tx[f] # "none"
      <3>1. status'[f] = tx[f] /\ attempts[f] \in 0..(MaxAttempts - 1)
            BY <1>4, <1>5, <2>2
      <3>2. CASE tx[f] = "quarantined"
        <4>1. attempts'[f] = attempts[f]
              BY <1>4, <3>2
        <4> QED  BY <3>1, <3>2, <4>1, BoundsAssumption
      <3>3. CASE tx[f] \in {"delivered", "retry", "dead_letter"}
        <4>1. attempts'[f] = attempts[f] + 1
              BY <1>4, <3>3
        <4> QED  BY <1>5, <2>2, <3>1, <3>3, <4>1, BoundsAssumption
      <3> QED  BY <1>3, <2>2, <3>2, <3>3 DEF TxStatus, Terminal
    <2> QED  BY <2>1, <2>2
  <1>9. AuditExplainsAttempts'
    <2> SUFFICES ASSUME NEW f \in EventIds
                 PROVE  /\ attempts'[f] =< Len(audit'[f])
                        /\ \A i \in (Len(audit'[f]) - attempts'[f] + 1)..Len(audit'[f]) :
                              audit'[f][i] = "accepted" <=>
                                  i = Len(audit'[f]) /\ status'[f] = "delivered"
        BY DEF AuditExplainsAttempts
    <2>1. /\ attempts[f] =< Len(audit[f])
          /\ \A i \in (Len(audit[f]) - attempts[f] + 1)..Len(audit[f]) :
                audit[f][i] = "accepted" <=> i = Len(audit[f]) /\ status[f] = "delivered"
          BY DEF OutboxInv, AuditExplainsAttempts
    <2>2. attempts[f] \in Nat /\ audit[f] \in Seq(Outcome) /\ Len(audit[f]) \in Nat
          BY DEF TypeOK
    <2>3. CASE tx[f] \in {"none", "quarantined"}
      <3>1. audit'[f] = audit[f] /\ attempts'[f] = attempts[f]
            BY <1>4, <2>2, <2>3, AuditNone
      <3>2. status'[f] = "delivered" <=> status[f] = "delivered"
            BY <1>4, <1>5, <2>3 DEF Claimable
      <3> QED  BY <2>1, <3>1, <3>2
    <2>4. CASE tx[f] \in {"delivered", "retry", "dead_letter"}
      <3> DEFINE entry == IF tx[f] = "delivered" THEN "accepted" ELSE "transport_error"
      <3>1. audit'[f] = Append(audit[f], entry)
        <4>1. audit'[f] = audit[f] \o AuditEntry(tx[f]) /\ tx[f] \in TxStatus
              BY <1>3, <1>4
        <4>2. CASE tx[f] = "delivered"
          <5>1. audit[f] \o AuditEntry(tx[f]) = Append(audit[f], "accepted")
                BY <2>2, <4>1, <4>2, AuditDelivered
          <5> QED  BY <4>1, <4>2, <5>1
        <4>3. CASE tx[f] \in {"retry", "dead_letter"}
          <5>1. audit[f] \o AuditEntry(tx[f]) = Append(audit[f], "transport_error")
                BY <2>2, <4>1, <4>3, AuditFailed
          <5>2. entry = "transport_error"
                BY <4>3
          <5> HIDE DEF entry
          <5> QED  BY <4>1, <5>1, <5>2
        <4> QED  BY <2>4, <4>2, <4>3
      <3>2. /\ Len(audit'[f]) = Len(audit[f]) + 1
            /\ audit'[f][Len(audit[f]) + 1] = entry
            /\ \A i \in 1..Len(audit[f]) : audit'[f][i] = audit[f][i]
            BY <2>2, <3>1
      <3>3. attempts'[f] = attempts[f] + 1 /\ status'[f] = tx[f] /\ status[f] # "delivered"
            BY <1>4, <1>5, <2>4 DEF Claimable
      <3>4. attempts'[f] =< Len(audit'[f])
            BY <2>1, <2>2, <3>2, <3>3
      <3>5. ASSUME NEW i \in (Len(audit'[f]) - attempts'[f] + 1)..Len(audit'[f])
            PROVE  audit'[f][i] = "accepted" <=>
                       i = Len(audit'[f]) /\ status'[f] = "delivered"
        <4>1. CASE i = Len(audit'[f])
              BY <2>4, <3>2, <3>3, <4>1
        <4>2. CASE i # Len(audit'[f])
          <5>1. /\ i \in 1..Len(audit[f])
                /\ i \in (Len(audit[f]) - attempts[f] + 1)..Len(audit[f])
            <6> DEFINE n == Len(audit[f])
                       k == attempts[f]
            <6>1. /\ n \in Nat /\ k \in Nat /\ k =< n
                  /\ Len(audit'[f]) = n + 1 /\ attempts'[f] = k + 1
                  BY <2>1, <2>2, <3>2, <3>3
            <6>2. i \in ((n + 1) - (k + 1) + 1)..(n + 1) /\ i # n + 1
                  BY <4>2, <6>1
            <6> HIDE DEF n, k
            <6>3. i \in 1..n /\ i \in (n - k + 1)..n
                  BY <6>1, <6>2
            <6> QED  BY <6>3 DEF n, k
          <5>2. audit'[f][i] = audit[f][i] /\ audit[f][i] # "accepted"
                BY <2>1, <3>2, <3>3, <5>1
          <5> QED  BY <4>2, <5>2
        <4> QED  BY <4>1, <4>2
      <3> QED  BY <3>4, <3>5
    <2> QED  BY <1>3, <2>3, <2>4 DEF TxStatus, Terminal
  <1>10. DeliveredHasEnvelope'
        BY <1>1, <1>4 DEF OutboxInv, DeliveredHasEnvelope, CommitBatch
  <1>11. TxClaimed'
    <2> SUFFICES ASSUME NEW x \in Workers, NEW f \in EventIds, txStatus'[x][f] # "none"
                 PROVE  /\ status'[f] \in Claimable
                        /\ txStatus'[x][f] = "retry" => attempts'[f] + 1 < MaxAttempts
                        /\ txStatus'[x][f] = "dead_letter" => attempts'[f] + 1 = MaxAttempts
        BY DEF TxClaimed
    <2>1. x # w /\ txStatus'[x][f] = txStatus[x][f]
          BY <1>1
    <2>2. tx[f] = "none"
          BY <2>1 DEF OutboxInv, LockExclusion
    <2> QED  BY <1>4, <2>1, <2>2 DEF OutboxInv, TxClaimed
  <1> QED  BY <1>6, <1>7, <1>8, <1>9, <1>10, <1>11 DEF OutboxInv

\* Every step keeps the invariant of the outbox, given the types.
LEMMA OutboxStep == TypeOK /\ OutboxInv /\ [Next]_vars => OutboxInv'
  <1> SUFFICES ASSUME TypeOK, OutboxInv, [Next]_vars PROVE OutboxInv'
      OBVIOUS
  <1>1. ASSUME NEW w \in Workers, Work(w) PROVE OutboxInv'
    <2>1. ASSUME NEW e \in EventIds,
                 \/ UpdateRow(w, e)
                 \/ InsertAuto(w, e)
                 \/ \E row \in UNION {target[t] : t \in Tables} : MatchRow(w, e, row)
                 \/ InsertApp(w, e)
                 \/ ResolveReference(w, e)
                 \/ RecordCrosswalk(w, e)
          PROVE  OutboxInv'
      <3>1. UNCHANGED <<status, attempts, quarantine, audit, envelope, txStatus, todo>>
            BY <2>1 DEF UpdateRow, InsertAuto, MatchRow, InsertApp, ResolveReference,
                        RecordCrosswalk
      <3> QED  BY <3>1, OutboxFrame
    <2>2. ASSUME NEW e \in EventIds, CommitEvent(w, e) PROVE OutboxInv'
      <3>1. "delivered" \in TxStatus \ {"none", "processing"}
            BY DEF TxStatus, Terminal
      <3> QED  BY <2>2, <3>1, OutboxFinish DEF CommitEvent
    <2>3. ASSUME NEW e \in EventIds,
                 \/ LockTimeout(w, e) \/ ForeignKeyError(w, e)
                 \/ KeysExhausted(w, e) \/ DuplicateKey(w, e)
          PROVE  OutboxInv'
          BY <2>3, TypeAnyFail, OutboxFail
    <2>4. ASSUME DeadlockVictim(w) PROVE OutboxInv'
          BY <2>4, OutboxRelease DEF DeadlockVictim, LoseBatch
    <2> QED  BY <1>1, <2>1, <2>2, <2>3, <2>4, OutboxClaim, OutboxCommitBatch DEF Work
  <1>2. ASSUME NEW e \in EventIds, BecomeDue(e) PROVE OutboxInv'
        BY <1>2, OutboxFrame DEF BecomeDue
  <1>3. ASSUME Environment PROVE OutboxInv'
    <2>1. ASSUME NEW n \in Entities, SetEntityEnabled(n) PROVE OutboxInv'
          BY <2>1, OutboxFrame DEF SetEntityEnabled
    <2>2. ASSUME NEW w \in Workers, EmptyPass(w) PROVE OutboxInv'
          BY <2>2, OutboxFrame DEF EmptyPass, vars
    <2>3. ASSUME NEW w \in Workers, Crash(w) PROVE OutboxInv'
          BY <2>3, OutboxRelease DEF Crash, LoseBatch
    <2>4. ASSUME NEW w \in Workers, NEW e \in EventIds, Quarantine(w, e) PROVE OutboxInv'
      <3>1. "quarantined" \in TxStatus \ {"none", "processing"}
            BY DEF TxStatus, Terminal
      <3> QED  BY <2>4, <3>1, OutboxFinish DEF Quarantine
    <2>5. ASSUME NEW w \in Workers, NEW e \in EventIds, FailEvent(w, e) PROVE OutboxInv'
          BY <2>5, OutboxFail DEF FailEvent
    <2> QED  BY <1>3, <2>1, <2>2, <2>3, <2>4, <2>5, OutboxEnqueue, OutboxReplay
             DEF Environment
  <1>4. CASE UNCHANGED vars
        BY <1>4, OutboxFrame DEF vars
  <1> QED  BY <1>1, <1>2, <1>3, <1>4 DEF Next

-----------------------------------------------------------------------------
(* The id sequences *)

\* Nothing is drawn before a batch begins.
LEMMA SequenceInit == Init => SequenceInv
  BY DEF Init, SequenceInv, NoIds, NoWrites

\* A batch that ends, or an event that does, gives back what it holds.
LEMMA SequenceRelease ==
  ASSUME TypeOK, SequenceInv, NEW w \in Workers, Release(w)
  PROVE  SequenceInv'
  BY DEF TypeOK, SequenceInv, Release, NoIds, NoWrites

LEMMA SequenceFinish ==
  ASSUME TypeOK, SequenceInv, NEW w \in Workers, how' = [how EXCEPT ![w] = NoWrites],
         UNCHANGED txSeq
  PROVE  SequenceInv'
  BY DEF TypeOK, SequenceInv, NoWrites

\* A drawn id is never 0.
LEMMA NextAppIdPositive ==
  ASSUME TypeOK, NEW w \in Workers, NEW t \in Tables
  PROVE  NextAppId(w, t) \in Nat \ {0}
  BY DEF TypeOK, NextAppId

\* Drawing an id while no other batch has drawn one.
LEMMA SequenceDraw ==
  ASSUME TypeOK, SequenceInv, NEW w \in Workers, NEW t \in Tables, ~SeqLocked(w, t),
         txSeq' = [txSeq EXCEPT ![w][t] = NextAppId(w, t)],
         \A x \in Workers, u \in Tables :
            how'[x][u] = "insert" => how[x][u] = "insert" \/ (x = w /\ u = t)
  PROVE  SequenceInv'
  <1>1. NextAppId(w, t) # 0
        BY NextAppIdPositive
  <1>2. txSeq \in [Workers -> [Tables -> Nat]]
        BY DEF TypeOK
  <1>3. \A x \in Workers, u \in Tables :
           txSeq'[x][u] = IF x = w /\ u = t THEN NextAppId(w, t) ELSE txSeq[x][u]
        BY <1>2
  <1> QED  BY <1>1, <1>3 DEF SequenceInv, SeqLocked

\* Every step keeps the invariant of the sequences, given the types.
LEMMA SequenceStep == TypeOK /\ SequenceInv /\ [Next]_vars => SequenceInv'
  <1> SUFFICES ASSUME TypeOK, SequenceInv, [Next]_vars PROVE SequenceInv'
      OBVIOUS
  <1>0. ASSUME UNCHANGED <<txSeq, how>> PROVE SequenceInv'
        BY <1>0 DEF SequenceInv
  <1>1. ASSUME NEW w \in Workers, NEW e \in EventIds, Fail(w, e), UNCHANGED txSeq
        PROVE  SequenceInv'
        BY <1>1, SequenceFinish DEF Fail, FinishEvent
  <1>2. ASSUME NEW w \in Workers, LoseBatch(w) PROVE SequenceInv'
        BY <1>2, SequenceRelease DEF LoseBatch
  <1>3. ASSUME NEW w \in Workers, Work(w) PROVE SequenceInv'
    <2>1. ASSUME NEW e \in EventIds,
                 \/ UpdateRow(w, e)
                 \/ InsertAuto(w, e)
                 \/ \E row \in UNION {target[t] : t \in Tables} : MatchRow(w, e, row)
                 \/ ResolveReference(w, e)
          PROVE  SequenceInv'
      <3>1. pos[w] \in Tables /\ UNCHANGED txSeq
            BY <2>1 DEF UpdateRow, InsertAuto, MatchRow, ResolveReference, AtTable
      <3>2. PICK k : /\ how' = [how EXCEPT ![w][pos[w]] = k]
                     /\ k = "insert" => Kind[pos[w]] # "app"
            BY <2>1, SMTT(20) DEF UpdateRow, InsertAuto, MatchRow, ResolveReference, AtTable, Wrote
      <3>3. \A x \in Workers, u \in Tables :
               how'[x][u] = IF x = w /\ u = pos[w] THEN k ELSE how[x][u]
            BY <3>1, <3>2 DEF TypeOK
      <3>4. \A x \in Workers, u \in Tables :
               how'[x][u] = "insert" /\ Kind[u] = "app" => how[x][u] = "insert"
            BY <3>2, <3>3
      <3> QED  BY <3>1, <3>4 DEF SequenceInv
    <2>2. ASSUME NEW e \in EventIds, InsertApp(w, e) PROVE SequenceInv'
      <3>1. /\ pos[w] \in Tables
            /\ ~SeqLocked(w, pos[w])
            /\ txSeq' = [txSeq EXCEPT ![w][pos[w]] = NextAppId(w, pos[w])]
            /\ how' = [how EXCEPT ![w][pos[w]] = "insert"]
            BY <2>2 DEF InsertApp, AtTable, Wrote
      <3>2. \A x \in Workers, u \in Tables :
               how'[x][u] = "insert" => how[x][u] = "insert" \/ (x = w /\ u = pos[w])
            BY <3>1 DEF TypeOK
      <3> QED  BY <3>1, <3>2, SequenceDraw
    <2>3. ASSUME NEW e \in EventIds, DuplicateKey(w, e) PROVE SequenceInv'
      <3>1. /\ pos[w] \in Tables
            /\ ~SeqLocked(w, pos[w])
            /\ txSeq' = [txSeq EXCEPT ![w][pos[w]] = NextAppId(w, pos[w])]
            /\ how' = [how EXCEPT ![w] = NoWrites]
            BY <2>3 DEF DuplicateKey, AtTable, Fail, FinishEvent
      <3>2. \A x \in Workers, u \in Tables :
               how'[x][u] = "insert" => how[x][u] = "insert" \/ (x = w /\ u = pos[w])
            BY <3>1 DEF TypeOK, NoWrites
      <3> QED  BY <3>1, <3>2, SequenceDraw
    <2>4. ASSUME NEW e \in EventIds,
                 LockTimeout(w, e) \/ ForeignKeyError(w, e) \/ KeysExhausted(w, e)
          PROVE  SequenceInv'
          BY <2>4, <1>1 DEF LockTimeout, ForeignKeyError, KeysExhausted
    <2>5. ASSUME NEW e \in EventIds, CommitEvent(w, e) PROVE SequenceInv'
          BY <2>5, SequenceFinish DEF CommitEvent, FinishEvent
    <2>6. ASSUME NEW e \in EventIds, RecordCrosswalk(w, e) PROVE SequenceInv'
          BY <2>6, <1>0 DEF RecordCrosswalk
    <2>7. ASSUME NEW B \in SUBSET EventIds, Claim(w, B) PROVE SequenceInv'
          BY <2>7, <1>0 DEF Claim
    <2>8. CASE CommitBatch(w)
          BY <2>8, SequenceRelease DEF CommitBatch
    <2>9. CASE DeadlockVictim(w)
          BY <2>9, <1>2 DEF DeadlockVictim
    <2> QED  BY <1>3, <2>1, <2>2, <2>3, <2>4, <2>5, <2>6, <2>7, <2>8, <2>9 DEF Work
  <1>4. ASSUME NEW e \in EventIds, BecomeDue(e) PROVE SequenceInv'
        BY <1>4, <1>0 DEF BecomeDue
  <1>5. ASSUME Environment PROVE SequenceInv'
    <2>1. ASSUME NEW e \in EventIds, Enqueue(e) \/ Replay(e) PROVE SequenceInv'
          BY <2>1, <1>0 DEF Enqueue, Replay
    <2>2. ASSUME NEW n \in Entities, SetEntityEnabled(n) PROVE SequenceInv'
          BY <2>2, <1>0 DEF SetEntityEnabled
    <2>3. ASSUME NEW w \in Workers, EmptyPass(w) PROVE SequenceInv'
          BY <2>3, <1>0 DEF EmptyPass, vars
    <2>4. ASSUME NEW w \in Workers, Crash(w) PROVE SequenceInv'
          BY <2>4, <1>2 DEF Crash
    <2>5. ASSUME NEW w \in Workers, NEW e \in EventIds, Quarantine(w, e)
          PROVE  SequenceInv'
          BY <2>5, SequenceFinish DEF Quarantine, FinishEvent
    <2>6. ASSUME NEW w \in Workers, NEW e \in EventIds, FailEvent(w, e)
          PROVE  SequenceInv'
          BY <2>6, <1>1 DEF FailEvent
    <2> QED  BY <1>5, <2>1, <2>2, <2>3, <2>4, <2>5, <2>6 DEF Environment
  <1>6. CASE UNCHANGED vars
        BY <1>6, <1>0 DEF vars
  <1> QED  BY <1>3, <1>4, <1>5, <1>6 DEF Next

-----------------------------------------------------------------------------
(* Theorems *)

\* The conjunction is inductive.
THEOREM Inductive == Spec => []IInv
  <1>1. Init => IInv
        BY TypeInit, OutboxInit, SequenceInit DEF IInv
  <1>2. IInv /\ [Next]_vars => IInv'
        BY TypeStep, OutboxStep, SequenceStep DEF IInv
  <1> QED  BY <1>1, <1>2, PTL DEF Spec

\* Every variable keeps its type; in particular no committed row ever shows
\* "processing" and no attempts counter passes MaxAttempts.
THEOREM TypeCorrect == Spec => []TypeOK
  BY Inductive, PTL DEF IInv

\* However many workers claim, an event is in one open batch at most.
THEOREM OneWorkerPerEvent == Spec => []LockExclusion
  BY Inductive, PTL DEF IInv, OutboxInv

\* What an open batch holds of the central database, events and allocated ids,
\* no other batch holds.
THEOREM BatchesAreApart == Spec => []BatchesApart
  <1>1. IInv => BatchesApart
    <2> SUFFICES ASSUME IInv PROVE AllocatedIdsDistinct
        BY DEF IInv, OutboxInv, BatchesApart
    <2>1. \A w, x \in Workers : \A t \in Tables :
             w # x /\ Kind[t] = "app" => ~(how[w][t] = "insert" /\ how[x][t] = "insert")
          BY DEF IInv, SequenceInv
    <2> QED  BY <2>1 DEF AllocatedIdsDistinct
  <1> QED  BY <1>1, Inductive, PTL

\* The quarantine table and the status column never disagree.
THEOREM QuarantineAgrees == Spec => []QuarantineMatches
  BY Inductive, PTL DEF IInv, OutboxInv

\* Retries end: the status column and the attempts counter agree on how many
\* tries an event has left.
THEOREM RetriesBounded == Spec => []AttemptsBounded
  BY Inductive, PTL DEF IInv, OutboxInv

\* The audit trail accounts for every attempt since the last replay.
THEOREM AuditComplete == Spec => []AuditExplainsAttempts
  BY Inductive, PTL DEF IInv, OutboxInv

\* Outbox, quarantine and audit trail agree with each other.
THEOREM OutboxRowsAgree == Spec => []OutboxRows
  <1>1. IInv => OutboxRows
        BY DEF IInv, OutboxInv, OutboxRows
  <1> QED  BY <1>1, Inductive, PTL

\* No event is marked delivered before the target has committed it.
THEOREM EnvelopeFirst == Spec => []DeliveredHasEnvelope
  BY Inductive, PTL DEF IInv, OutboxInv

-----------------------------------------------------------------------------
(* The worker implements the outbox *)

\* A committed batch is one Settle of the events it held.
LEMMA CommitBatchSettles ==
  ASSUME TypeOK, OutboxInv, NEW w \in Workers, CommitBatch(w)
  PROVE  OutboxView!Next
  <1> DEFINE tx  == txStatus[w]
             S   == {e \in EventIds : tx[e] # "none"}
             out == [e \in S |-> tx[e]]
  <1>1. \A e \in EventIds : tx[e] # "processing" /\ tx[e] \in TxStatus
        BY DEF OutboxInv, LockExclusion, CommitBatch, TypeOK
  <1>2. out \in [S -> {"delivered", "quarantined", "dead_letter", "retry"}]
        BY <1>1 DEF TxStatus, Terminal
  <1>3. \A e \in S : status[e] \in {"pending", "retry"} /\ out[e] \in OutboxView!Outcomes(e)
    <2> SUFFICES ASSUME NEW e \in S
                 PROVE  status[e] \in {"pending", "retry"} /\ out[e] \in OutboxView!Outcomes(e)
        OBVIOUS
    <2>1. /\ status[e] \in Claimable
          /\ tx[e] = "retry" => attempts[e] + 1 < MaxAttempts
          /\ tx[e] = "dead_letter" => attempts[e] + 1 = MaxAttempts
          BY DEF OutboxInv, TxClaimed
    <2>2. out[e] \in {"delivered", "quarantined", "dead_letter", "retry"}
          BY <1>2
    <2>3. attempts[e] \in Nat
          BY DEF TypeOK
    <2> QED  BY <2>1, <2>2, <2>3, BoundsAssumption DEF OutboxView!Outcomes, Claimable
  <1>4. status' = [e \in EventIds |-> IF e \in S THEN out[e] ELSE status[e]]
        BY DEF CommitBatch
  <1>5. attempts' = [e \in EventIds |->
            IF e \in S /\ out[e] # "quarantined" THEN attempts[e] + 1 ELSE attempts[e]]
        BY <1>1 DEF CommitBatch, TxStatus, Terminal
  <1>6. quarantine' = quarantine \cup {e \in S : out[e] = "quarantined"}
        BY DEF CommitBatch
  <1>7. audit' = [e \in EventIds |->
            IF e \in S /\ out[e] # "quarantined"
            THEN Append(audit[e], IF out[e] = "delivered" THEN "accepted"
                                  ELSE "transport_error")
            ELSE audit[e]]
    <2>1. ASSUME NEW e \in EventIds
          PROVE  audit[e] \o AuditEntry(tx[e]) =
                    IF e \in S /\ out[e] # "quarantined"
                    THEN Append(audit[e], IF out[e] = "delivered" THEN "accepted"
                                          ELSE "transport_error")
                    ELSE audit[e]
      <3>1. audit[e] \in Seq(Outcome) /\ tx[e] \in TxStatus /\ tx[e] # "processing"
            BY <1>1 DEF TypeOK
      <3>2. e \in S <=> tx[e] # "none"
            OBVIOUS
      <3>3. e \in S => out[e] = tx[e]
            OBVIOUS
      <3> HIDE DEF S, out
      <3>4. CASE tx[e] = "delivered"
            BY <3>1, <3>2, <3>3, <3>4, AuditDelivered
      <3>5. CASE tx[e] \in {"retry", "dead_letter"}
            BY <3>1, <3>2, <3>3, <3>5, AuditFailed
      <3>6. CASE tx[e] \in {"none", "quarantined"}
            BY <3>1, <3>2, <3>3, <3>6, AuditNone
      <3> QED  BY <3>1, <3>4, <3>5, <3>6 DEF TxStatus, Terminal
    <2> HIDE DEF S, out
    <2> QED  BY <2>1 DEF CommitBatch
  <1>8. OutboxView!Settle(S, out)
        BY <1>3, <1>4, <1>5, <1>6, <1>7 DEF OutboxView!Settle
  <1>9. S \in SUBSET EventIds
        OBVIOUS
  <1> HIDE DEF S, out
  <1> QED  BY <1>2, <1>8, <1>9 DEF OutboxView!Next

\* Every step of the workers is a step of the abstract outbox or a stutter.
LEMMA RefinementStep ==
  TypeOK /\ OutboxInv /\ [Next]_vars => [OutboxView!Next]_(OutboxView!vars)
  <1> SUFFICES ASSUME TypeOK, OutboxInv, [Next]_vars
               PROVE  OutboxView!Next \/ UNCHANGED <<status, attempts, quarantine, audit>>
      BY DEF OutboxView!vars
  <1>1. ASSUME NEW w \in Workers, Work(w)
        PROVE  OutboxView!Next \/ UNCHANGED <<status, attempts, quarantine, audit>>
    <2>1. CASE CommitBatch(w)
          BY <2>1, CommitBatchSettles
    <2>2. ASSUME NEW B \in SUBSET EventIds, Claim(w, B)
          PROVE  UNCHANGED <<status, attempts, quarantine, audit>>
          BY <2>2 DEF Claim
    <2>3. ASSUME NEW e \in EventIds,
                 \/ UpdateRow(w, e)
                 \/ InsertAuto(w, e)
                 \/ \E row \in UNION {target[t] : t \in Tables} : MatchRow(w, e, row)
                 \/ InsertApp(w, e)
                 \/ ResolveReference(w, e)
                 \/ RecordCrosswalk(w, e)
                 \/ CommitEvent(w, e)
          PROVE  UNCHANGED <<status, attempts, quarantine, audit>>
          BY <2>3 DEF UpdateRow, InsertAuto, MatchRow, InsertApp, ResolveReference,
                      RecordCrosswalk, CommitEvent
    <2>4. ASSUME NEW e \in EventIds,
                 \/ LockTimeout(w, e) \/ ForeignKeyError(w, e)
                 \/ KeysExhausted(w, e) \/ DuplicateKey(w, e)
          PROVE  UNCHANGED <<status, attempts, quarantine, audit>>
          BY <2>4 DEF LockTimeout, ForeignKeyError, KeysExhausted, DuplicateKey, Fail
    <2>5. CASE DeadlockVictim(w)
          BY <2>5 DEF DeadlockVictim, LoseBatch
    <2> QED  BY <1>1, <2>1, <2>2, <2>3, <2>4, <2>5 DEF Work
  <1>2. ASSUME NEW e \in EventIds, Enqueue(e) PROVE OutboxView!Next
        BY <1>2 DEF Enqueue, OutboxView!Next, OutboxView!Enqueue
  <1>3. ASSUME NEW e \in EventIds, Replay(e) PROVE OutboxView!Next
        BY <1>3 DEF Replay, Terminal, OutboxView!Next, OutboxView!Replay
  <1>4. ASSUME Environment
        PROVE  OutboxView!Next \/ UNCHANGED <<status, attempts, quarantine, audit>>
        BY <1>2, <1>3, <1>4
        DEF Environment, SetEntityEnabled, EmptyPass, vars, Crash, LoseBatch, Quarantine,
            FailEvent, Fail
  <1>5. ASSUME NEW e \in EventIds, BecomeDue(e)
        PROVE  UNCHANGED <<status, attempts, quarantine, audit>>
        BY <1>5 DEF BecomeDue
  <1>6. CASE UNCHANGED vars
        BY <1>6 DEF vars
  <1> QED  BY <1>1, <1>4, <1>5, <1>6 DEF Next

\* Seen through the committed rows of the central database, the workers behave
\* as the abstract outbox does.
THEOREM Refinement == Spec => ImplementsOutbox
  <1>1. Init => OutboxView!Init
        BY DEF Init, OutboxView!Init
  <1>2. IInv /\ [Next]_vars => [OutboxView!Next]_(OutboxView!vars)
        BY RefinementStep DEF IInv
  <1> QED  BY <1>1, <1>2, Inductive, PTL DEF Spec, ImplementsOutbox, OutboxView!Spec

-----------------------------------------------------------------------------
(* The rows in the target *)

Generated(t) == Kind[t] = "auto"

\* The row id of table t was made for source row r.
HasKey(r, t, id) == \E row \in target[t] : row.id = id /\ row.ref = r

\* The crosswalk says so, or will once a batch commits.
Recorded(r, t, id) == crosswalk[r][t] = id \/ \E w \in Workers : txXw[w][r][t] = id

\* A worker is about to insert it.
Drawn(r, t, id) ==
    \E w \in Workers, e \in EventIds :
        IsCurrent(w, e) /\ RefOf[e] = r /\ how[w][t] = "insert" /\ ids[w][t] = id

Names(r, t, id) == HasKey(r, t, id) \/ Recorded(r, t, id) \/ Drawn(r, t, id)

\* A generated key names a row of one source row, and was drawn before.
KeysAt(t) ==
    /\ \A r \in Refs, id \in Nat : id # 0 /\ Names(r, t, id) => id =< nextId[t]
    /\ \A r, q \in Refs, id \in Nat : id # 0 /\ Names(r, t, id) /\ Names(q, t, id) => r = q
    /\ \A row \in target[t] : row.id # 0

KeysInv == \A t \in Tables : Generated(t) => KeysAt(t)

\* What a worker has written of its event: the tables behind it are inserted or
\* updated, and what is updated is a row of the same source row.
WriteAt(w, t) ==
    /\ pc[w] = "idle" => pos[w] = 1 /\ how[w][t] = "none"
    /\ Generated(t) => \A e \in EventIds : IsCurrent(w, e) =>
          /\ t < pos[w] => how[w][t] \in {"insert", "update"}
          /\ t = pos[w] /\ pc[w] = "record" => how[w][t] = "insert"
          /\ how[w][t] = "insert" => ids[w][t] # 0
          /\ how[w][t] = "update" => HasKey(RefOf[e], t, ids[w][t])

WriteInv == \A w \in Workers, t \in Tables : WriteAt(w, t)

\* An event that is delivered, or will be once a batch commits.
Settles(e) == status[e] = "delivered" \/ \E w \in Workers : txStatus[w][e] = "delivered"

DeliveredInv ==
    /\ \A e \in EventIds, t \in Tables : Settles(e) /\ Generated(t) => HasRow(RefOf[e], t)
    /\ FanOutWhole

RowsInv == KeysInv /\ WriteInv /\ DeliveredInv

\* The next event of source row r would find its row of table t.
Leads(w, r, t) == HasKey(r, t, CrosswalkLookup(w, r, t))

FoundAt(w, t) ==
    /\ \A r \in Refs : HasKey(r, t, crosswalk[r][t]) => Leads(w, r, t)
    /\ \A e \in EventIds :
          /\ status[e] = "delivered" => HasKey(RefOf[e], t, crosswalk[RefOf[e]][t])
          /\ txStatus[w][e] = "delivered" => Leads(w, RefOf[e], t)
          /\ IsCurrent(w, e) =>
                /\ t < pos[w] /\ how[w][t] = "insert" => ids[w][t] = txXw[w][RefOf[e]][t]
                /\ t < pos[w] /\ how[w][t] = "update" => Leads(w, RefOf[e], t)
                /\ t = pos[w] /\ pc[w] = "record" => ~Leads(w, RefOf[e], t)
                /\ how[w][t] = "insert" => \A row \in target[t] : row.id # ids[w][t]
    /\ \A a, b \in target[t] : a.id = b.id => a = b
    /\ crashes = 0 => \A row \in target[t] : row.id = CrosswalkLookup(w, row.ref, t)

FoundInv == \A w \in Workers, t \in Tables : Generated(t) => FoundAt(w, t)

OneWorker == \E w : Workers = {w}

-----------------------------------------------------------------------------
(* What a step does *)

Same(x) ==
    /\ pc'[x] = pc[x] /\ todo'[x] = todo[x] /\ pos'[x] = pos[x]
    /\ ids'[x] = ids[x] /\ how'[x] = how[x]
    /\ txXw'[x] = txXw[x] /\ txStatus'[x] = txStatus[x]

Others(w) == \A x \in Workers : x # w => Same(x)

RowsStay == UNCHANGED <<target, crosswalk, crashes>>

\* A step that touches neither the rows nor what the workers have open.
Rests ==
    /\ \A x \in Workers : Same(x)
    /\ RowsStay /\ nextId' = nextId
    /\ \A e \in EventIds : status'[e] = "delivered" => status[e] = "delivered"

Claims(w) ==
    /\ pc[w] = "idle" /\ pc'[w] = "write" /\ Others(w)
    /\ RowsStay /\ UNCHANGED <<nextId, status, pos, ids, how, txXw>>
    /\ \A e \in EventIds : txStatus'[w][e] # "delivered"

\* The write of one table: an update, an insert that draws a key, or a table whose
\* keys are not generated.
Writes(w, e) ==
    LET t  == pos[w]
        id == CrosswalkLookup(w, RefOf[e], t)
    IN  /\ pc[w] = "write" /\ IsCurrent(w, e) /\ t \in Tables /\ Others(w)
        /\ todo'[w] = todo[w] /\ txXw'[w] = txXw[w] /\ txStatus'[w] = txStatus[w]
        /\ RowsStay /\ status' = status
        /\ \A s \in Tables : s # t =>
              ids'[w][s] = ids[w][s] /\ how'[w][s] = how[w][s] /\ nextId'[s] = nextId[s]
        /\ \/ /\ id # 0 /\ RowExists(t, id)
              /\ ids'[w][t] = id /\ how'[w][t] = "update" /\ nextId'[t] = nextId[t]
              /\ pc'[w] = "write" /\ pos'[w] = t + 1
           \/ /\ id = 0 \/ ~RowExists(t, id)
              /\ nextId'[t] = nextId[t] + 1
              /\ ids'[w][t] = nextId[t] + 1 /\ how'[w][t] = "insert"
              /\ pc'[w] = "record" /\ pos'[w] = t
           \/ /\ ~Generated(t) /\ nextId'[t] = nextId[t]
              /\ \/ pc'[w] = "record" /\ pos'[w] = t
                 \/ pc'[w] = "write" /\ pos'[w] = t + 1

Records(w, e) ==
    /\ pc[w] = "record" /\ IsCurrent(w, e) /\ pos[w] \in Tables /\ Others(w)
    /\ pc'[w] = "write" /\ pos'[w] = pos[w] + 1
    /\ todo'[w] = todo[w] /\ ids'[w] = ids[w] /\ how'[w] = how[w]
    /\ txStatus'[w] = txStatus[w]
    /\ \A r \in Refs, t \in Tables :
          txXw'[w][r][t] = IF r = RefOf[e] /\ t = pos[w] THEN ids[w][t] ELSE txXw[w][r][t]
    /\ RowsStay /\ UNCHANGED <<nextId, status>>

\* The event is over; only one that is delivered commits rows.
Finishes(w, e) ==
    /\ IsCurrent(w, e) /\ pc'[w] = "write" /\ pos'[w] = 1 /\ Others(w)
    /\ \A t \in Tables : how'[w][t] = "none"
    /\ txXw'[w] = txXw[w] /\ UNCHANGED <<nextId, status, crosswalk, crashes>>
    /\ \/ /\ target' = target
          /\ \A f \in EventIds : txStatus'[w][f] = "delivered" => txStatus[w][f] = "delivered"
       \/ /\ pos[w] = NTables + 1 /\ \A t \in Tables : target'[t] = Written(w, e, t)
          /\ \A f \in EventIds : txStatus'[w][f] = "delivered" =>
                                    f = e \/ txStatus[w][f] = "delivered"

\* The batch is over.
Releases(w) ==
    /\ pc'[w] = "idle" /\ pos'[w] = 1 /\ todo'[w] = {} /\ Others(w)
    /\ \A t \in Tables : how'[w][t] = "none"
    /\ \A r \in Refs, t \in Tables : txXw'[w][r][t] = 0
    /\ \A e \in EventIds : txStatus'[w][e] = "none"
    /\ UNCHANGED <<target, nextId>>

Batches(w) ==
    /\ Releases(w) /\ crashes' = crashes
    /\ \A r \in Refs, t \in Tables : crosswalk'[r][t] = CrosswalkLookup(w, r, t)
    /\ \A e \in EventIds : status'[e] = "delivered" =>
                              status[e] = "delivered" \/ txStatus[w][e] = "delivered"

Loses(w) ==
    /\ Releases(w) /\ UNCHANGED <<crosswalk, status>>
    /\ crashes' = crashes + 1 \/ (crashes' = crashes /\ \E x \in Workers : x # w)

\* A step on the write state of one worker leaves the others' alone.
LEMMA WroteEffect ==
    ASSUME TypeOK, NEW w \in Workers, NEW id, NEW k, pos[w] \in Tables, Wrote(w, id, k)
    PROVE  /\ ids'[w][pos[w]] = id /\ how'[w][pos[w]] = k
           /\ \A s \in Tables : s # pos[w] =>
                 ids'[w][s] = ids[w][s] /\ how'[w][s] = how[w][s]
           /\ \A x \in Workers : x # w => ids'[x] = ids[x] /\ how'[x] = how[x]
BY DEF TypeOK, Wrote

LEMMA FinishEffect ==
    ASSUME TypeOK, NEW w \in Workers, NEW e \in EventIds, NEW s, FinishEvent(w, e, s),
           txXw' = txXw
    PROVE  /\ pc'[w] = "write" /\ pos'[w] = 1 /\ Others(w)
           /\ \A t \in Tables : how'[w][t] = "none"
           /\ \A f \in EventIds : txStatus'[w][f] = "delivered" =>
                 txStatus[w][f] = "delivered" \/ (f = e /\ s = "delivered")
<1>1. /\ pc'[w] = "write" /\ pos'[w] = 1 /\ how'[w] = NoWrites
      /\ \A x \in Workers : x # w =>
            /\ pc'[x] = pc[x] /\ todo'[x] = todo[x] /\ pos'[x] = pos[x]
            /\ ids'[x] = ids[x] /\ how'[x] = how[x] /\ txStatus'[x] = txStatus[x]
  BY DEF TypeOK, FinishEvent
<1>2. \A f \in EventIds : txStatus'[w][f] = IF f = e THEN s ELSE txStatus[w][f]
  BY DEF TypeOK, FinishEvent
<1>3. QED
  BY <1>1, <1>2 DEF Others, Same, NoWrites

LEMMA ReleaseEffect ==
    ASSUME TypeOK, NEW w \in Workers, Release(w), UNCHANGED <<target, nextId>>
    PROVE  Releases(w)
<1>1. /\ pc'[w] = "idle" /\ pos'[w] = 1 /\ todo'[w] = {} /\ how'[w] = NoWrites
      /\ txXw'[w] = NoXw /\ txStatus'[w] = NoStatus
  BY DEF TypeOK, Release
<1>2. Others(w)
  BY DEF TypeOK, Release, Others, Same
<1>3. QED
  BY <1>1, <1>2 DEF Releases, NoWrites, NoXw, NoStatus

LEMMA FailIs ==
    ASSUME TypeOK, NEW w \in Workers, NEW e \in EventIds, Fail(w, e)
    PROVE  Finishes(w, e)
<1>1. RetryOrDeadLetter(e) # "delivered"
  BY DEF RetryOrDeadLetter
<1>2. QED
  BY <1>1, FinishEffect DEF Fail, Finishes

LEMMA WriterIs ==
    ASSUME TypeOK, LegacyWriter, NEW w \in Workers, NEW e \in EventIds,
           \/ UpdateRow(w, e) \/ InsertAuto(w, e) \/ InsertApp(w, e) \/ ResolveReference(w, e)
           \/ \E row \in UNION {target[t] : t \in Tables} : MatchRow(w, e, row)
    PROVE  Writes(w, e)
<1>1. /\ pc[w] = "write" /\ IsCurrent(w, e) /\ pos[w] \in Tables
      /\ todo' = todo /\ txXw' = txXw /\ txStatus' = txStatus /\ status' = status
      /\ RowsStay
  BY DEF UpdateRow, InsertAuto, InsertApp, ResolveReference, MatchRow, AtTable, RowsStay
<1>2. PICK id, k : Wrote(w, id, k)
  BY DEF UpdateRow, InsertAuto, InsertApp, ResolveReference, MatchRow
<1>3. /\ \A s \in Tables : s # pos[w] =>
            ids'[w][s] = ids[w][s] /\ how'[w][s] = how[w][s]
      /\ \A x \in Workers : x # w => ids'[x] = ids[x] /\ how'[x] = how[x]
  BY <1>1, <1>2, WroteEffect
<1>4. CASE UpdateRow(w, e)
  <2>1. /\ CrosswalkLookup(w, RefOf[e], pos[w]) # 0
        /\ RowExists(pos[w], CrosswalkLookup(w, RefOf[e], pos[w]))
        /\ Wrote(w, CrosswalkLookup(w, RefOf[e], pos[w]), "update")
        /\ pos' = [pos EXCEPT ![w] = pos[w] + 1] /\ pc' = pc /\ nextId' = nextId
    BY <1>4 DEF UpdateRow, TakesFastPath
  <2>2. /\ ids'[w][pos[w]] = CrosswalkLookup(w, RefOf[e], pos[w]) /\ how'[w][pos[w]] = "update"
    BY <1>1, <2>1, WroteEffect
  <2>3. pos'[w] = pos[w] + 1 /\ \A x \in Workers : x # w => pos'[x] = pos[x]
    BY <2>1 DEF TypeOK
  <2>4. Others(w)
    BY <1>1, <1>3, <2>1, <2>3 DEF Others, Same
  <2>5. QED
    BY <1>1, <1>3, <2>1, <2>2, <2>3, <2>4 DEF Writes
<1>5. CASE InsertAuto(w, e)
  <2>1. /\ ~TakesFastPath(w, RefOf[e], pos[w])
        /\ Wrote(w, nextId[pos[w]] + 1, "insert")
        /\ pc' = [pc EXCEPT ![w] = "record"] /\ pos' = pos
        /\ nextId' = [nextId EXCEPT ![pos[w]] = @ + 1]
    BY <1>5 DEF InsertAuto
  <2>2. ids'[w][pos[w]] = nextId[pos[w]] + 1 /\ how'[w][pos[w]] = "insert"
    BY <1>1, <2>1, WroteEffect
  <2>3. /\ pc'[w] = "record" /\ \A x \in Workers : x # w => pc'[x] = pc[x]
        /\ nextId'[pos[w]] = nextId[pos[w]] + 1
        /\ \A s \in Tables : s # pos[w] => nextId'[s] = nextId[s]
    BY <1>1, <2>1 DEF TypeOK
  <2>4. Others(w)
    BY <1>1, <1>3, <2>1, <2>3 DEF Others, Same
  <2>5. \/ CrosswalkLookup(w, RefOf[e], pos[w]) = 0
        \/ ~RowExists(pos[w], CrosswalkLookup(w, RefOf[e], pos[w]))
    BY <2>1 DEF TakesFastPath
  <2>6. QED
    BY <1>1, <1>3, <2>1, <2>2, <2>3, <2>4, <2>5 DEF Writes
<1>6. CASE \/ InsertApp(w, e) \/ ResolveReference(w, e)
           \/ \E row \in UNION {target[t] : t \in Tables} : MatchRow(w, e, row)
  <2>1. /\ ~Generated(pos[w]) /\ nextId' = nextId
        /\ \/ pc' = [pc EXCEPT ![w] = "record"] /\ pos' = pos
           \/ pc' = pc /\ pos' = [pos EXCEPT ![w] = pos[w] + 1]
    BY <1>6 DEF InsertApp, ResolveReference, MatchRow, AtTable, Generated
  <2>2. /\ \/ pc'[w] = "record" /\ pos'[w] = pos[w]
           \/ pc'[w] = "write" /\ pos'[w] = pos[w] + 1
        /\ \A x \in Workers : x # w => pc'[x] = pc[x] /\ pos'[x] = pos[x]
    BY <1>1, <2>1 DEF TypeOK
  <2>3. Others(w)
    BY <1>1, <1>3, <2>2 DEF Others, Same
  <2>4. QED
    BY <1>1, <1>3, <2>1, <2>2, <2>3 DEF Writes
<1>7. QED
  BY <1>4, <1>5, <1>6

\* A step of the system is one of these.
LEMMA RowStepIs ==
    ASSUME TypeOK, LegacyWriter, [Next]_vars
    PROVE  \/ Rests
           \/ \E w \in Workers :
                 \/ Claims(w) \/ Batches(w) \/ Loses(w)
                 \/ \E e \in EventIds : Writes(w, e) \/ Records(w, e) \/ Finishes(w, e)
<1>1. CASE UNCHANGED vars
  BY <1>1 DEF vars, Rests, Same, RowsStay
<1>2. ASSUME NEW e \in EventIds, Enqueue(e) \/ Replay(e) \/ BecomeDue(e) PROVE Rests
  BY <1>2 DEF Enqueue, Replay, BecomeDue, TypeOK, Rests, Same, RowsStay
<1>3. ASSUME NEW n \in Entities, SetEntityEnabled(n) PROVE Rests
  BY <1>3 DEF SetEntityEnabled, Rests, Same, RowsStay
<1>4. ASSUME NEW w \in Workers, NEW B \in SUBSET EventIds, Claim(w, B) PROVE Claims(w)
  BY <1>4 DEF Claim, TypeOK, Claims, Others, Same, RowsStay
<1>5. ASSUME NEW w \in Workers, NEW e \in EventIds,
             \/ LockTimeout(w, e) \/ ForeignKeyError(w, e) \/ KeysExhausted(w, e)
             \/ DuplicateKey(w, e) \/ FailEvent(w, e)
      PROVE  Finishes(w, e)
  BY <1>5, FailIs DEF LockTimeout, ForeignKeyError, KeysExhausted, DuplicateKey, FailEvent
<1>6. ASSUME NEW w \in Workers, NEW e \in EventIds, Quarantine(w, e) PROVE Finishes(w, e)
  BY <1>6, FinishEffect DEF Quarantine, Finishes
<1>7. ASSUME NEW w \in Workers, NEW e \in EventIds, CommitEvent(w, e) PROVE Finishes(w, e)
  <2>1. \A t \in Tables : target'[t] = Written(w, e, t)
    BY <1>7 DEF CommitEvent
  <2>2. QED
    BY <1>7, <2>1, FinishEffect DEF CommitEvent, Finishes
<1>8. ASSUME NEW w \in Workers, NEW e \in EventIds, RecordCrosswalk(w, e) PROVE Records(w, e)
  <2>1. RefOf[e] \in Refs
    BY RefOfType
  <2>2. /\ \A r \in Refs, t \in Tables :
              txXw'[w][r][t] = IF r = RefOf[e] /\ t = pos[w] THEN ids[w][t] ELSE txXw[w][r][t]
        /\ \A x \in Workers : x # w => txXw'[x] = txXw[x]
    <3>1. /\ txXw \in [Workers -> [Refs -> [Tables -> Nat]]] /\ pos[w] \in Tables
          /\ txXw' = [txXw EXCEPT ![w][RefOf[e]][pos[w]] = ids[w][pos[w]]]
      BY <1>8 DEF RecordCrosswalk, TypeOK
    <3>2. /\ txXw'[w] = [txXw[w] EXCEPT ![RefOf[e]][pos[w]] = ids[w][pos[w]]]
          /\ \A x \in Workers : x # w => txXw'[x] = txXw[x]
      BY <3>1
    <3>3. /\ txXw'[w][RefOf[e]] = [txXw[w][RefOf[e]] EXCEPT ![pos[w]] = ids[w][pos[w]]]
          /\ \A r \in Refs : r # RefOf[e] => txXw'[w][r] = txXw[w][r]
      BY <2>1, <3>1, <3>2
    <3>4. \A t \in Tables : txXw'[w][RefOf[e]][t] =
                             IF t = pos[w] THEN ids[w][t] ELSE txXw[w][RefOf[e]][t]
      BY <2>1, <3>1, <3>3
    <3>5. QED
      BY <3>2, <3>3, <3>4
  <2>3. /\ pc'[w] = "write" /\ pos'[w] = pos[w] + 1
        /\ \A x \in Workers : x # w => pc'[x] = pc[x] /\ pos'[x] = pos[x]
    BY <1>8 DEF RecordCrosswalk, TypeOK
  <2>4. QED
    BY <1>8, <2>2, <2>3 DEF RecordCrosswalk, Records, Others, Same, RowsStay
<1>9. ASSUME NEW w \in Workers, CommitBatch(w) PROVE Batches(w)
  <2>1. /\ \A r \in Refs, t \in Tables : crosswalk'[r][t] = CrosswalkLookup(w, r, t)
        /\ \A e \in EventIds : status'[e] = "delivered" =>
                                  status[e] = "delivered" \/ txStatus[w][e] = "delivered"
    BY <1>9 DEF CommitBatch
  <2>2. QED
    BY <1>9, <2>1, ReleaseEffect DEF CommitBatch, Batches
<1>10. ASSUME NEW w \in Workers, Crash(w) \/ DeadlockVictim(w) PROVE Loses(w)
  <2>1. Releases(w) /\ UNCHANGED <<crosswalk, status>>
    BY <1>10, ReleaseEffect DEF Crash, DeadlockVictim, LoseBatch
  <2>2. crashes' = crashes + 1 \/ (crashes' = crashes /\ \E x \in Workers : x # w)
    BY <1>10 DEF Crash, DeadlockVictim
  <2>3. QED
    BY <2>1, <2>2 DEF Loses
<1>11. QED
  BY <1>1, <1>2, <1>3, <1>4, <1>5, <1>6, <1>7, <1>8, <1>9, <1>10, WriterIs
  DEF Next, Work, Environment, EmptyPass

-----------------------------------------------------------------------------
(* The rows of the target *)

\* One event at a time is the one a worker is on.
LEMMA CurrentIsOne ==
    ASSUME NEW w \in Workers, NEW e \in EventIds, NEW f \in EventIds,
           IsCurrent(w, e), IsCurrent(w, f)
    PROVE  e = f
BY DEF IsCurrent, EventIds

\* What a worker that is left alone is on.
LEMMA CurrentStays ==
    ASSUME NEW x \in Workers, NEW e, todo'[x] = todo[x]
    PROVE  IsCurrent(x, e)' <=> IsCurrent(x, e)
BY DEF IsCurrent

\* What a commit does to the rows of a table.
LEMMA WrittenRows ==
    ASSUME TypeOK, NEW w \in Workers, NEW e \in EventIds, NEW t \in Tables,
           target'[t] = Written(w, e, t)
    PROVE  /\ \A a \in target[t] : \E b \in target'[t] : b.id = a.id /\ b.ref = a.ref
           /\ \A b \in target'[t] :
                 \/ \E a \in target[t] : a.id = b.id /\ a.ref = b.ref
                 \/ how[w][t] = "insert" /\ b.id = ids[w][t] /\ b.ref = RefOf[e]
           /\ how[w][t] = "insert" =>
                 \E b \in target'[t] : b.id = ids[w][t] /\ b.ref = RefOf[e]
<1>1. target[t] \subseteq Row
  BY DEF TypeOK
<1>2. DEFINE new == [id |-> ids[w][t], ref |-> RefOf[e], ev |-> e, fk |-> ParentId(w, t)]
<1>3. CASE how[w][t] = "insert"
  <2>1. target'[t] = target[t] \cup {new}
    BY <1>3 DEF Written
  <2>2. new.id = ids[w][t] /\ new.ref = RefOf[e]
    OBVIOUS
  <2> HIDE DEF new
  <2>3. QED
    BY <1>3, <2>1, <2>2
<1>4. CASE how[w][t] = "update"
  <2>1. DEFINE upd(row) == IF row.id = ids[w][t]
                           THEN [row EXCEPT !.ev = e, !.fk = ParentId(w, t)] ELSE row
  <2>2. target'[t] = {upd(row) : row \in target[t]}
    BY <1>4 DEF Written
  <2>3. ASSUME NEW row \in target[t] PROVE upd(row).id = row.id /\ upd(row).ref = row.ref
    BY <1>1 DEF Row
  <2> HIDE DEF upd
  <2>4. QED
    BY <1>4, <2>2, <2>3
<1>5. CASE how[w][t] \notin {"insert", "update"}
  BY <1>5 DEF Written
<1>6. QED
  BY <1>3, <1>4, <1>5

\* No step takes a row away, or gives it to another source row; what is new was about
\* to be inserted.
LEMMA RowsPersist ==
    ASSUME TypeOK, LegacyWriter, [Next]_vars, NEW t \in Tables, NEW r, NEW id
    PROVE  /\ HasKey(r, t, id) => HasKey(r, t, id)'
           /\ HasRow(r, t) => HasRow(r, t)'
<1>1. \A a \in target[t] : \E b \in target'[t] : b.id = a.id /\ b.ref = a.ref
  <2>1. ASSUME NEW w \in Workers, NEW e \in EventIds, Finishes(w, e)
        PROVE  \A a \in target[t] : \E b \in target'[t] : b.id = a.id /\ b.ref = a.ref
    BY <2>1, WrittenRows DEF Finishes
  <2>2. CASE target' = target
    BY <2>2
  <2>3. QED
    BY <2>1, <2>2, RowStepIs DEF Rests, Claims, Writes, Records, Batches, Loses, Releases, RowsStay
<1>2. QED
  BY <1>1 DEF HasKey, HasRow

-----------------------------------------------------------------------------
(* A generated key names a row of one source row *)

LEMMA DrawnBy ==
    ASSUME NEW w \in Workers, Others(w), NEW r, NEW t, NEW id, Drawn(r, t, id)'
    PROVE  \/ Drawn(r, t, id)
           \/ \E e \in EventIds : /\ IsCurrent(w, e)' /\ RefOf[e] = r
                                  /\ how'[w][t] = "insert" /\ ids'[w][t] = id
<1>1. PICK x \in Workers, e \in EventIds :
          IsCurrent(x, e)' /\ RefOf[e] = r /\ how'[x][t] = "insert" /\ ids'[x][t] = id
  BY DEF Drawn
<1>2. CASE x = w
  BY <1>1, <1>2
<1>3. CASE x # w
  <2>1. Same(x)
    BY <1>3 DEF Others
  <2>2. IsCurrent(x, e)
    BY <1>1, <2>1, CurrentStays DEF Same
  <2>3. QED
    BY <1>1, <2>1, <2>2 DEF Drawn, Same
<1>4. QED
  BY <1>2, <1>3

LEMMA RecordedBy ==
    ASSUME NEW w \in Workers, Others(w), NEW r, NEW t, NEW id, Recorded(r, t, id)'
    PROVE  \/ Recorded(r, t, id) \/ crosswalk'[r][t] = id \/ txXw'[w][r][t] = id
BY DEF Recorded, Others, Same

LEMMA RecordedStays ==
    ASSUME NEW w \in Workers, Others(w), NEW r, NEW t, NEW id,
           crosswalk' = crosswalk, txXw'[w] = txXw[w], Recorded(r, t, id)'
    PROVE  Recorded(r, t, id)
BY DEF Recorded, Others, Same

\* Nothing is named that was not, but a key that is drawn.
LEMMA NamesStep ==
    ASSUME TypeOK, LegacyWriter, WriteInv, [Next]_vars,
           NEW t \in Tables, Generated(t), NEW r \in Refs, NEW id \in Nat, id # 0, Names(r, t, id)'
    PROVE  \/ Names(r, t, id)
           \/ \E w \in Workers, e \in EventIds :
                 /\ Writes(w, e) /\ pos[w] = t /\ r = RefOf[e]
                 /\ id = nextId[t] + 1 /\ nextId'[t] = nextId[t] + 1
<1>1. CASE Rests
  <2>1. HasKey(r, t, id)' => HasKey(r, t, id)
    BY <1>1 DEF Rests, RowsStay, HasKey
  <2>2. Recorded(r, t, id)' => Recorded(r, t, id)
    BY <1>1 DEF Rests, RowsStay, Recorded, Same
  <2>3. Drawn(r, t, id)' => Drawn(r, t, id)
    BY <1>1 DEF Rests, Drawn, Same, IsCurrent
  <2>4. QED
    BY <2>1, <2>2, <2>3 DEF Names
<1>2. ASSUME NEW w \in Workers, Claims(w) PROVE Names(r, t, id)
  <2>1. HasKey(r, t, id)' => HasKey(r, t, id)
    BY <1>2 DEF Claims, RowsStay, HasKey
  <2>2. Recorded(r, t, id)' => Recorded(r, t, id)
    BY <1>2 DEF Claims, RowsStay, Recorded
  <2>3. Drawn(r, t, id)' => Drawn(r, t, id)
    <3>1. how'[w][t] = "none"
      BY <1>2 DEF Claims, WriteInv, WriteAt
    <3>2. QED
      BY <1>2, <3>1, DrawnBy DEF Claims
  <2>4. QED
    BY <2>1, <2>2, <2>3 DEF Names
<1>3. ASSUME NEW w \in Workers, NEW e \in EventIds, Writes(w, e)
      PROVE  \/ Names(r, t, id)
             \/ pos[w] = t /\ r = RefOf[e] /\ id = nextId[t] + 1 /\ nextId'[t] = nextId[t] + 1
  <2>1. HasKey(r, t, id)' => HasKey(r, t, id)
    BY <1>3 DEF Writes, RowsStay, HasKey
  <2>2. Recorded(r, t, id)' => Recorded(r, t, id)
    BY <1>3, RecordedStays DEF Writes, RowsStay
  <2>3. ASSUME Drawn(r, t, id)', ~Drawn(r, t, id)
        PROVE  pos[w] = t /\ r = RefOf[e] /\ id = nextId[t] + 1 /\ nextId'[t] = nextId[t] + 1
    <3>1. PICK f \in EventIds : /\ IsCurrent(w, f)' /\ RefOf[f] = r
                                /\ how'[w][t] = "insert" /\ ids'[w][t] = id
      BY <1>3, <2>3, DrawnBy DEF Writes
    <3>2. IsCurrent(w, f) /\ IsCurrent(w, e)
      BY <1>3, <3>1, CurrentStays DEF Writes
    <3>3. f = e
      BY <3>2, CurrentIsOne
    <3>4. pos[w] = t
      BY <1>3, <2>3, <3>1, <3>2 DEF Writes, Drawn
    <3>5. QED
      BY <1>3, <3>1, <3>3, <3>4 DEF Writes
  <2>4. QED
    BY <2>1, <2>2, <2>3 DEF Names
<1>4. ASSUME NEW w \in Workers, NEW e \in EventIds, Records(w, e) PROVE Names(r, t, id)
  <2>1. HasKey(r, t, id)' => HasKey(r, t, id)
    BY <1>4 DEF Records, RowsStay, HasKey
  <2>2. Drawn(r, t, id)' => Drawn(r, t, id)
    <3>1. ASSUME NEW f \in EventIds, IsCurrent(w, f)', RefOf[f] = r, how'[w][t] = "insert",
                 ids'[w][t] = id
          PROVE  Drawn(r, t, id)
      BY <1>4, <3>1, CurrentStays DEF Records, Drawn
    <3>2. QED
      BY <1>4, <3>1, DrawnBy DEF Records
  <2>3. Recorded(r, t, id)' => Names(r, t, id)
    <3>1. ASSUME txXw'[w][r][t] = id PROVE Names(r, t, id)
      <4>1. CASE r = RefOf[e] /\ t = pos[w]
        <5>1. IsCurrent(w, e) /\ how[w][t] = "insert" /\ ids[w][t] = id
          BY <1>4, <3>1, <4>1 DEF Records, WriteInv, WriteAt
        <5>2. QED
          BY <4>1, <5>1 DEF Names, Drawn
      <4>2. CASE ~(r = RefOf[e] /\ t = pos[w])
        BY <1>4, <3>1, <4>2 DEF Records, Names, Recorded
      <4>3. QED
        BY <4>1, <4>2
    <3>2. crosswalk'[r][t] = id => Recorded(r, t, id)
      BY <1>4 DEF Records, RowsStay, Recorded
    <3>3. QED
      BY <1>4, <3>1, <3>2, RecordedBy DEF Records, Names
  <2>4. QED
    BY <2>1, <2>2, <2>3 DEF Names
<1>5. ASSUME NEW w \in Workers, NEW e \in EventIds, Finishes(w, e) PROVE Names(r, t, id)
  <2>1. HasKey(r, t, id)' => Names(r, t, id)
    <3>1. CASE target' = target
      BY <3>1 DEF HasKey, Names
    <3>2. CASE \A s \in Tables : target'[s] = Written(w, e, s)
      <4>1. \A b \in target'[t] :
                 \/ \E a \in target[t] : a.id = b.id /\ a.ref = b.ref
                 \/ how[w][t] = "insert" /\ b.id = ids[w][t] /\ b.ref = RefOf[e]
        BY <3>2, WrittenRows
      <4>2. IsCurrent(w, e)
        BY <1>5 DEF Finishes
      <4>3. QED
        BY <4>1, <4>2 DEF HasKey, Names, Drawn
    <3>3. QED
      BY <1>5, <3>1, <3>2 DEF Finishes
  <2>2. Recorded(r, t, id)' => Recorded(r, t, id)
    BY <1>5, RecordedStays DEF Finishes
  <2>3. Drawn(r, t, id)' => Drawn(r, t, id)
    BY <1>5, DrawnBy DEF Finishes
  <2>4. QED
    BY <2>1, <2>2, <2>3 DEF Names
<1>6. ASSUME NEW w \in Workers, Batches(w) \/ Loses(w) PROVE Names(r, t, id)
  <2>1. Releases(w)
    BY <1>6 DEF Batches, Loses
  <2>2. HasKey(r, t, id)' => HasKey(r, t, id)
    BY <2>1 DEF Releases, HasKey
  <2>3. Drawn(r, t, id)' => Drawn(r, t, id)
    BY <2>1, DrawnBy DEF Releases
  <2>4. crosswalk'[r][t] = id => Recorded(r, t, id)
    BY <1>6 DEF Batches, Loses, CrosswalkLookup, Recorded
  <2>5. txXw'[w][r][t] # id
    BY <2>1 DEF Releases
  <2>6. QED
    BY <2>1, <2>2, <2>3, <2>4, <2>5, RecordedBy DEF Releases, Names
<1>7. QED
  BY <1>1, <1>2, <1>3, <1>4, <1>5, <1>6, RowStepIs

LEMMA KeysStep ==
    ASSUME TypeOK, TypeOK', LegacyWriter, WriteInv, KeysInv, [Next]_vars
    PROVE  KeysInv'
<1> SUFFICES ASSUME NEW t \in Tables, Generated(t) PROVE KeysAt(t)'
  BY DEF KeysInv, Generated
<1>1. KeysAt(t) /\ nextId[t] \in Nat /\ nextId'[t] \in Nat
  BY DEF KeysInv, TypeOK
<1>2. nextId'[t] = nextId[t] \/ nextId'[t] = nextId[t] + 1
  BY RowStepIs DEF Rests, Claims, Writes, Records, Finishes, Batches, Loses, Releases
<1>3. ASSUME NEW r \in Refs, NEW id \in Nat, id # 0, Names(r, t, id)'
      PROVE  \/ Names(r, t, id) /\ id =< nextId[t]
             \/ id = nextId[t] + 1 /\ nextId'[t] = nextId[t] + 1
  BY <1>1, <1>3, NamesStep DEF KeysAt
<1>4. ASSUME NEW r \in Refs, NEW q \in Refs, NEW id \in Nat, id # 0,
             Names(r, t, id)', Names(q, t, id)'
      PROVE  r = q
  <2>1. CASE Names(r, t, id) /\ Names(q, t, id)
    BY <1>1, <1>4, <2>1 DEF KeysAt
  <2>2. CASE ~Names(r, t, id) \/ ~Names(q, t, id)
    <3>1. id = nextId[t] + 1
      BY <1>3, <1>4, <2>2
    <3>2. ~Names(r, t, id) /\ ~Names(q, t, id)
      BY <1>1, <1>4, <3>1 DEF KeysAt
    <3>3. PICK w \in Workers, e \in EventIds : Writes(w, e) /\ pos[w] = t /\ r = RefOf[e]
      BY <1>4, <3>2, NamesStep
    <3>4. PICK x \in Workers, f \in EventIds :
              Writes(x, f) /\ pos[x] = t /\ q = RefOf[f] /\ nextId'[t] = nextId[t] + 1
      BY <1>4, <3>2, NamesStep
    <3>5. CASE x = w
      BY <3>3, <3>4, <3>5, CurrentIsOne DEF Writes
    <3>6. CASE x # w
      <4>1. Same(x) /\ pc[x] = "write"
        BY <3>3, <3>4, <3>6 DEF Writes, Others
      <4>2. pc'[x] = "record"
        BY <1>1, <3>4 DEF Writes
      <4>3. QED
        BY <4>1, <4>2 DEF Same
    <3>7. QED
      BY <3>5, <3>6
  <2>3. QED
    BY <2>1, <2>2
<1>5. ASSUME NEW row \in target'[t] PROVE row.id # 0
  <2>1. CASE target' = target
    BY <1>1, <2>1 DEF KeysAt
  <2>2. ASSUME NEW w \in Workers, NEW e \in EventIds, Finishes(w, e),
               \A s \in Tables : target'[s] = Written(w, e, s)
        PROVE  row.id # 0
    <3>1. \/ \E a \in target[t] : a.id = row.id
          \/ how[w][t] = "insert" /\ row.id = ids[w][t]
      BY <2>2, WrittenRows
    <3>2. how[w][t] = "insert" => ids[w][t] # 0
      BY <2>2 DEF Finishes, WriteInv, WriteAt
    <3>3. QED
      BY <1>1, <3>1, <3>2 DEF KeysAt
  <2>3. QED
    BY <2>1, <2>2, RowStepIs
    DEF Rests, Claims, Writes, Records, Finishes, Batches, Loses, Releases, RowsStay
<1>6. QED
  BY <1>1, <1>2, <1>3, <1>4, <1>5 DEF KeysAt

-----------------------------------------------------------------------------
(* What is updated is a row of the same source row *)

\* The row a crosswalk entry leads to is one its own source row made.
LEMMA LookupIsOwn ==
    ASSUME TypeOK, KeysInv, NEW w \in Workers, NEW r \in Refs, NEW t \in Tables, Generated(t),
           CrosswalkLookup(w, r, t) # 0, RowExists(t, CrosswalkLookup(w, r, t))
    PROVE  Leads(w, r, t)
<1>1. DEFINE id == CrosswalkLookup(w, r, t)
<1>2. id \in Nat /\ id # 0
  BY LookupType
<1>3. Recorded(r, t, id)
  BY DEF CrosswalkLookup, Recorded
<1>4. PICK row \in target[t] : row.id = id
  BY DEF RowExists
<1>5. row.ref \in Refs
  BY DEF TypeOK, Row
<1>6. HasKey(row.ref, t, id)
  BY <1>4 DEF HasKey
<1> HIDE DEF id
<1>7. row.ref = r
  BY <1>2, <1>3, <1>5, <1>6 DEF KeysInv, KeysAt, Names
<1>8. QED
  BY <1>6, <1>7 DEF Leads, id

LEMMA WriteStep ==
    ASSUME TypeOK, LegacyWriter, KeysInv, WriteInv, [Next]_vars
    PROVE  WriteInv'
<1>1. ASSUME NEW x \in Workers, NEW t \in Tables, Same(x) PROVE WriteAt(x, t)'
  <2>1. WriteAt(x, t)
    BY DEF WriteInv
  <2>2. \A e \in EventIds : IsCurrent(x, e)' => IsCurrent(x, e)
    BY <1>1, CurrentStays DEF Same
  <2>3. \A e \in EventIds : \A id : HasKey(RefOf[e], t, id) => HasKey(RefOf[e], t, id)'
    BY RowsPersist
  <2>4. \A e \in EventIds : HasKey(RefOf[e], t, ids[x][t]) => HasKey(RefOf[e], t, ids[x][t])'
    BY <1>1, <2>3 DEF Same, HasKey
  <2>5. QED
    BY <1>1, <2>1, <2>2, <2>4 DEF WriteAt, Same, Generated, HasKey
<1>2. ASSUME NEW w \in Workers, NEW t \in Tables, Claims(w) PROVE WriteAt(w, t)'
  <2>1. pc'[w] = "write" /\ pos'[w] = 1 /\ how'[w][t] = "none"
    BY <1>2 DEF Claims, WriteInv, WriteAt
  <2>2. QED
    BY <2>1 DEF WriteAt, Tables
<1>3. ASSUME NEW w \in Workers, NEW t \in Tables, NEW e \in EventIds,
             Finishes(w, e) \/ Batches(w) \/ Loses(w)
      PROVE  WriteAt(w, t)'
  <2>1. pos'[w] = 1 /\ how'[w][t] = "none" /\ pc'[w] # "record"
    BY <1>3 DEF Finishes, Batches, Loses, Releases
  <2>2. QED
    BY <2>1 DEF WriteAt, Tables
<1>4. ASSUME NEW w \in Workers, NEW t \in Tables, NEW e \in EventIds, Records(w, e)
      PROVE  WriteAt(w, t)'
  <2>1. /\ pc[w] = "record" /\ pc'[w] = "write" /\ pos'[w] = pos[w] + 1 /\ pos[w] \in Tables
        /\ ids'[w] = ids[w] /\ how'[w] = how[w] /\ target' = target
        /\ \A f \in EventIds : IsCurrent(w, f)' => IsCurrent(w, f)
    BY <1>4, CurrentStays DEF Records, RowsStay
  <2>2. t < pos'[w] => t < pos[w] \/ t = pos[w]
    BY <2>1 DEF Tables
  <2>3. WriteAt(w, t)
    BY DEF WriteInv
  <2>4. QED
    BY <2>1, <2>2, <2>3 DEF WriteAt, Generated, HasKey
<1>5. ASSUME NEW w \in Workers, NEW t \in Tables, NEW e \in EventIds, Writes(w, e)
      PROVE  WriteAt(w, t)'
  <2>1. /\ pc'[w] \in {"write", "record"} /\ pos[w] \in Tables /\ target' = target
        /\ pos'[w] \in {pos[w], pos[w] + 1} /\ WriteAt(w, t) /\ pc[w] = "write"
        /\ \A f \in EventIds : IsCurrent(w, f)' => IsCurrent(w, f)
        /\ IsCurrent(w, e)
    BY <1>5, CurrentStays DEF Writes, RowsStay, WriteInv
  <2>2. CASE t # pos[w]
    <3>1. /\ ids'[w][t] = ids[w][t] /\ how'[w][t] = how[w][t]
          /\ t < pos'[w] => t < pos[w]
          /\ t = pos'[w] => pc'[w] = "write"
      BY <1>5, <2>1, <2>2 DEF Writes, Tables
    <3>2. QED
      BY <2>1, <3>1 DEF WriteAt, Generated, HasKey
  <2>3. CASE t = pos[w] /\ how'[w][t] = "insert" /\ Generated(t)
    <3>1. /\ ids'[w][t] = nextId[t] + 1 \/ how'[w][t] = "update" \/ ~Generated(t)
          /\ pos'[w] = t \/ how'[w][t] = "update" \/ ~Generated(t)
      BY <1>5, <2>3 DEF Writes
    <3>2. ids'[w][t] = nextId[t] + 1 /\ pos'[w] = t /\ nextId[t] \in Nat
      BY <2>3, <3>1 DEF TypeOK
    <3>3. QED
      BY <2>1, <2>3, <3>2, <1>5 DEF WriteAt, Writes
  <2>4. CASE t = pos[w] /\ how'[w][t] = "update" /\ Generated(t)
    <3>1. /\ pos'[w] = t + 1 /\ pc'[w] = "write"
          /\ CrosswalkLookup(w, RefOf[e], t) # 0
          /\ RowExists(t, CrosswalkLookup(w, RefOf[e], t))
          /\ ids'[w][t] = CrosswalkLookup(w, RefOf[e], t)
      BY <1>5, <2>4 DEF Writes
    <3>2. HasKey(RefOf[e], t, ids'[w][t])
      BY <2>4, <3>1, LookupIsOwn, RefOfType DEF Leads
    <3>3. \A f \in EventIds : IsCurrent(w, f)' => f = e
      BY <2>1, CurrentIsOne
    <3>4. QED
      BY <2>1, <2>4, <3>1, <3>2, <3>3 DEF WriteAt, HasKey, Tables
  <2>5. CASE t = pos[w] /\ (~Generated(t) \/ how'[w][t] \notin {"insert", "update"})
    <3>1. ~Generated(t)
      BY <1>5, <2>5 DEF Writes
    <3>2. QED
      BY <2>1, <3>1 DEF WriteAt, Generated
  <2>6. QED
    BY <2>2, <2>3, <2>4, <2>5
<1>6. ASSUME NEW w \in Workers, Others(w), \A t \in Tables : WriteAt(w, t)' PROVE WriteInv'
  BY <1>1, <1>6 DEF WriteInv, Others
<1>7. CASE Rests
  BY <1>1, <1>7 DEF Rests, WriteInv
<1>8. ASSUME NEW w \in Workers, Claims(w) PROVE WriteInv'
  BY <1>2, <1>6, <1>8 DEF Claims
<1>9. ASSUME NEW w \in Workers, NEW e \in EventIds, Writes(w, e) \/ Records(w, e) \/ Finishes(w, e)
      PROVE  WriteInv'
  <2>1. Others(w)
    BY <1>9 DEF Writes, Records, Finishes
  <2>2. QED
    BY <1>3, <1>4, <1>5, <1>6, <1>9, <2>1
<1>10. ASSUME NEW w \in Workers, Batches(w) \/ Loses(w) PROVE WriteInv'
  <2>1. Others(w) /\ pos'[w] = 1 /\ pc'[w] = "idle" /\ \A t \in Tables : how'[w][t] = "none"
    BY <1>10 DEF Batches, Loses, Releases
  <2>2. \A t \in Tables : WriteAt(w, t)'
    BY <2>1 DEF WriteAt, Tables
  <2>3. QED
    BY <1>6, <2>1, <2>2
<1>11. QED
  BY <1>7, <1>8, <1>9, <1>10, RowStepIs

-----------------------------------------------------------------------------
(* What is delivered is there, in every table *)

\* An event whose target is committed leaves its source row a row in every table.
LEMMA CommitLands ==
    ASSUME TypeOK, LegacyWriter, WriteInv, [Next]_vars, NEW w \in Workers, NEW e \in EventIds,
           Finishes(w, e), pos[w] = NTables + 1, \A t \in Tables : target'[t] = Written(w, e, t),
           NEW t \in Tables, Generated(t)
    PROVE  HasRow(RefOf[e], t)'
<1>1. IsCurrent(w, e) /\ t < pos[w]
  BY BoundsAssumption DEF Finishes, Tables
<1>2. CASE how[w][t] = "insert"
  <2>1. \E b \in target'[t] : b.id = ids[w][t] /\ b.ref = RefOf[e]
    BY <1>2, WrittenRows
  <2>2. QED
    BY <2>1 DEF HasRow
<1>3. CASE how[w][t] = "update"
  <2>1. HasKey(RefOf[e], t, ids[w][t])
    BY <1>1, <1>3 DEF WriteInv, WriteAt
  <2>2. HasRow(RefOf[e], t)
    BY <2>1 DEF HasKey, HasRow
  <2>3. QED
    BY <2>2, RowsPersist
<1>4. QED
  BY <1>1, <1>2, <1>3 DEF WriteInv, WriteAt

LEMMA DeliveredStep ==
    ASSUME TypeOK, LegacyWriter, WriteInv, DeliveredInv, [Next]_vars
    PROVE  DeliveredInv'
<1>1. ASSUME NEW e \in EventIds, NEW t \in Tables, Settles(e)', Generated(t)
      PROVE  HasRow(RefOf[e], t)'
  <2>1. CASE Settles(e)
    BY <1>1, <2>1, RowsPersist DEF DeliveredInv
  <2>2. CASE ~Settles(e)
    <3>1. PICK w \in Workers :
              Finishes(w, e) /\ pos[w] = NTables + 1 /\ \A s \in Tables : target'[s] = Written(w, e, s)
      <4>1. CASE Rests
        BY <1>1, <2>2, <4>1 DEF Rests, Settles, Same
      <4>2. ASSUME NEW w \in Workers, Claims(w) \/ Batches(w) \/ Loses(w) PROVE FALSE
        <5>1. status'[e] = "delivered" => status[e] = "delivered" \/ txStatus[w][e] = "delivered"
          BY <4>2 DEF Claims, Batches, Loses
        <5>2. /\ txStatus'[w][e] # "delivered"
              /\ \A x \in Workers : x # w => txStatus'[x] = txStatus[x]
          BY <4>2 DEF Claims, Batches, Loses, Releases, Others, Same
        <5>3. QED
          BY <1>1, <2>2, <5>1, <5>2 DEF Settles
      <4>3. ASSUME NEW w \in Workers, NEW f \in EventIds, Writes(w, f) \/ Records(w, f) PROVE FALSE
        BY <1>1, <2>2, <4>3 DEF Writes, Records, Others, Same, Settles
      <4>4. ASSUME NEW w \in Workers, NEW f \in EventIds, Finishes(w, f)
            PROVE  /\ e = f /\ pos[w] = NTables + 1
                   /\ \A s \in Tables : target'[s] = Written(w, f, s)
        BY <1>1, <2>2, <4>4 DEF Finishes, Others, Same, Settles
      <4>5. QED
        BY <4>1, <4>2, <4>3, <4>4, RowStepIs
    <3>2. QED
      BY <1>1, <3>1, CommitLands
  <2>3. QED
    BY <2>1, <2>2
<1>2. ASSUME NEW r \in Refs, NEW a \in Tables, NEW t \in Tables,
             Kind[a] = "auto", Kind[t] = "auto", HasRow(r, a)'
      PROVE  HasRow(r, t)'
  <2>1. CASE HasRow(r, a)
    <3>1. HasRow(r, t)
      BY <1>2, <2>1 DEF DeliveredInv, FanOutWhole
    <3>2. QED
      BY <3>1, RowsPersist
  <2>2. CASE ~HasRow(r, a)
    <3>1. target' # target
      BY <1>2, <2>2 DEF HasRow
    <3>2. PICK w \in Workers, e \in EventIds :
              Finishes(w, e) /\ pos[w] = NTables + 1 /\ \A s \in Tables : target'[s] = Written(w, e, s)
      BY <3>1, RowStepIs
      DEF Rests, Claims, Writes, Records, Finishes, Batches, Loses, Releases, RowsStay
    <3>3. r = RefOf[e]
      <4>1. \A b \in target'[a] :
                 \/ \E c \in target[a] : c.id = b.id /\ c.ref = b.ref
                 \/ b.ref = RefOf[e]
        BY <3>2, WrittenRows
      <4>2. QED
        BY <1>2, <2>2, <4>1 DEF HasRow
    <3>4. QED
      BY <1>2, <3>2, <3>3, CommitLands DEF Generated
  <2>3. QED
    BY <2>1, <2>2
<1>3. QED
  BY <1>1, <1>2 DEF DeliveredInv, FanOutWhole, Generated

LEMMA RowsInit == Init => RowsInv
<1> SUFFICES ASSUME Init PROVE RowsInv
  OBVIOUS
<1>1. /\ \A t \in Tables : target[t] = {}
      /\ \A w \in Workers : todo[w] = {} /\ pos[w] = 1
      /\ \A w \in Workers, t \in Tables : how[w][t] = "none"
      /\ \A w \in Workers, r \in Refs, t \in Tables : txXw[w][r][t] = 0
      /\ \A r \in Refs, t \in Tables : crosswalk[r][t] = 0
      /\ \A w \in Workers, e \in EventIds : txStatus[w][e] # "delivered"
      /\ \A e \in EventIds : status[e] # "delivered"
  BY DEF Init, NoXw, NoWrites, NoStatus
<1>2. ASSUME NEW t \in Tables, NEW r \in Refs, NEW id \in Nat, id # 0 PROVE ~Names(r, t, id)
  BY <1>1, <1>2 DEF Names, HasKey, Recorded, Drawn, IsCurrent
<1>3. WriteInv
  BY <1>1 DEF WriteInv, WriteAt, IsCurrent
<1>4. DeliveredInv
  BY <1>1 DEF DeliveredInv, Settles, FanOutWhole, HasRow
<1>5. KeysInv
  BY <1>1, <1>2 DEF KeysInv, KeysAt
<1>6. QED
  BY <1>3, <1>4, <1>5 DEF RowsInv

LEMMA RowsAlways == LegacyWriter /\ Spec => [](TypeOK /\ RowsInv)
<1>1. LegacyWriter /\ TypeOK /\ TypeOK' /\ RowsInv /\ [Next]_vars => RowsInv'
  BY KeysStep, WriteStep, DeliveredStep DEF RowsInv
<1>2. CASE LegacyWriter
  BY <1>1, <1>2, TypeCorrect, RowsInit, PTL DEF Spec
<1>3. CASE ~LegacyWriter
  BY <1>3
<1>4. QED
  BY <1>2, <1>3

\* A delivered event has its row in every table that generates its keys, with any
\* number of workers, whatever crashed, was tried again or replayed.
THEOREM DeliveredStays == LegacyWriter /\ Spec => []DeliveredNotLost
<1>1. RowsInv => DeliveredNotLost
  BY DEF RowsInv, DeliveredInv, DeliveredNotLost, Settles, Generated
<1>2. QED
  BY RowsAlways, <1>1, PTL

\* A source row has a row in all the tables that generate their keys or in none, with
\* any number of workers, whatever failed between two of them.
THEOREM FanOutStaysWhole == LegacyWriter /\ Spec => []FanOutWhole
<1>1. RowsInv => FanOutWhole
  BY DEF RowsInv, DeliveredInv
<1>2. QED
  BY RowsAlways, <1>1, PTL

-----------------------------------------------------------------------------
(* With one worker, the rows are found again *)

\* Rows are not taken away, so a lookup that stays leads where it led.
LEMMA LeadsStay ==
    ASSUME TypeOK, LegacyWriter, [Next]_vars, NEW w \in Workers, NEW r \in Refs,
           NEW t \in Tables, txXw'[w] = txXw[w], crosswalk' = crosswalk, Leads(w, r, t)
    PROVE  Leads(w, r, t)'
<1>1. \A id : HasKey(r, t, id) => \E row \in target'[t] : row.id = id /\ row.ref = r
  BY RowsPersist DEF HasKey
<1>2. CrosswalkLookup(w, r, t)' = CrosswalkLookup(w, r, t)
  BY DEF CrosswalkLookup
<1>3. QED
  BY <1>1, <1>2 DEF Leads, HasKey

\* Nothing of this is touched but by the worker.
LEMMA FoundRests ==
    ASSUME NEW w \in Workers, NEW t \in Tables, Generated(t), FoundAt(w, t), Rests
    PROVE  FoundAt(w, t)'
<1>1. /\ pc'[w] = pc[w] /\ todo'[w] = todo[w] /\ pos'[w] = pos[w]
      /\ ids'[w] = ids[w] /\ how'[w] = how[w]
      /\ txXw'[w] = txXw[w] /\ txStatus'[w] = txStatus[w]
      /\ target' = target /\ crosswalk' = crosswalk /\ crashes' = crashes
      /\ \A e \in EventIds : status'[e] = "delivered" => status[e] = "delivered"
  BY DEF Rests, Same, RowsStay
<1>2. \A e \in EventIds : IsCurrent(w, e)' <=> IsCurrent(w, e)
  BY <1>1 DEF IsCurrent
<1>3. QED
  BY <1>1, <1>2 DEF FoundAt, Leads, HasKey, CrosswalkLookup

\* The batch is claimed before anything is written.
LEMMA FoundClaims ==
    ASSUME WriteInv, NEW w \in Workers, NEW t \in Tables, FoundAt(w, t), Claims(w)
    PROVE  FoundAt(w, t)'
<1>1. /\ pc'[w] = "write" /\ pos'[w] = 1 /\ how'[w][t] = "none"
      /\ \A e \in EventIds : txStatus'[w][e] # "delivered"
  BY DEF Claims, WriteInv, WriteAt
<1>2. target' = target /\ crosswalk' = crosswalk /\ crashes' = crashes /\ status' = status /\ txXw' = txXw
  BY DEF Claims, RowsStay
<1>3. QED
  BY <1>1, <1>2 DEF FoundAt, Leads, HasKey, CrosswalkLookup, Tables

LEMMA FoundWrites ==
    ASSUME TypeOK, LegacyWriter, KeysInv, NEW w \in Workers, NEW t \in Tables, Generated(t),
           FoundAt(w, t), NEW e \in EventIds, Writes(w, e)
    PROVE  FoundAt(w, t)'
<1>1. /\ target' = target /\ crosswalk' = crosswalk /\ crashes' = crashes /\ status' = status
      /\ txXw'[w] = txXw[w] /\ txStatus'[w] = txStatus[w] /\ IsCurrent(w, e)
      /\ pc[w] = "write" /\ pos[w] \in Tables
  BY DEF Writes, RowsStay
<1>2. \A f \in EventIds : IsCurrent(w, f)' => f = e
  BY <1>1, CurrentIsOne, CurrentStays DEF Writes
<1>3. \A r \in Refs : Leads(w, r, t)' <=> Leads(w, r, t)
  BY <1>1 DEF Leads, HasKey, CrosswalkLookup
<1>4. /\ t < pos'[w] /\ how'[w][t] = "insert" => ids'[w][t] = txXw[w][RefOf[e]][t]
      /\ t < pos'[w] /\ how'[w][t] = "update" => Leads(w, RefOf[e], t)
      /\ t = pos'[w] /\ pc'[w] = "record" => ~Leads(w, RefOf[e], t)
      /\ how'[w][t] = "insert" => \A row \in target[t] : row.id # ids'[w][t]
  <2>1. CASE t # pos[w]
    <3>1. /\ ids'[w][t] = ids[w][t] /\ how'[w][t] = how[w][t]
          /\ t < pos'[w] => t < pos[w]
          /\ t = pos'[w] => pc'[w] = "write"
      BY <1>1, <2>1 DEF Writes, Tables
    <3>2. QED
      BY <1>1, <3>1 DEF FoundAt
  <2>2. CASE /\ t = pos[w] /\ pos'[w] = t /\ how'[w][t] = "insert"
             /\ ids'[w][t] = nextId[t] + 1
             /\ \/ CrosswalkLookup(w, RefOf[e], t) = 0
                \/ ~RowExists(t, CrosswalkLookup(w, RefOf[e], t))
    <3>1. ~Leads(w, RefOf[e], t)
      BY <2>2 DEF Leads, HasKey, RowExists, KeysInv, KeysAt
    <3>2. ASSUME NEW row \in target[t] PROVE row.id # nextId[t] + 1
      <4>1. row.id \in Nat /\ row.ref \in Refs /\ row.id # 0 /\ nextId[t] \in Nat
        BY DEF TypeOK, Row, KeysInv, KeysAt
      <4>2. Names(row.ref, t, row.id)
        BY DEF Names, HasKey
      <4>3. row.id =< nextId[t]
        BY <4>1, <4>2 DEF KeysInv, KeysAt
      <4>4. QED
        BY <4>1, <4>3
    <3>3. QED
      BY <2>2, <3>1, <3>2 DEF Tables
  <2>3. CASE /\ t = pos[w] /\ how'[w][t] = "update" /\ pos'[w] = t + 1
             /\ CrosswalkLookup(w, RefOf[e], t) # 0
             /\ RowExists(t, CrosswalkLookup(w, RefOf[e], t))
    <3>1. Leads(w, RefOf[e], t)
      BY <2>3, LookupIsOwn, RefOfType
    <3>2. QED
      BY <2>3, <3>1 DEF Tables
  <2>4. QED
    BY <2>1, <2>2, <2>3 DEF Writes
<1>5. \A r \in Refs : \A id : HasKey(r, t, id)' <=> HasKey(r, t, id)
  BY <1>1 DEF HasKey
<1>6. \A f \in EventIds : IsCurrent(w, f)' =>
          /\ t < pos'[w] /\ how'[w][t] = "insert" => ids'[w][t] = txXw'[w][RefOf[f]][t]
          /\ t < pos'[w] /\ how'[w][t] = "update" => Leads(w, RefOf[f], t)'
          /\ t = pos'[w] /\ pc'[w] = "record" => ~Leads(w, RefOf[f], t)'
          /\ how'[w][t] = "insert" => \A row \in target'[t] : row.id # ids'[w][t]
  BY <1>1, <1>2, <1>3, <1>4, RefOfType
<1>7. /\ \A r \in Refs : HasKey(r, t, crosswalk[r][t])' => Leads(w, r, t)'
      /\ \A f \in EventIds :
            /\ status'[f] = "delivered" => HasKey(RefOf[f], t, crosswalk[RefOf[f]][t])'
            /\ txStatus'[w][f] = "delivered" => Leads(w, RefOf[f], t)'
      /\ \A a, b \in target'[t] : a.id = b.id => a = b
      /\ crashes' = 0 => \A row \in target'[t] : row.id = CrosswalkLookup(w, row.ref, t)'
  BY <1>1 DEF FoundAt, Leads, HasKey, CrosswalkLookup
<1>8. QED
  BY <1>6, <1>7 DEF FoundAt

LEMMA FoundRecords ==
    ASSUME TypeOK, WriteInv, NEW w \in Workers, NEW t \in Tables, Generated(t), FoundAt(w, t),
           NEW e \in EventIds, Records(w, e)
    PROVE  FoundAt(w, t)'
<1>1. /\ target' = target /\ crosswalk' = crosswalk /\ crashes' = crashes /\ status' = status
      /\ txStatus'[w] = txStatus[w] /\ ids'[w] = ids[w] /\ how'[w] = how[w] /\ IsCurrent(w, e)
      /\ pc[w] = "record" /\ pc'[w] = "write" /\ pos[w] \in Tables /\ pos'[w] = pos[w] + 1
      /\ \A r \in Refs : txXw'[w][r][t] = IF r = RefOf[e] /\ t = pos[w] THEN ids[w][t]
                                                                       ELSE txXw[w][r][t]
  BY DEF Records, RowsStay
<1>2. \A f \in EventIds : IsCurrent(w, f)' => f = e
  BY <1>1, CurrentIsOne, CurrentStays DEF Records
<1>3. RefOf[e] \in Refs
  BY RefOfType
<1>4. \A r \in Refs : r # RefOf[e] \/ t # pos[w] =>
          /\ txXw'[w][r][t] = txXw[w][r][t]
          /\ CrosswalkLookup(w, r, t)' = CrosswalkLookup(w, r, t)
          /\ Leads(w, r, t)' <=> Leads(w, r, t)
  BY <1>1 DEF Leads, HasKey, CrosswalkLookup
\* The row of this source row is not there yet.
<1>5. t = pos[w] => /\ ~Leads(w, RefOf[e], t)
                    /\ how[w][t] = "insert"
                    /\ txXw'[w][RefOf[e]][t] = ids[w][t]
  BY <1>1, <1>3 DEF FoundAt, WriteInv, WriteAt
<1>6. \A r \in Refs : HasKey(r, t, crosswalk[r][t])' => Leads(w, r, t)'
  BY <1>1, <1>4, <1>5 DEF FoundAt, HasKey
<1>7. ASSUME NEW f \in EventIds
      PROVE  /\ status'[f] = "delivered" => HasKey(RefOf[f], t, crosswalk[RefOf[f]][t])'
             /\ txStatus'[w][f] = "delivered" => Leads(w, RefOf[f], t)'
  BY <1>1, <1>4, <1>5, RefOfType DEF FoundAt, HasKey
<1>8. /\ t < pos'[w] /\ how'[w][t] = "insert" => ids'[w][t] = txXw'[w][RefOf[e]][t]
      /\ t < pos'[w] /\ how'[w][t] = "update" => Leads(w, RefOf[e], t)'
      /\ how'[w][t] = "insert" => \A row \in target'[t] : row.id # ids'[w][t]
  <2>1. t < pos'[w] => t < pos[w] \/ t = pos[w]
    BY <1>1 DEF Tables
  <2>2. CASE t = pos[w]
    BY <1>1, <1>5, <2>2 DEF FoundAt
  <2>3. CASE t # pos[w]
    BY <1>1, <1>3, <1>4, <2>1, <2>3 DEF FoundAt
  <2>4. QED
    BY <2>2, <2>3
<1>9. crashes' = 0 => \A row \in target'[t] : row.id = CrosswalkLookup(w, row.ref, t)'
  <2>1. ASSUME crashes = 0, NEW row \in target[t]
        PROVE  row.id = CrosswalkLookup(w, row.ref, t)'
    <3>1. row.ref \in Refs /\ row.id = CrosswalkLookup(w, row.ref, t)
      BY <2>1 DEF TypeOK, Row, FoundAt
    <3>2. Leads(w, row.ref, t)
      BY <3>1 DEF Leads, HasKey
    <3>3. QED
      BY <1>4, <1>5, <3>1, <3>2
  <2>2. QED
    BY <1>1, <2>1
<1>10. \A a, b \in target'[t] : a.id = b.id => a = b
  BY <1>1 DEF FoundAt
<1>11. \A f \in EventIds : IsCurrent(w, f)' =>
          /\ t < pos'[w] /\ how'[w][t] = "insert" => ids'[w][t] = txXw'[w][RefOf[f]][t]
          /\ t < pos'[w] /\ how'[w][t] = "update" => Leads(w, RefOf[f], t)'
          /\ t = pos'[w] /\ pc'[w] = "record" => ~Leads(w, RefOf[f], t)'
          /\ how'[w][t] = "insert" => \A row \in target'[t] : row.id # ids'[w][t]
  BY <1>1, <1>2, <1>8
<1>12. QED
  BY <1>6, <1>7, <1>9, <1>10, <1>11 DEF FoundAt

\* What a commit does to two rows of a table: an insert brings a new id, an update
\* keeps the ids.
LEMMA WrittenApart ==
    ASSUME TypeOK, NEW w \in Workers, NEW e \in EventIds, NEW t \in Tables,
           target'[t] = Written(w, e, t),
           \A a, b \in target[t] : a.id = b.id => a = b,
           how[w][t] = "insert" => \A row \in target[t] : row.id # ids[w][t]
    PROVE  \A a, b \in target'[t] : a.id = b.id => a = b
<1>1. target[t] \subseteq Row
  BY DEF TypeOK
<1>2. DEFINE new == [id |-> ids[w][t], ref |-> RefOf[e], ev |-> e, fk |-> ParentId(w, t)]
<1>3. CASE how[w][t] = "insert"
  <2>1. target'[t] = target[t] \cup {new}
    BY <1>3 DEF Written
  <2>2. new.id = ids[w][t]
    OBVIOUS
  <2> HIDE DEF new
  <2>3. QED
    BY <1>3, <2>1, <2>2
<1>4. CASE how[w][t] = "update"
  <2>1. DEFINE upd(row) == IF row.id = ids[w][t]
                           THEN [row EXCEPT !.ev = e, !.fk = ParentId(w, t)] ELSE row
  <2>2. target'[t] = {upd(row) : row \in target[t]}
    BY <1>4 DEF Written
  <2>3. \A row \in target[t] : upd(row).id = row.id
    BY <1>1 DEF Row
  <2> HIDE DEF upd
  <2>4. QED
    BY <2>2, <2>3
<1>5. CASE how[w][t] \notin {"insert", "update"}
  BY <1>5 DEF Written
<1>6. QED
  BY <1>3, <1>4, <1>5

LEMMA FoundFinishes ==
    ASSUME TypeOK, LegacyWriter, WriteInv, [Next]_vars, NEW w \in Workers, NEW t \in Tables,
           Generated(t), FoundAt(w, t), NEW e \in EventIds, Finishes(w, e)
    PROVE  FoundAt(w, t)'
<1>1. /\ txXw'[w] = txXw[w] /\ status' = status /\ crosswalk' = crosswalk /\ crashes' = crashes
      /\ pos'[w] = 1 /\ pc'[w] = "write" /\ how'[w][t] = "none" /\ IsCurrent(w, e)
  BY DEF Finishes
<1>2. \A r \in Refs : /\ CrosswalkLookup(w, r, t)' = CrosswalkLookup(w, r, t)
                      /\ Leads(w, r, t) => Leads(w, r, t)'
  BY <1>1, LeadsStay DEF CrosswalkLookup
<1>3. \A r \in Refs : \A id : HasKey(r, t, id) => \E row \in target'[t] : row.id = id /\ row.ref = r
  BY RowsPersist DEF HasKey
<1>4. CASE /\ target' = target
           /\ \A f \in EventIds : txStatus'[w][f] = "delivered" => txStatus[w][f] = "delivered"
  <2>1. \A r \in Refs : HasKey(r, t, crosswalk[r][t])' => Leads(w, r, t)'
    BY <1>1, <1>2, <1>4 DEF FoundAt, HasKey
  <2>2. \A f \in EventIds :
            /\ status'[f] = "delivered" => HasKey(RefOf[f], t, crosswalk[RefOf[f]][t])'
            /\ txStatus'[w][f] = "delivered" => Leads(w, RefOf[f], t)'
    BY <1>1, <1>2, <1>4, RefOfType DEF FoundAt, HasKey
  <2>3. crashes' = 0 => \A row \in target'[t] : row.id = CrosswalkLookup(w, row.ref, t)'
    BY <1>1, <1>4 DEF FoundAt, CrosswalkLookup
  <2>4. \A a, b \in target'[t] : a.id = b.id => a = b
    BY <1>4 DEF FoundAt
  <2>5. QED
    BY <1>1, <2>1, <2>2, <2>3, <2>4 DEF FoundAt, Tables
<1>5. CASE /\ pos[w] = NTables + 1 /\ target'[t] = Written(w, e, t)
           /\ \A f \in EventIds : txStatus'[w][f] = "delivered" =>
                                      f = e \/ txStatus[w][f] = "delivered"
  <2>1. RefOf[e] \in Refs /\ t < pos[w]
    BY <1>5, RefOfType, BoundsAssumption DEF Tables
  \* What was inserted is what this batch recorded.
  <2>2. how[w][t] = "insert" =>
            /\ CrosswalkLookup(w, RefOf[e], t) = ids[w][t]
            /\ Leads(w, RefOf[e], t)'
            /\ \A row \in target[t] : row.id # ids[w][t]
    <3>1. ASSUME how[w][t] = "insert"
          PROVE  /\ CrosswalkLookup(w, RefOf[e], t) = ids[w][t]
                 /\ \A row \in target[t] : row.id # ids[w][t]
      <4>1. ids[w][t] = txXw[w][RefOf[e]][t] /\ \A row \in target[t] : row.id # ids[w][t]
        BY <1>1, <2>1, <3>1 DEF FoundAt
      <4>2. ids[w][t] # 0
        BY <1>1, <3>1 DEF WriteInv, WriteAt
      <4>3. QED
        BY <4>1, <4>2 DEF CrosswalkLookup
    <3>2. ASSUME how[w][t] = "insert"
          PROVE  \E b \in target'[t] : b.id = ids[w][t] /\ b.ref = RefOf[e]
      BY <1>5, <3>2, WrittenRows
    <3>3. QED
      BY <1>2, <2>1, <3>1, <3>2 DEF Leads, HasKey
  <2>3. Leads(w, RefOf[e], t)'
    <3>1. how[w][t] \in {"insert", "update"}
      BY <1>1, <2>1 DEF WriteInv, WriteAt
    <3>2. CASE how[w][t] = "update"
      BY <1>1, <1>2, <2>1, <3>2 DEF FoundAt
    <3>3. QED
      BY <2>2, <3>1, <3>2
  <2>4. \A b \in target'[t] :
            \/ \E a \in target[t] : a.id = b.id /\ a.ref = b.ref
            \/ how[w][t] = "insert" /\ b.id = ids[w][t] /\ b.ref = RefOf[e]
    BY <1>5, WrittenRows
  <2>5. ASSUME NEW r \in Refs, HasKey(r, t, crosswalk[r][t])' PROVE Leads(w, r, t)'
    <3>1. PICK b \in target'[t] : b.id = crosswalk[r][t] /\ b.ref = r
      BY <1>1, <2>5 DEF HasKey
    <3>2. CASE \E a \in target[t] : a.id = b.id /\ a.ref = b.ref
      BY <1>2, <3>1, <3>2 DEF FoundAt, HasKey
    <3>3. CASE b.ref = RefOf[e]
      BY <2>3, <3>1, <3>3
    <3>4. QED
      BY <2>4, <3>2, <3>3
  <2>6. ASSUME NEW f \in EventIds
        PROVE  /\ status'[f] = "delivered" => HasKey(RefOf[f], t, crosswalk[RefOf[f]][t])'
               /\ txStatus'[w][f] = "delivered" => Leads(w, RefOf[f], t)'
    <3>1. status[f] = "delivered" => HasKey(RefOf[f], t, crosswalk[RefOf[f]][t])
      BY DEF FoundAt
    <3>2. status'[f] = "delivered" => HasKey(RefOf[f], t, crosswalk[RefOf[f]][t])'
      BY <1>1, <1>3, <3>1, RefOfType DEF HasKey
    <3>3. txStatus'[w][f] = "delivered" => Leads(w, RefOf[f], t)'
      BY <1>2, <1>5, <2>3, RefOfType DEF FoundAt
    <3>4. QED
      BY <3>2, <3>3
  <2>7. \A a, b \in target'[t] : a.id = b.id => a = b
    <3>1. \A a, b \in target[t] : a.id = b.id => a = b
      BY DEF FoundAt
    <3>2. QED
      BY <1>5, <2>2, <3>1, WrittenApart
  <2>8. ASSUME crashes = 0, NEW b \in target'[t] PROVE b.id = CrosswalkLookup(w, b.ref, t)'
    <3>1. CASE \E a \in target[t] : a.id = b.id /\ a.ref = b.ref
      <4>1. PICK a \in target[t] : a.id = b.id /\ a.ref = b.ref
        BY <3>1
      <4>2. a.ref \in Refs /\ a.id = CrosswalkLookup(w, a.ref, t)
        BY <2>8 DEF TypeOK, Row, FoundAt
      <4>3. QED
        BY <1>2, <4>1, <4>2
    <3>2. CASE how[w][t] = "insert" /\ b.id = ids[w][t] /\ b.ref = RefOf[e]
      BY <1>2, <2>1, <2>2, <3>2
    <3>3. QED
      BY <2>4, <3>1, <3>2
  <2>9. QED
    BY <1>1, <2>5, <2>6, <2>7, <2>8 DEF FoundAt, Tables
<1>6. QED
  BY <1>4, <1>5 DEF Finishes

\* The end of a batch, committed or lost, leaves the crosswalk as the next event
\* would have read it, or as it was.
LEMMA FoundReleases ==
    ASSUME TypeOK, NEW w \in Workers, NEW t \in Tables, FoundAt(w, t),
           Batches(w) \/ Loses(w), Workers = {w}
    PROVE  FoundAt(w, t)'
<1>1. /\ pc'[w] = "idle" /\ pos'[w] = 1 /\ how'[w][t] = "none" /\ target' = target
      /\ \A r \in Refs : txXw'[w][r][t] = 0
      /\ \A e \in EventIds : txStatus'[w][e] # "delivered"
  BY DEF Batches, Loses, Releases
<1>2. \A r \in Refs : CrosswalkLookup(w, r, t)' = crosswalk'[r][t]
  BY <1>1 DEF CrosswalkLookup
<1>3. \A r \in Refs : HasKey(r, t, crosswalk[r][t])' => Leads(w, r, t)'
  BY <1>2 DEF Leads, HasKey
<1>4. \A a, b \in target'[t] : a.id = b.id => a = b
  BY <1>1 DEF FoundAt
<1>5. CASE Batches(w)
  <2>1. /\ crashes' = crashes
        /\ \A r \in Refs : crosswalk'[r][t] = CrosswalkLookup(w, r, t)
        /\ \A e \in EventIds : status'[e] = "delivered" =>
                                  status[e] = "delivered" \/ txStatus[w][e] = "delivered"
    BY <1>5 DEF Batches
  <2>2. \A e \in EventIds :
            status'[e] = "delivered" => HasKey(RefOf[e], t, crosswalk[RefOf[e]][t])'
    BY <1>1, <2>1, RefOfType DEF FoundAt, Leads, HasKey
  <2>3. crashes' = 0 => \A row \in target'[t] : row.id = CrosswalkLookup(w, row.ref, t)'
    <3>1. \A row \in target[t] : row.ref \in Refs
      BY DEF TypeOK, Row
    <3>2. QED
      BY <1>1, <1>2, <2>1, <3>1 DEF FoundAt
  <2>4. QED
    BY <1>1, <1>3, <1>4, <2>2, <2>3 DEF FoundAt, Tables
<1>6. CASE Loses(w)
  <2>1. crashes' # 0 /\ crosswalk' = crosswalk /\ status' = status
    BY <1>6 DEF Loses, TypeOK
  <2>2. \A e \in EventIds :
            status'[e] = "delivered" => HasKey(RefOf[e], t, crosswalk[RefOf[e]][t])'
    BY <1>1, <2>1 DEF FoundAt, HasKey
  <2>3. QED
    BY <1>1, <1>3, <1>4, <2>1, <2>2 DEF FoundAt, Tables
<1>7. QED
  BY <1>5, <1>6

LEMMA FoundInit == Init => FoundInv
<1> SUFFICES ASSUME Init, NEW w \in Workers, NEW t \in Tables PROVE FoundAt(w, t)
  BY DEF FoundInv
<1>1. /\ target[t] = {} /\ todo[w] = {}
      /\ \A e \in EventIds : status[e] # "delivered" /\ txStatus[w][e] # "delivered"
  BY DEF Init, NoStatus
<1>2. QED
  BY <1>1 DEF FoundAt, HasKey, IsCurrent

LEMMA FoundStep ==
    ASSUME OneWorker, LegacyWriter, TypeOK, RowsInv, FoundInv, [Next]_vars
    PROVE  FoundInv'
<1> SUFFICES ASSUME NEW w \in Workers, NEW t \in Tables, Generated(t) PROVE FoundAt(w, t)'
  BY DEF FoundInv, Generated
<1>1. Workers = {w} /\ FoundAt(w, t) /\ KeysInv /\ WriteInv
  BY DEF OneWorker, FoundInv, RowsInv
<1>2. CASE Rests
  BY <1>1, <1>2, FoundRests
<1>3. CASE Claims(w)
  BY <1>1, <1>3, FoundClaims
<1>4. ASSUME NEW e \in EventIds, Writes(w, e) PROVE FoundAt(w, t)'
  BY <1>1, <1>4, FoundWrites
<1>5. ASSUME NEW e \in EventIds, Records(w, e) PROVE FoundAt(w, t)'
  BY <1>1, <1>5, FoundRecords
<1>6. ASSUME NEW e \in EventIds, Finishes(w, e) PROVE FoundAt(w, t)'
  BY <1>1, <1>6, FoundFinishes
<1>7. CASE Batches(w) \/ Loses(w)
  BY <1>1, <1>7, FoundReleases
<1>8. \/ Rests \/ Claims(w) \/ Batches(w) \/ Loses(w)
      \/ \E e \in EventIds : Writes(w, e) \/ Records(w, e) \/ Finishes(w, e)
  BY <1>1, RowStepIs
<1>9. QED
  BY <1>2, <1>3, <1>4, <1>5, <1>6, <1>7, <1>8

\* With one worker, a later event of a source row works on the rows of the earlier
\* ones: the crosswalk leads to a row of its own, and as long as no batch is lost
\* there is no second one.
THEOREM RowsAreFoundAgain == OneWorker /\ LegacyWriter /\ Spec => []RowsFoundAgain
<1>1. ASSUME TypeOK, OneWorker, FoundInv PROVE RowsFoundAgain
  <2>1. PICK w \in Workers : \A t \in Tables : Generated(t) => FoundAt(w, t)
    BY <1>1 DEF FoundInv, OneWorker
  <2>2. NoDuplicateRows
    <3>1. ASSUME crashes = 0, NEW t \in Tables, Kind[t] = "auto",
                 NEW a \in target[t], NEW b \in target[t], a.ref = b.ref
          PROVE  a = b
      BY <2>1, <3>1 DEF Generated, FoundAt
    <3>2. QED
      BY <3>1 DEF NoDuplicateRows
  <2>3. CrosswalkLeadsToRow
    BY <2>1 DEF CrosswalkLeadsToRow, Generated, FoundAt, HasKey
  <2>4. QED
    BY <2>2, <2>3 DEF RowsFoundAgain
<1>2. OneWorker /\ LegacyWriter /\ TypeOK /\ RowsInv /\ FoundInv /\ [Next]_vars => FoundInv'
  BY FoundStep
<1>3. CASE OneWorker /\ LegacyWriter
  BY <1>1, <1>2, <1>3, RowsAlways, FoundInit, PTL DEF Spec
<1>4. CASE ~(OneWorker /\ LegacyWriter)
  BY <1>4
<1>5. QED
  BY <1>3, <1>4
-----------------------------------------------------------------------------
(* The order in which the events of one entity are written *)

\* Some row carries the values of e.
Shows(e) == \E t \in Tables : \E a \in target[t] : a.ev = e

\* Event e is settled, or will be once an open batch commits.
Done(e) == status[e] \in Terminal \/ \E x \in Workers : txStatus[x][e] \in Terminal

\* An idle worker holds nothing.
IdleIsFree == \A w \in Workers : pc[w] = "idle" => \A e \in EventIds : txStatus[w][e] = "none"

\* What is written came after the older events of its entity that were not overtaken.
ShownInOrder ==
    \A a, b \in EventIds : Shows(a) /\ Newer(a, b) /\ b \notin overtaken => Done(b)

\* What a worker is about to write comes after them too, or has them in its batch.
HeldInOrder ==
    \A x \in Workers : \A a, b \in EventIds :
        txStatus[x][a] = "processing" /\ Newer(a, b) /\ b \notin overtaken
            => Done(b) \/ txStatus[x][b] = "processing"

OrderInv == IdleIsFree /\ ShownInOrder /\ HeldInOrder

\* The rows of a commit: those that were there and keep their event, and one that
\* carries the event of the commit.
LEMMA WrittenEvents ==
    ASSUME TypeOK, NEW w \in Workers, NEW e \in EventIds, NEW t \in Tables,
           target'[t] = Written(w, e, t)
    PROVE  /\ \A b \in target'[t] : b \in target[t] \/ b.ev = e
           /\ \A a \in target[t] \ target'[t] : \A b \in target'[t] : a.id = b.id => b.ev = e
<1>1. target[t] \subseteq Row
  BY DEF TypeOK
<1>2. CASE how[w][t] = "insert"
  <2>1. DEFINE new == [id |-> ids[w][t], ref |-> RefOf[e], ev |-> e, fk |-> ParentId(w, t)]
  <2>2. target'[t] = target[t] \cup {new}
    BY <1>2 DEF Written
  <2>3. new.ev = e
    OBVIOUS
  <2> HIDE DEF new
  <2>4. QED
    BY <2>2, <2>3
<1>3. CASE how[w][t] = "update"
  <2>1. DEFINE upd(row) == IF row.id = ids[w][t]
                           THEN [row EXCEPT !.ev = e, !.fk = ParentId(w, t)] ELSE row
  <2>2. target'[t] = {upd(row) : row \in target[t]}
    BY <1>3 DEF Written
  <2>3. ASSUME NEW row \in target[t]
        PROVE  /\ upd(row).id = row.id
               /\ row.id = ids[w][t] => upd(row).ev = e
               /\ row.id # ids[w][t] => upd(row) = row
    BY <1>1 DEF Row
  <2> HIDE DEF upd
  <2>4. \A b \in target'[t] : b \in target[t] \/ b.ev = e
    BY <2>2, <2>3
  <2>5. ASSUME NEW a \in target[t] \ target'[t], NEW b \in target'[t], a.id = b.id
        PROVE  b.ev = e
    <3>1. a.id = ids[w][t]
      BY <2>2, <2>3, <2>5
    <3>2. PICK row \in target[t] : b = upd(row)
      BY <2>2
    <3>3. QED
      BY <2>3, <2>5, <3>1, <3>2
  <2>6. QED
    BY <2>4, <2>5
<1>4. CASE how[w][t] \notin {"insert", "update"}
  <2>1. target'[t] = target[t]
    BY <1>4 DEF Written
  <2>2. QED
    BY <2>1
<1>5. QED
  BY <1>2, <1>3, <1>4

\* The order is about statuses, rows and what was overtaken.
LEMMA OrderFrame ==
    ASSUME OrderInv, UNCHANGED <<status, pc, txStatus, target, overtaken>>
    PROVE  OrderInv'
BY DEF OrderInv, IdleIsFree, ShownInOrder, HeldInOrder, Shows, Done

\* Steps inside the handling of an event leave the order alone.
LEMMA OrderWrites ==
    ASSUME TypeOK, OrderInv, NEW w \in Workers, NEW e \in EventIds,
           \/ UpdateRow(w, e) \/ InsertAuto(w, e) \/ InsertApp(w, e)
           \/ ResolveReference(w, e) \/ RecordCrosswalk(w, e)
           \/ \E row \in UNION {target[t] : t \in Tables} : MatchRow(w, e, row)
    PROVE  OrderInv'
<1>1. UNCHANGED <<status, txStatus, target, overtaken>>
  BY DEF UpdateRow, InsertAuto, InsertApp, ResolveReference, RecordCrosswalk, MatchRow
<1>2. \A x \in Workers : pc'[x] = "idle" => pc[x] = "idle"
  BY DEF UpdateRow, InsertAuto, InsertApp, ResolveReference, RecordCrosswalk, MatchRow, TypeOK
<1>3. QED
  BY <1>1, <1>2 DEF OrderInv, IdleIsFree, ShownInOrder, HeldInOrder, Shows, Done

\* An event that comes in was not settled.
LEMMA OrderEnqueue ==
    ASSUME TypeOK, OrderInv, NEW e \in EventIds, Enqueue(e)
    PROVE  OrderInv'
<1>1. UNCHANGED <<pc, txStatus, target, overtaken>>
  BY DEF Enqueue
<1>2. \A f \in EventIds : status[f] \in Terminal => status'[f] \in Terminal
  BY DEF Enqueue, TypeOK, Terminal
<1>3. QED
  BY <1>1, <1>2 DEF OrderInv, IdleIsFree, ShownInOrder, HeldInOrder, Shows, Done

\* An event that comes back is overtaken by all that was done since.
LEMMA OrderReplay ==
    ASSUME TypeOK, OrderInv, NEW e \in EventIds, Replay(e)
    PROVE  OrderInv'
<1>1. UNCHANGED <<pc, txStatus, target>> /\ overtaken' = overtaken \cup {e}
  BY DEF Replay
<1>2. \A f \in EventIds : f # e => status'[f] = status[f]
  BY DEF Replay, TypeOK
<1>3. QED
  BY <1>1, <1>2 DEF OrderInv, IdleIsFree, ShownInOrder, HeldInOrder, Shows, Done

\* A batch has every older event of its entities that is settled, ready or overtaken.
LEMMA OrderClaim ==
    ASSUME TypeOK, OrderInv, NEW w \in Workers, NEW B \in SUBSET EventIds, Claim(w, B)
    PROVE  OrderInv'
<1>1. /\ pc[w] = "idle" /\ IsFirstBatch(B, Ready)
      /\ overtaken' = overtaken \cup OvertakenBy(B)
      /\ UNCHANGED <<status, target>>
  BY DEF Claim
<1>2. /\ \A x \in Workers : \A e \in EventIds :
            txStatus'[x][e] = IF x = w THEN (IF e \in B THEN "processing" ELSE "none")
                              ELSE txStatus[x][e]
      /\ \A x \in Workers : x # w => pc'[x] = pc[x]
      /\ pc'[w] # "idle"
  BY DEF Claim, TypeOK
<1>3. ASSUME NEW e \in EventIds, Done(e) PROVE Done(e)'
  BY <1>1, <1>2, <1>3 DEF Done, OrderInv, IdleIsFree, Terminal
<1>4. IdleIsFree'
  BY <1>2 DEF OrderInv, IdleIsFree
<1>5. ShownInOrder'
  BY <1>1, <1>3 DEF OrderInv, ShownInOrder, Shows, Newer
<1>6. ASSUME NEW x \in Workers, NEW a \in EventIds, NEW b \in EventIds,
             txStatus'[x][a] = "processing", Newer(a, b), b \notin overtaken'
      PROVE  Done(b)' \/ txStatus'[x][b] = "processing"
  <2>1. CASE x # w
    BY <1>1, <1>2, <1>3, <1>6, <2>1 DEF OrderInv, HeldInOrder
  <2>2. CASE x = w
    <3>1. a \in B
      BY <1>2, <1>6, <2>2
    <3>2. CASE status[b] \in Terminal
      BY <1>1, <3>2 DEF Done
    <3>3. CASE status[b] \notin Terminal
      <4>1. b \in Ready
        BY <1>1, <1>6, <3>1, <3>3 DEF OvertakenBy
      <4>2. b < a
        BY <1>6 DEF Newer
      <4>3. b \in B
        BY <1>1, <3>1, <4>1, <4>2 DEF IsFirstBatch, EventIds
      <4>4. QED
        BY <1>2, <2>2, <4>3
    <3>4. QED
      BY <3>2, <3>3
  <2>3. QED
    BY <2>1, <2>2
<1>7. HeldInOrder'
  BY <1>6 DEF HeldInOrder, Newer
<1>8. QED
  BY <1>4, <1>5, <1>7 DEF OrderInv

\* What the end of an event does to the open batches.
LEMMA FinishStatus ==
    ASSUME TypeOK, OutboxInv, NEW w \in Workers, NEW e \in EventIds, NEW s,
           IsCurrent(w, e), FinishEvent(w, e, s)
    PROVE  /\ \A x \in Workers : \A f \in EventIds :
                 txStatus'[x][f] = IF x = w /\ f = e THEN s ELSE txStatus[x][f]
           /\ \A x \in Workers : pc'[x] = "idle" => x # w /\ pc[x] = "idle"
           /\ txStatus[w][e] = "processing"
           /\ \A x \in Workers : x # w => txStatus[x][e] = "none"
           /\ ~Done(e)
<1>1. txStatus[w][e] = "processing"
  BY DEF OutboxInv, LockExclusion, IsCurrent
<1>2. \A x \in Workers : x # w => txStatus[x][e] = "none"
  BY <1>1 DEF OutboxInv, LockExclusion
<1>3. status[e] \in Claimable
  BY <1>1 DEF OutboxInv, TxClaimed
<1>4. ~Done(e)
  BY <1>1, <1>2, <1>3 DEF Done, Claimable, Terminal
<1>5. QED
  BY <1>1, <1>2, <1>4 DEF FinishEvent, TypeOK

\* An event that is quarantined or delivered is done, and its older ones were.
LEMMA OrderSettles ==
    ASSUME TypeOK, OutboxInv, OrderInv, NEW w \in Workers, NEW e \in EventIds,
           Quarantine(w, e) \/ CommitEvent(w, e)
    PROVE  OrderInv'
<1>1. PICK s \in Terminal : IsCurrent(w, e) /\ FinishEvent(w, e, s)
  BY DEF Quarantine, CommitEvent, Terminal
<1>2. UNCHANGED <<status, overtaken>>
  BY DEF Quarantine, CommitEvent
<1>3. /\ \A x \in Workers : \A f \in EventIds :
            txStatus'[x][f] = IF x = w /\ f = e THEN s ELSE txStatus[x][f]
      /\ \A x \in Workers : pc'[x] = "idle" => x # w /\ pc[x] = "idle"
      /\ txStatus[w][e] = "processing"
  BY <1>1, FinishStatus
<1>4. Done(e)' /\ \A f \in EventIds : Done(f) => Done(f)'
  BY <1>2, <1>3 DEF Done, Terminal
<1>5. IdleIsFree'
  BY <1>3 DEF OrderInv, IdleIsFree
<1>6. HeldInOrder'
  BY <1>2, <1>3, <1>4 DEF OrderInv, HeldInOrder, Newer, Terminal
<1>7. ASSUME NEW a \in EventIds, Shows(a)' PROVE Shows(a) \/ a = e
  <2>1. CASE Quarantine(w, e)
    BY <1>7, <2>1 DEF Quarantine, Shows
  <2>2. CASE CommitEvent(w, e)
    <3>1. \A t \in Tables : target'[t] = Written(w, e, t)
      BY <2>2 DEF CommitEvent
    <3>2. QED
      BY <1>7, <3>1, WrittenEvents DEF Shows
  <2>3. QED
    BY <2>1, <2>2
<1>8. ASSUME NEW b \in EventIds, Newer(e, b), b \notin overtaken PROVE Done(b)
  <2>1. b < e
    BY <1>8 DEF Newer
  <2>2. b \notin todo[w]
    BY <1>1, <2>1 DEF IsCurrent, EventIds
  <2>3. txStatus[w][b] # "processing"
    BY <2>2 DEF OutboxInv, LockExclusion
  <2>4. QED
    BY <1>3, <1>8, <2>3 DEF OrderInv, HeldInOrder
<1>9. ShownInOrder'
  BY <1>2, <1>4, <1>7, <1>8 DEF OrderInv, ShownInOrder, Newer
<1>10. QED
  BY <1>5, <1>6, <1>9 DEF OrderInv

\* An event that failed has nothing newer written or at hand, or is overtaken.
LEMMA OrderFail ==
    ASSUME TypeOK, OutboxInv, OrderInv, NEW w \in Workers, NEW e \in EventIds, Fail(w, e)
    PROVE  OrderInv'
<1>1. DEFINE s == RetryOrDeadLetter(e)
<1>2. /\ IsCurrent(w, e) /\ FinishEvent(w, e, s)
      /\ UNCHANGED <<status, target>>
      /\ overtaken \subseteq overtaken'
      /\ (\E f \in todo[w] : Newer(f, e)) => e \in overtaken'
  BY DEF Fail
<1>3. s # "processing" /\ s # "none"
  BY DEF RetryOrDeadLetter
<1> HIDE DEF s
<1>4. /\ \A x \in Workers : \A f \in EventIds :
            txStatus'[x][f] = IF x = w /\ f = e THEN s ELSE txStatus[x][f]
      /\ \A x \in Workers : pc'[x] = "idle" => x # w /\ pc[x] = "idle"
      /\ txStatus[w][e] = "processing"
      /\ \A x \in Workers : x # w => txStatus[x][e] = "none"
      /\ ~Done(e)
  BY <1>2, FinishStatus
<1>5. \A f \in EventIds : Done(f) => Done(f)'
  BY <1>2, <1>4 DEF Done, Terminal
<1>6. IdleIsFree'
  BY <1>4 DEF OrderInv, IdleIsFree
<1>7. ShownInOrder'
  BY <1>2, <1>5 DEF OrderInv, ShownInOrder, Shows, Newer
<1>8. ASSUME NEW x \in Workers, NEW a \in EventIds, NEW b \in EventIds,
             txStatus'[x][a] = "processing", Newer(a, b), b \notin overtaken'
      PROVE  Done(b)' \/ txStatus'[x][b] = "processing"
  <2>1. txStatus[x][a] = "processing" /\ ~(x = w /\ a = e)
    BY <1>3, <1>4, <1>8
  <2>2. Done(b) \/ txStatus[x][b] = "processing"
    BY <1>2, <1>8, <2>1 DEF OrderInv, HeldInOrder
  <2>3. CASE Done(b)
    BY <1>5, <2>3
  <2>4. CASE txStatus[x][b] = "processing" /\ b # e
    BY <1>4, <2>4
  <2>5. CASE b = e /\ ~Done(b) /\ txStatus[x][b] = "processing"
    <3>1. x = w
      BY <1>4, <2>5
    <3>2. a \in todo[w]
      BY <2>1, <3>1 DEF OutboxInv, LockExclusion
    <3>3. QED
      BY <1>2, <1>8, <2>5, <3>2
  <2>6. QED
    BY <2>2, <2>3, <2>4, <2>5
<1>9. HeldInOrder'
  BY <1>8 DEF HeldInOrder, Newer
<1>10. QED
  BY <1>6, <1>7, <1>9 DEF OrderInv

\* The end of a batch: what it settled is settled, or overtaken when the batch is lost.
LEMMA OrderBatchEnds ==
    ASSUME TypeOK, OutboxInv, OrderInv, NEW w \in Workers, CommitBatch(w) \/ LoseBatch(w)
    PROVE  OrderInv'
<1>1. Release(w) /\ target' = target /\ overtaken \subseteq overtaken'
  BY DEF CommitBatch, LoseBatch
<1>2. /\ \A x \in Workers : \A f \in EventIds :
            txStatus'[x][f] = IF x = w THEN "none" ELSE txStatus[x][f]
      /\ \A x \in Workers : x # w => pc'[x] = pc[x]
  BY <1>1 DEF Release, TypeOK, NoStatus
<1>3. ASSUME NEW f \in EventIds, Done(f), f \notin overtaken' PROVE Done(f)'
  <2>1. CASE LoseBatch(w)
    <3>1. txStatus[w][f] \notin Terminal /\ status' = status
      BY <1>3, <2>1 DEF LoseBatch
    <3>2. QED
      BY <1>2, <1>3, <3>1 DEF Done
  <2>2. CASE CommitBatch(w)
    <3>1. status'[f] = IF txStatus[w][f] = "none" THEN status[f] ELSE txStatus[w][f]
      BY <2>2 DEF CommitBatch
    <3>2. CASE txStatus[w][f] = "none"
      BY <1>2, <1>3, <3>1, <3>2 DEF Done, Terminal
    <3>3. CASE txStatus[w][f] # "none"
      <4>1. status[f] \notin Terminal
        BY <3>3 DEF OutboxInv, TxClaimed, Claimable, Terminal
      <4>2. \A x \in Workers : x # w => txStatus[x][f] = "none"
        BY <3>3 DEF OutboxInv, LockExclusion
      <4>3. txStatus[w][f] \in Terminal
        BY <1>3, <4>1, <4>2 DEF Done, Terminal
      <4>4. QED
        BY <3>1, <3>3, <4>3 DEF Done
    <3>4. QED
      BY <3>2, <3>3
  <2>3. QED
    BY <2>1, <2>2
<1>4. IdleIsFree'
  BY <1>2 DEF OrderInv, IdleIsFree
<1>5. ShownInOrder'
  BY <1>1, <1>3 DEF OrderInv, ShownInOrder, Shows, Newer
<1>6. HeldInOrder'
  BY <1>1, <1>2, <1>3 DEF OrderInv, HeldInOrder, Newer
<1>7. QED
  BY <1>4, <1>5, <1>6 DEF OrderInv

\* Every step keeps the order, with any number of workers.
LEMMA OrderStep == TypeOK /\ OutboxInv /\ OrderInv /\ [Next]_vars => OrderInv'
<1> SUFFICES ASSUME TypeOK, OutboxInv, OrderInv, [Next]_vars PROVE OrderInv'
  OBVIOUS
<1>1. ASSUME NEW w \in Workers, NEW e \in EventIds,
             \/ LockTimeout(w, e) \/ ForeignKeyError(w, e)
             \/ KeysExhausted(w, e) \/ DuplicateKey(w, e) \/ FailEvent(w, e)
      PROVE  OrderInv'
  BY <1>1, TypeAnyFail, OrderFail
<1>2. ASSUME NEW w \in Workers, DeadlockVictim(w) \/ Crash(w) PROVE OrderInv'
  BY <1>2, OrderBatchEnds DEF DeadlockVictim, Crash
<1>3. ASSUME NEW w \in Workers, Work(w) PROVE OrderInv'
  BY <1>1, <1>2, <1>3, OrderClaim, OrderWrites, OrderSettles, OrderBatchEnds DEF Work
<1>4. ASSUME NEW e \in EventIds, BecomeDue(e) PROVE OrderInv'
  BY <1>4, OrderFrame DEF BecomeDue
<1>5. ASSUME NEW n \in Entities, SetEntityEnabled(n) PROVE OrderInv'
  BY <1>5, OrderFrame DEF SetEntityEnabled
<1>6. ASSUME NEW w \in Workers, EmptyPass(w) PROVE OrderInv'
  BY <1>6, OrderFrame DEF EmptyPass, vars
<1>7. CASE Environment
  BY <1>1, <1>2, <1>5, <1>6, <1>7, OrderEnqueue, OrderReplay, OrderSettles DEF Environment
<1>8. CASE UNCHANGED vars
  BY <1>8, OrderFrame DEF vars
<1>9. QED
  BY <1>3, <1>4, <1>7, <1>8 DEF Next

\* Rows change when an event is committed, and only then.
LEMMA RowsChangeAtCommit ==
    ASSUME [Next]_vars
    PROVE  target' = target \/ \E w \in Workers, e \in EventIds : CommitEvent(w, e)
<1>1. ASSUME NEW w \in Workers, Work(w)
      PROVE  target' = target \/ \E e \in EventIds : CommitEvent(w, e)
  BY <1>1
  DEF Work, Claim, UpdateRow, InsertAuto, MatchRow, InsertApp, ResolveReference, RecordCrosswalk,
      LockTimeout, ForeignKeyError, KeysExhausted, DuplicateKey, Fail, CommitBatch,
      DeadlockVictim, LoseBatch
<1>2. CASE Environment
  BY <1>2 DEF Environment, Enqueue, Replay, SetEntityEnabled, EmptyPass, Crash, LoseBatch,
              Quarantine, FailEvent, Fail, vars
<1>3. QED
  BY <1>1, <1>2 DEF Next, BecomeDue, vars

\* An event that was not overtaken is not written over a newer one of its entity.
LEMMA NoneGoesBack ==
    ASSUME TypeOK, OutboxInv, OrderInv, [Next]_vars,
           NEW t \in Tables, NEW a \in target[t] \ target'[t], NEW b \in target'[t],
           a.id = b.id, Newer(a.ev, b.ev)
    PROVE  b.ev \in overtaken
<1>1. PICK w \in Workers, e \in EventIds : CommitEvent(w, e)
  BY RowsChangeAtCommit
<1>2. b.ev = e
  BY <1>1, WrittenEvents DEF CommitEvent
<1>3. ~Done(e)
  BY <1>1, FinishStatus DEF CommitEvent
<1>4. Shows(a.ev) /\ a.ev \in EventIds
  BY DEF Shows, TypeOK, Row
<1>5. QED
  BY <1>2, <1>3, <1>4 DEF OrderInv, ShownInOrder

\* What an event wrote is overwritten by an older one of its entity only if the older
\* had been overtaken, with any number of workers, crashes and replays
\* (claim_events takes what is due in the order of created_at, process_once too).
THEOREM OnlyOvertakenOverwrite == Spec => OnlyOvertakenGoBack
<1>1. Init => OrderInv
  BY DEF Init, OrderInv, IdleIsFree, ShownInOrder, HeldInOrder, Shows, NoStatus
<1>2. IInv /\ OrderInv /\ [Next]_vars => OrderInv'
  BY OrderStep DEF IInv
<1>3. IInv /\ OrderInv /\ [Next]_vars =>
        [\A t \in Tables : \A a \in target[t] \ target'[t] : \A b \in target'[t] :
            a.id = b.id /\ Newer(a.ev, b.ev) => b.ev \in overtaken]_vars
  BY NoneGoesBack DEF IInv
<1>4. QED
  BY <1>1, <1>2, <1>3, Inductive, PTL DEF Spec, OnlyOvertakenGoBack
=============================================================================
