------------------------- MODULE SchemaDriftProofs --------------------------
(***************************************************************************)
(* Proofs about drift, for any number of entities, tables, sessions and    *)
(* changes: that switch and reports follow the status, that a paused       *)
(* entity has drifted, and that a deployed one has its rows loaded.        *)
(*                                                                         *)
(* Drift stays until somebody stores a fingerprint, because stored         *)
(* fingerprints were taken of structures there have been (Known): so a     *)
(* monitor's verdict still holds when it is committed (Verdicts), and the  *)
(* reason of a pause as long as nobody clears it (Pauses).  What a         *)
(* resolution clears it has loaded before, as the source still is          *)
(* (Settling); so the rows of what is deployed are of a source at least as *)
(* new as the stored one, or a swap is still to load them (Rows).          *)
(***************************************************************************)
EXTENDS SchemaDrift, SequenceTheorems, TLAPS, WellFoundedInduction

USE DriftAssumption

\* A session that goes through directions has one left, and one that is about to
\* store a fingerprint has an entity to store it for.
ShapeOf(r) ==
    /\ r.op \in {"resolve", "reset"} => r.kinds # <<>>
    /\ r.phase = "store" => r.todo # {} /\ r.op \in {"resolve", "reset"}
    /\ r.phase = "load" => r.op \in {"resolve", "reset"}

Shape == \A s \in Sessions : ShapeOf(session[s])

-----------------------------------------------------------------------------
(* The operators *)

Less == {ss \in Nat \X Nat : ss[1] < ss[2]}

\* FirstOf picks a member: a set of entities has a least one.
LEMMA FirstOfIn == ASSUME NEW S \in SUBSET Entities, S # {} PROVE FirstOf(S) \in S
<1>1. S \subseteq Nat
  BY DEF Entities
<1>2. IsWellFoundedOn(Less, Nat)
  BY NatLessThanWellFounded, Zenon DEF OpToRel, Less
<1>3. PICK x \in S : \A y \in S : ~(<<y, x>> \in Less)
  BY <1>1, <1>2, WFMin
<1>4. ASSUME NEW y \in S PROVE x =< y
  <2>1. y \in Nat /\ x \in Nat
    BY <1>1
  <2>2. <<y, x>> \in Nat \X Nat /\ <<y, x>>[1] = y /\ <<y, x>>[2] = x
    BY <2>1
  <2>3. y < x => <<y, x>> \in Less
    BY <2>2 DEF Less
  <2>4. ~(y < x)
    BY <1>3, <2>3
  <2>5. QED
    BY <2>1, <2>4
<1>5. QED
  BY <1>4 DEF FirstOf

\* A fingerprint has its type.
LEMMA FingerprintType ==
    ASSUME TypeOK, NEW e \in Entities PROVE Fingerprints(e) \in Fingerprint
<1>1. [t \in Footprint[e] |-> tgt[t]] \in [Footprint[e] -> Versions]
  BY DEF TypeOK
<1>2. Footprint[e] \in SUBSET Tables
  OBVIOUS
<1>3. [t \in Footprint[e] |-> tgt[t]] \in UNION {[T -> Versions] : T \in SUBSET Tables}
  BY <1>1, <1>2
<1>4. src[e] \in Versions
  BY DEF TypeOK
<1>5. QED
  BY <1>3, <1>4 DEF Fingerprints, Fingerprint

\* No fingerprint has been read, and a session does nothing: of the right types.
LEMMA IdleType == Idle \in Session /\ Unread \in [Entities -> Fingerprint]
<1>1. Registry \in Versions
  BY DEF Registry, Versions
<1>2. [t \in {} |-> Registry] \in UNION {[T -> Versions] : T \in SUBSET Tables}
  <2>1. [t \in {} |-> Registry] \in [{} -> Versions] /\ {} \in SUBSET Tables
    OBVIOUS
  <2>2. QED
    BY <2>1
<1>3. Unread \in [Entities -> Fingerprint]
  BY <1>1, <1>2 DEF Unread, Fingerprint
<1>4. <<>> \in Seq(Directions)
  OBVIOUS
<1>5. QED
  BY <1>3, <1>4 DEF Idle, Session, Ops, Phases

\* Both schemas as deployed, nobody paused, no session at work.
LEMMA TypeInit == Init => TypeOK /\ Shape
<1> SUFFICES ASSUME Init PROVE TypeOK /\ Shape
  OBVIOUS
<1>1. 1 \in Versions /\ Registry \in Versions
  BY DEF Versions, Registry
<1>2. src \in [Entities -> Versions] /\ tgt \in [Tables -> Versions]
  BY <1>1 DEF Init
<1>3. \A e \in Entities : Fingerprints(e) \in Fingerprint
  <2> TAKE e \in Entities
  <2>1. [t \in Footprint[e] |-> tgt[t]] \in [Footprint[e] -> Versions]
    BY <1>2
  <2>2. [t \in Footprint[e] |-> tgt[t]] \in UNION {[T -> Versions] : T \in SUBSET Tables}
    BY <2>1
  <2>3. QED
    BY <1>2, <2>2 DEF Fingerprints, Fingerprint
<1>4. stored \in [Entities -> Fingerprint]
  BY <1>3 DEF Init
<1>5. session \in [Sessions -> Session]
  BY IdleType DEF Init
<1>6. TypeOK
  BY <1>1, <1>2, <1>4, <1>5 DEF Init, TypeOK
<1>7. Shape
  BY DEF Init, Shape, ShapeOf, Idle
<1>8. QED
  BY <1>6, <1>7
-----------------------------------------------------------------------------
(* Types *)

\* The ways a step changes the record of its session.
LEMMA PhaseField ==
    ASSUME NEW r \in Session, NEW p \in Phases
    PROVE  [r EXCEPT !.phase = p] \in Session
BY DEF Session

LEMMA TodoField ==
    ASSUME NEW r \in Session, NEW p \in Phases, NEW T \in SUBSET Entities
    PROVE  [r EXCEPT !.phase = p, !.todo = T] \in Session
BY DEF Session

LEMMA DriftField ==
    ASSUME NEW r \in Session, NEW p \in Phases, NEW D \in [Entities -> SUBSET Directions]
    PROVE  [r EXCEPT !.phase = p, !.drift = D] \in Session
BY DEF Session

LEMMA SeenField ==
    ASSUME NEW r \in Session, NEW p \in Phases, NEW F \in [Entities -> Fingerprint]
    PROVE  [r EXCEPT !.phase = p, !.seen = F] \in Session
BY DEF Session

LEMMA ListAndSeenFields ==
    ASSUME NEW r \in Session, NEW p \in Phases, NEW T \in SUBSET Entities,
           NEW F \in [Entities -> Fingerprint]
    PROVE  [r EXCEPT !.phase = p, !.todo = T, !.seen = F] \in Session
BY DEF Session

LEMMA KindsField ==
    ASSUME NEW r \in Session, NEW p \in Phases, NEW K \in Seq(Directions)
    PROVE  [r EXCEPT !.phase = p, !.kinds = K] \in Session
BY DEF Session

\* The fields of a session.
LEMMA SessionType ==
    ASSUME TypeOK, NEW s \in Sessions
    PROVE  /\ session[s] \in Session
           /\ session[s].kinds \in Seq(Directions)
           /\ session[s].todo \in SUBSET Entities
           /\ session[s].also \in SUBSET Entities
           /\ session[s].drift \in [Entities -> SUBSET Directions]
           /\ session[s].seen \in [Entities -> Fingerprint]
BY DEF TypeOK, Session

\* The phases by name.
LEMMA PhaseNames ==
    {"idle", "list", "load", "store", "commit", "deploy", "redeliver"} \subseteq Phases
BY DEF Phases

\* One session goes from one good record to another.
LEMMA SessionUpdate ==
    ASSUME TypeOK, Shape, NEW s \in Sessions, NEW r \in Session, ShapeOf(r),
           session' = [session EXCEPT ![s] = r]
    PROVE  session' \in [Sessions -> Session] /\ Shape'
<1>1. session' \in [Sessions -> Session]
  BY DEF TypeOK
<1>2. \A x \in Sessions : session'[x] = r \/ session'[x] = session[x]
  BY DEF TypeOK
<1>3. QED
  BY <1>1, <1>2 DEF Shape

\* The entity at the head of a list that is not empty.
LEMMA CurrentType ==
    ASSUME TypeOK, NEW s \in Sessions, session[s].todo # {}
    PROVE  Current(s) \in session[s].todo /\ Current(s) \in Entities
BY SessionType, FirstOfIn DEF Current

\* One direction of a fingerprint replaced by that of another.
LEMMA DirectionType ==
    ASSUME NEW f \in Fingerprint, NEW g \in Fingerprint, NEW d \in Directions
    PROVE  [f EXCEPT ![d] = g[d]] \in Fingerprint
<1>1. CASE d = "source"
  BY <1>1 DEF Fingerprint
<1>2. CASE d = "target"
  BY <1>2 DEF Fingerprint
<1>3. QED
  BY <1>1, <1>2 DEF Directions

-----------------------------------------------------------------------------
(* The sessions *)

\* After a step the sessions have their types and their shape.
Good == session' \in [Sessions -> Session] /\ Shape'

\* An operation ends, or dies.
LEMMA FinishGood ==
    ASSUME TypeOK, Shape, NEW s \in Sessions, Finish(s) PROVE Good
<1>1. ShapeOf(Idle)
  BY DEF ShapeOf, Idle
<1>2. QED
  BY <1>1, IdleType, SessionUpdate DEF Finish, Good

\* The entity at the head of the list is done.
LEMMA AdvanceGood ==
    ASSUME TypeOK, Shape, NEW s \in Sessions, NEW p \in {"load", "redeliver"}, Advance(s, p),
           p = "load" => session[s].phase \in {"load", "store"}
    PROVE  Good
<1> DEFINE r == [session[s] EXCEPT !.phase = p, !.todo = session[s].todo \ {Current(s)}]
<1>1. r \in Session
  <2>1. session[s].todo \ {Current(s)} \in SUBSET Entities
    BY SessionType
  <2>2. QED
    BY <2>1, TodoField, SessionType, PhaseNames
<1>2. r.op = session[s].op /\ r.kinds = session[s].kinds /\ r.phase = p
  BY SessionType DEF Session
<1>3. ShapeOf(r)
  BY <1>2 DEF Shape, ShapeOf
<1>4. session' = [session EXCEPT ![s] = r]
  BY DEF Advance
<1> HIDE DEF r
<1>5. QED
  BY <1>1, <1>3, <1>4, SessionUpdate DEF Good

\* An operation begins; resolving and resetting have a direction to go through.
LEMMA StartGood ==
    ASSUME TypeOK, Shape, NEW s \in Sessions, Begin(s) PROVE Good
<1>1. ASSUME NEW o \in Ops, NEW ks \in Seq(Directions), Start(s, o, "list", ks),
             o \in {"resolve", "reset"} => ks # <<>>
      PROVE  Good
  <2> DEFINE r == [Idle EXCEPT !.op = o, !.phase = "list", !.kinds = ks]
  <2>1. r \in Session
    BY IdleType DEF Session, Phases
  <2>2. ShapeOf(r)
    BY <1>1 DEF ShapeOf, Idle
  <2>3. session' = [session EXCEPT ![s] = r]
    BY <1>1 DEF Start
  <2> HIDE DEF r
  <2>4. QED
    BY <2>1, <2>2, <2>3, SessionUpdate DEF Good
<1>2. <<>> \in Seq(Directions) /\ <<"source">> \in Seq(Directions) /\ <<"target">> \in Seq(Directions)
      /\ <<"source", "target">> \in Seq(Directions)
  BY DEF Directions
<1>3. <<"source">> # <<>> /\ <<"target">> # <<>> /\ <<"source", "target">> # <<>>
  OBVIOUS
<1>4. {"monitor", "rebaseline", "swap", "resolve", "reset"} \subseteq Ops
  BY DEF Ops
<1>5. QED
  BY <1>1, <1>2, <1>3, <1>4 DEF Begin

\* The same entity, one phase on.
LEMMA MoveGood ==
    ASSUME TypeOK, Shape, NEW s \in Sessions, NEW p \in {"store", "redeliver"}, Move(s, p),
           p = "store" => session[s].phase = "load" /\ session[s].todo # {}
    PROVE  Good
<1> DEFINE r == [session[s] EXCEPT !.phase = p]
<1>1. r \in Session
  BY PhaseField, SessionType, PhaseNames
<1>2. r.op = session[s].op /\ r.kinds = session[s].kinds /\ r.todo = session[s].todo /\ r.phase = p
  BY SessionType DEF Session
<1>3. ShapeOf(r)
  BY <1>2 DEF Shape, ShapeOf
<1>4. session' = [session EXCEPT ![s] = r]
  BY DEF Move
<1> HIDE DEF r
<1>5. QED
  BY <1>1, <1>3, <1>4, SessionUpdate DEF Good

\* One direction is done: what is left of the list is not empty, or the job ends.
LEMMA NextKindGood ==
    ASSUME TypeOK, Shape, NEW s \in Sessions, NextKind(s), session[s].phase = "load"
    PROVE  Good
<1>1. session[s].kinds # <<>> /\ session[s].kinds \in Seq(Directions)
  BY SessionType DEF Shape, ShapeOf
<1>2. CASE Len(session[s].kinds) = 1
  <2>1. Finish(s)
    BY <1>2 DEF NextKind, Finish
  <2>2. QED
    BY <2>1, FinishGood
<1>3. CASE Len(session[s].kinds) # 1
  <2> DEFINE r == [session[s] EXCEPT !.phase = "list", !.kinds = Tail(session[s].kinds)]
  <2>1. Tail(session[s].kinds) \in Seq(Directions) /\ Tail(session[s].kinds) # <<>>
    <3> DEFINE k == session[s].kinds
    <3>1. k \in Seq(Directions) /\ k # <<>> /\ Len(k) # 1
      BY <1>1, <1>3
    <3> HIDE DEF k
    <3>2. Len(k) \in Nat /\ Len(k) # 0 /\ Tail(k) \in Seq(Directions) /\ Len(Tail(k)) = Len(k) - 1
      BY <3>1
    <3>3. Len(Tail(k)) # 0
      BY <3>1, <3>2
    <3>4. Tail(k) # <<>>
      <4>1. Len(<<>>) = 0
        BY EmptySeq
      <4>2. QED
        BY <3>3, <4>1
    <3>5. QED
      BY <3>2, <3>4 DEF k
  <2>2. r \in Session
    BY <2>1, KindsField, SessionType, PhaseNames
  <2>3. r.kinds = Tail(session[s].kinds) /\ r.phase = "list"
    BY SessionType DEF Session
  <2>4. ShapeOf(r)
    BY <2>1, <2>3 DEF ShapeOf
  <2>5. session' = [session EXCEPT ![s] = r]
    BY <1>3 DEF NextKind
  <2> HIDE DEF r
  <2>6. QED
    BY <2>2, <2>4, <2>5, SessionUpdate DEF Good
<1>4. QED
  BY <1>2, <1>3

\* The steps that write what they have read into the record of their session.
LEMMA ReadGood ==
    ASSUME TypeOK, Shape, NEW s \in Sessions,
           MonitorRead(s) \/ RebaselineRead(s) \/ ListEntities(s) \/ ReadSource(s)
    PROVE  Good
<1>1. \A e \in Entities : Fingerprints(e) \in Fingerprint
  BY FingerprintType
<1>2. CASE MonitorRead(s)
  <2> DEFINE D == [e \in Entities |-> IF e \in paused THEN {} ELSE Drift(e)]
             r == [session[s] EXCEPT !.phase = "commit", !.drift = D]
  <2>1. D \in [Entities -> SUBSET Directions]
    BY DEF Drift
  <2>2. r \in Session
    BY <2>1, DriftField, SessionType, PhaseNames
  <2>3. r.op = session[s].op /\ r.kinds = session[s].kinds /\ r.phase = "commit"
    BY SessionType DEF Session
  <2>4. ShapeOf(r)
    BY <2>3 DEF Shape, ShapeOf
  <2>5. session' = [session EXCEPT ![s] = r]
    BY <1>2 DEF MonitorRead
  <2> HIDE DEF D, r
  <2>6. QED
    BY <2>2, <2>4, <2>5, SessionUpdate DEF Good
<1>3. CASE RebaselineRead(s)
  <2> DEFINE F == [e \in Entities |-> Fingerprints(e)]
             r == [session[s] EXCEPT !.phase = "commit", !.todo = paused, !.seen = F]
  <2>1. F \in [Entities -> Fingerprint] /\ paused \in SUBSET Entities
    BY <1>1 DEF TypeOK
  <2>2. r \in Session
    BY <2>1, ListAndSeenFields, SessionType, PhaseNames
  <2>3. r.op = session[s].op /\ r.kinds = session[s].kinds /\ r.phase = "commit"
    BY SessionType DEF Session
  <2>4. ShapeOf(r)
    BY <2>3 DEF Shape, ShapeOf
  <2>5. session' = [session EXCEPT ![s] = r]
    BY <1>3 DEF RebaselineRead
  <2> HIDE DEF F, r
  <2>6. QED
    BY <2>2, <2>4, <2>5, SessionUpdate DEF Good
<1>4. CASE ListEntities(s)
  <2> DEFINE T == IF session[s].op = "reset" THEN Entities \ paused
                  ELSE {e \in paused : Kind(s) \in reason[e]}
             r == [session[s] EXCEPT !.phase = "load", !.todo = T]
  <2>1. T \in SUBSET Entities
    BY DEF TypeOK
  <2>2. r \in Session
    BY <2>1, TodoField, SessionType, PhaseNames
  <2>3. r.op = session[s].op /\ r.kinds = session[s].kinds /\ r.phase = "load"
    BY SessionType DEF Session
  <2>4. ShapeOf(r)
    BY <1>4, <2>3 DEF Shape, ShapeOf, ListEntities
  <2>5. session' = [session EXCEPT ![s] = r]
    BY <1>4 DEF ListEntities
  <2> HIDE DEF T, r
  <2>6. QED
    BY <2>2, <2>4, <2>5, SessionUpdate DEF Good
<1>5. CASE ReadSource(s)
  <2> DEFINE F == [session[s].seen EXCEPT ![Current(s)] = Fingerprints(Current(s))]
             r == [session[s] EXCEPT !.phase = "store", !.seen = F]
  <2>1. session[s].todo # {} /\ Current(s) \in Entities /\ session[s].op = "reset"
    BY <1>5, CurrentType DEF ReadSource
  <2>2. F \in [Entities -> Fingerprint]
    BY <1>1, <2>1, SessionType
  <2>3. r \in Session
    BY <2>2, SeenField, SessionType, PhaseNames
  <2>4. r.op = session[s].op /\ r.kinds = session[s].kinds /\ r.todo = session[s].todo /\ r.phase = "store"
    BY SessionType DEF Session
  <2>5. ShapeOf(r)
    BY <2>1, <2>4 DEF Shape, ShapeOf
  <2>6. session' = [session EXCEPT ![s] = r]
    BY <1>5 DEF ReadSource
  <2> HIDE DEF F, r
  <2>7. QED
    BY <2>3, <2>5, <2>6, SessionUpdate DEF Good
<1>6. QED
  BY <1>2, <1>3, <1>4, <1>5

\* The steps of a job and of a swap that take an entity off a list.
LEMMA TakeOffGood ==
    ASSUME TypeOK, Shape, NEW s \in Sessions,
           \/ ResetStore(s) \/ SwapDeploy(s)
           \/ \E sure \in SUBSET Entities, force \in BOOLEAN : SwapRead(s, sure, force)
    PROVE  Good
<1>1. CASE ResetStore(s)
  <2> DEFINE r == [session[s] EXCEPT !.phase = "load", !.todo = session[s].todo \ {Current(s)}, !.seen = Unread]
  <2>1. Unread \in [Entities -> Fingerprint]
    BY IdleType
  <2>2. session[s].todo \ {Current(s)} \in SUBSET Entities
    BY SessionType
  <2>3. r \in Session
    BY <2>1, <2>2, ListAndSeenFields, SessionType, PhaseNames
  <2>4. r.op = session[s].op /\ r.kinds = session[s].kinds /\ r.phase = "load"
    BY SessionType DEF Session
  <2>5. ShapeOf(r)
    BY <1>1, <2>4 DEF Shape, ShapeOf, ResetStore
  <2>6. session' = [session EXCEPT ![s] = r]
    BY <1>1 DEF ResetStore
  <2> HIDE DEF r
  <2>7. QED
    BY <2>3, <2>5, <2>6, SessionUpdate DEF Good
<1>2. CASE SwapDeploy(s)
  <2> DEFINE T == session[s].also \ {FirstOf(session[s].also)}
             r == [session[s] EXCEPT !.also = T]
  <2>1. T \in SUBSET Entities
    BY SessionType
  <2>2. r \in Session
    BY <2>1, SessionType DEF Session
  <2>3. r.op = session[s].op /\ r.kinds = session[s].kinds /\ r.todo = session[s].todo
        /\ r.phase = session[s].phase
    BY SessionType DEF Session
  <2>4. ShapeOf(r)
    BY <2>3 DEF Shape, ShapeOf
  <2>5. session' = [session EXCEPT ![s] = r]
    BY <1>2 DEF SwapDeploy
  <2> HIDE DEF T, r
  <2>6. QED
    BY <2>2, <2>4, <2>5, SessionUpdate DEF Good
<1>3. ASSUME NEW sure \in SUBSET Entities, NEW force \in BOOLEAN, SwapRead(s, sure, force)
      PROVE  Good
  <2> DEFINE kept == Entities \ paused
             r == [session[s] EXCEPT !.phase = "deploy", !.todo = kept, !.also = sure]
  <2>1. kept \in SUBSET Entities
    OBVIOUS
  <2>2. CASE sure # Affected(kept) /\ ~force
    <3>1. Finish(s)
      BY <1>3, <2>2 DEF SwapRead, Finish
    <3>2. QED
      BY <3>1, FinishGood
  <2>3. CASE ~(sure # Affected(kept) /\ ~force)
    <3>1. r \in Session
      BY <2>1, SessionType DEF Session, Phases
    <3>2. r.op = session[s].op /\ r.kinds = session[s].kinds /\ r.phase = "deploy"
      BY SessionType DEF Session
    <3>3. ShapeOf(r)
      BY <3>2 DEF Shape, ShapeOf
    <3>4. session' = [session EXCEPT ![s] = r]
      BY <1>3, <2>3 DEF SwapRead
    <3>5. QED
      BY <3>1, <3>3, <3>4, SessionUpdate DEF Good
  <2>4. QED
    BY <2>2, <2>3
<1>4. QED
  BY <1>1, <1>2, <1>3

\* No step leaves a session out of shape.
LEMMA SessionsStep == TypeOK /\ Shape /\ [Next]_vars => Good
<1> SUFFICES ASSUME TypeOK, Shape, [Next]_vars PROVE Good
  OBVIOUS
<1>1. CASE UNCHANGED session
  BY <1>1 DEF Good, TypeOK, Shape
<1>2. ASSUME NEW s \in Sessions, Begin(s) PROVE Good
  BY <1>2, StartGood
<1>3. ASSUME NEW s \in Sessions, Job(s) PROVE Good
  <2>1. CASE ListEntities(s) \/ ReadSource(s)
    BY <2>1, ReadGood
  <2>2. CASE LoadEntity(s)
    BY <2>2, MoveGood DEF LoadEntity, Loads
  <2>3. CASE LoadFails(s)
    BY <2>3, AdvanceGood DEF LoadFails, Loads
  <2>4. CASE ResolveStore(s)
    BY <2>4, AdvanceGood DEF ResolveStore
  <2>5. CASE MarkReports(s) \/ ResetEnds(s)
    BY <2>5, NextKindGood DEF MarkReports, ResetEnds
  <2>6. CASE ResetStore(s)
    BY <2>6, TakeOffGood
  <2>7. QED
    BY <1>3, <2>1, <2>2, <2>3, <2>4, <2>5, <2>6 DEF Job
<1>4. ASSUME NEW s \in Sessions, Swap(s) PROVE Good
  <2>1. CASE SwapDeploy(s) \/ \E sure \in SUBSET Entities, force \in BOOLEAN : SwapRead(s, sure, force)
    BY <2>1, TakeOffGood
  <2>2. CASE SwapDeployFails(s) \/ SwapEnds(s)
    BY <2>2, FinishGood DEF SwapDeployFails, SwapEnds
  <2>3. CASE SwapRecreate(s)
    BY <2>3, MoveGood DEF SwapRecreate
  <2>4. CASE Redeliver(s) \/ RedeliverFails(s)
    BY <2>4, AdvanceGood DEF Redeliver, RedeliverFails
  <2>5. QED
    BY <1>4, <2>1, <2>2, <2>3, <2>4 DEF Swap
<1>5. ASSUME NEW s \in Sessions,
             Crash(s) \/ MonitorRead(s) \/ MonitorCommit(s) \/ RebaselineRead(s) \/ RebaselineCommit(s)
      PROVE  Good
  <2>1. CASE MonitorRead(s) \/ RebaselineRead(s)
    BY <2>1, ReadGood
  <2>2. CASE Crash(s) \/ MonitorCommit(s) \/ RebaselineCommit(s)
    BY <2>2, FinishGood DEF Crash, MonitorCommit, RebaselineCommit
  <2>3. QED
    BY <1>5, <2>1, <2>2
<1>6. (\E e \in Entities : ChangeSource(e)) \/ (\E t \in Tables : ChangeTarget(t)) \/ ResetPathB
      \/ UNCHANGED vars => UNCHANGED session
  BY DEF ChangeSource, ChangeTarget, ResetPathB, vars
<1>7. QED
  BY <1>1, <1>2, <1>3, <1>4, <1>5, <1>6 DEF Next

-----------------------------------------------------------------------------
(* The rows *)

\* What the rows need of a session that stores a fingerprint.
LEMMA Storing ==
    ASSUME TypeOK, Shape, NEW s \in Sessions, session[s].phase = "store"
    PROVE  Current(s) \in Entities /\ Kind(s) \in Directions
<1>1. session[s].todo # {} /\ session[s].kinds # <<>>
  BY DEF Shape, ShapeOf
<1>2. Kind(s) \in Directions
  BY <1>1, SessionType, HeadTailProperties DEF Kind
<1>3. QED
  BY <1>1, <1>2, CurrentType

\* These are the steps that store fingerprints.
LEMMA StoresOnly ==
    ASSUME [Next]_vars
    PROVE  \/ UNCHANGED stored
           \/ \E s \in Sessions : RebaselineCommit(s) \/ ResolveStore(s) \/ ResetStore(s) \/ SwapDeploy(s)
<1>1. ASSUME NEW s \in Sessions, Begin(s) PROVE UNCHANGED stored
  BY <1>1 DEF Begin, Start, rowVars
<1>2. ASSUME NEW s \in Sessions, Job(s), ~ResolveStore(s), ~ResetStore(s) PROVE UNCHANGED stored
  BY <1>2 DEF Job, ListEntities, LoadEntity, LoadFails, ReadSource, MarkReports, ResetEnds, rowVars
<1>3. ASSUME NEW s \in Sessions, Swap(s), ~SwapDeploy(s) PROVE UNCHANGED stored
  BY <1>3 DEF Swap, SwapRead, SwapDeployFails, SwapRecreate, Redeliver, RedeliverFails, SwapEnds, rowVars
<1>4. ASSUME NEW s \in Sessions, Crash(s) \/ MonitorRead(s) \/ MonitorCommit(s) \/ RebaselineRead(s)
        PROVE UNCHANGED stored
  BY <1>4 DEF Crash, MonitorRead, MonitorCommit, RebaselineRead, rowVars
<1>5. (\E e \in Entities : ChangeSource(e)) \/ (\E t \in Tables : ChangeTarget(t)) \/ ResetPathB
        \/ UNCHANGED vars => UNCHANGED stored
  BY DEF ChangeSource, ChangeTarget, ResetPathB, rowVars, vars
<1>6. QED
  BY <1>1, <1>2, <1>3, <1>4, <1>5 DEF Next

\* The fingerprints a step stores are fingerprints.
LEMMA StoredStep ==
    ASSUME TypeOK, Shape, [Next]_vars PROVE stored' \in [Entities -> Fingerprint]
<1>1. CASE UNCHANGED stored
  BY <1>1 DEF TypeOK
<1>2. ASSUME NEW e \in Entities, NEW d \in Directions, NEW g \in Fingerprint,
             stored' = [stored EXCEPT ![e][d] = g[d]]
      PROVE  stored' \in [Entities -> Fingerprint]
  <2>1. stored \in [Entities -> Fingerprint]
    BY DEF TypeOK
  <2>2. [stored[e] EXCEPT ![d] = g[d]] \in Fingerprint
    BY <2>1, DirectionType
  <2>3. stored' = [stored EXCEPT ![e] = [stored[e] EXCEPT ![d] = g[d]]]
    BY <1>2
  <2> HIDE DEF Fingerprint
  <2>4. QED
    BY <2>1, <2>2, <2>3
<1>3. ASSUME NEW s \in Sessions, RebaselineCommit(s) PROVE stored' \in [Entities -> Fingerprint]
  BY <1>3, SessionType DEF RebaselineCommit, TypeOK
<1>4. ASSUME NEW s \in Sessions, ResolveStore(s) PROVE stored' \in [Entities -> Fingerprint]
  <2>1. session[s].phase = "store"
    BY <1>4 DEF ResolveStore
  <2>2. stored' = [stored EXCEPT ![Current(s)][Kind(s)] = Fingerprints(Current(s))[Kind(s)]]
    BY <1>4 DEF ResolveStore
  <2>3. QED
    BY <1>2, <2>1, <2>2, Storing, FingerprintType
<1>5. ASSUME NEW s \in Sessions, ResetStore(s) PROVE stored' \in [Entities -> Fingerprint]
  <2> DEFINE e  == Current(s)
             fp == IF Kind(s) = "source" THEN session[s].seen[e] ELSE Fingerprints(e)
  <2>1. session[s].phase = "store" /\ e \in Entities /\ Kind(s) \in Directions
    BY <1>5, Storing DEF ResetStore
  <2>2. fp \in Fingerprint
    BY <2>1, FingerprintType, SessionType
  <2>3. stored' = [stored EXCEPT ![e][Kind(s)] = fp[Kind(s)]] \/ UNCHANGED stored
    BY <1>5 DEF ResetStore
  <2> HIDE DEF e, fp
  <2>4. QED
    BY <1>1, <1>2, <2>1, <2>2, <2>3
<1>6. ASSUME NEW s \in Sessions, SwapDeploy(s) PROVE stored' \in [Entities -> Fingerprint]
  <2> DEFINE e == FirstOf(session[s].also)
  <2>1. e \in Entities
    BY <1>6, SessionType, FirstOfIn DEF SwapDeploy
  <2>2. stored' = [stored EXCEPT ![e]["target"] = Fingerprints(e)["target"]]
    BY <1>6 DEF SwapDeploy
  <2> HIDE DEF e
  <2>3. QED
    BY <1>2, <2>1, <2>2, FingerprintType DEF Directions
<1>7. QED
  BY <1>1, <1>3, <1>4, <1>5, <1>6, StoresOnly

\* The structures of either database, and the bounds.
LEMMA SchemasStep ==
    ASSUME TypeOK, [Next]_vars
    PROVE  /\ src' \in [Entities -> Versions]
           /\ tgt' \in [Tables -> Versions]
           /\ changes' \in 0..MaxChanges
           /\ starts' \in 0..MaxStarts
           /\ crashes' \in 0..MaxCrashes
<1> DEFINE Same == UNCHANGED <<src, tgt, boundVars>>
<1>1. CASE Same
  BY <1>1 DEF TypeOK, boundVars
<1>2. changes < MaxChanges => changes + 2 \in Versions /\ changes + 1 \in 0..MaxChanges
  BY DEF TypeOK, Versions
<1>3. [t \in Tables |-> Registry] \in [Tables -> Versions]
  BY DEF Registry, Versions
<1>4. starts < MaxStarts => starts + 1 \in 0..MaxStarts
  BY DEF TypeOK
<1>5. crashes < MaxCrashes => crashes + 1 \in 0..MaxCrashes
  BY DEF TypeOK
<1>6. ASSUME NEW e \in Entities, ChangeSource(e)
      PROVE  /\ src' \in [Entities -> Versions] /\ UNCHANGED <<tgt, starts, crashes>>
             /\ changes' \in 0..MaxChanges
  BY <1>2, <1>6 DEF TypeOK, ChangeSource
<1>7. ASSUME NEW t \in Tables, ChangeTarget(t)
      PROVE  /\ tgt' \in [Tables -> Versions] /\ UNCHANGED <<src, starts, crashes>>
             /\ changes' \in 0..MaxChanges
  BY <1>2, <1>7 DEF TypeOK, ChangeTarget
<1>8. ASSUME ResetPathB
      PROVE  /\ tgt' \in [Tables -> Versions] /\ UNCHANGED <<src, changes, crashes>>
             /\ starts' \in 0..MaxStarts
  BY <1>3, <1>4, <1>8 DEF ResetPathB, Recreate
<1>9. ASSUME NEW s \in Sessions, Begin(s)
      PROVE  starts' \in 0..MaxStarts /\ UNCHANGED <<src, tgt, changes, crashes>>
  BY <1>4, <1>9 DEF Begin, Start
<1>10. ASSUME NEW s \in Sessions, Crash(s)
       PROVE  crashes' \in 0..MaxCrashes /\ UNCHANGED <<src, tgt, changes, starts>>
  BY <1>5, <1>10 DEF Crash
<1>11. ASSUME NEW s \in Sessions, SwapRecreate(s)
       PROVE  tgt' \in [Tables -> Versions] /\ UNCHANGED <<src, boundVars>>
  BY <1>3, <1>11 DEF SwapRecreate, Recreate
<1>12. ASSUME NEW s \in Sessions, Job(s) PROVE Same
  BY <1>12 DEF Job, ListEntities, LoadEntity, LoadFails, ReadSource, ResolveStore, MarkReports, ResetStore, ResetEnds
<1>13. ASSUME NEW s \in Sessions, Swap(s), ~SwapRecreate(s) PROVE Same
  BY <1>13 DEF Swap, SwapRead, SwapDeploy, SwapDeployFails, Redeliver, RedeliverFails, SwapEnds
<1>14. ASSUME NEW s \in Sessions,
              MonitorRead(s) \/ MonitorCommit(s) \/ RebaselineRead(s) \/ RebaselineCommit(s)
       PROVE  Same
  BY <1>14 DEF MonitorRead, MonitorCommit, RebaselineRead, RebaselineCommit
<1>15. CASE UNCHANGED vars
  BY <1>1, <1>15 DEF vars
<1>16. QED
  BY <1>1, <1>6, <1>7, <1>8, <1>9, <1>10, <1>11, <1>12, <1>13, <1>14, <1>15 DEF Next, TypeOK, boundVars

\* The status of the rows: whom they name.
LEMMA StatusStep ==
    ASSUME TypeOK, Shape, [Next]_vars
    PROVE  /\ paused' \subseteq Entities /\ enabled' \subseteq Entities /\ open' \subseteq Entities
           /\ reason' \in [Entities -> SUBSET Directions]
<1> DEFINE Same == UNCHANGED <<paused, reason, enabled, open>>
<1>1. CASE Same
  BY <1>1 DEF TypeOK
<1>2. ASSUME NEW S \in SUBSET Entities, Clear(S), UNCHANGED open
      PROVE  /\ paused' \subseteq Entities /\ enabled' \subseteq Entities /\ open' \subseteq Entities
             /\ reason' \in [Entities -> SUBSET Directions]
  BY <1>2 DEF TypeOK, Clear
<1>3. ASSUME NEW s \in Sessions, MonitorCommit(s)
      PROVE  /\ paused' \subseteq Entities /\ enabled' \subseteq Entities /\ open' \subseteq Entities
             /\ reason' \in [Entities -> SUBSET Directions]
  <2>1. session[s].drift \in [Entities -> SUBSET Directions]
    BY SessionType
  <2>2. QED
    BY <1>3, <2>1 DEF TypeOK, MonitorCommit
<1>4. ASSUME NEW s \in Sessions, RebaselineCommit(s) PROVE \E S \in SUBSET Entities : Clear(S) /\ UNCHANGED open
  BY <1>4, SessionType DEF RebaselineCommit
<1>5. ASSUME NEW s \in Sessions, ResolveStore(s) PROVE \E S \in SUBSET Entities : Clear(S) /\ UNCHANGED open
  <2>1. {Current(s)} \in SUBSET Entities
    BY <1>5, Storing DEF ResolveStore
  <2>2. QED
    BY <1>5, <2>1 DEF ResolveStore
<1>6. ASSUME NEW s \in Sessions, MarkReports(s)
      PROVE  UNCHANGED <<paused, reason, enabled>> /\ open' \subseteq Entities
  BY <1>6 DEF MarkReports, TypeOK
<1>7. ASSUME NEW s \in Sessions, SwapDeploy(s)
      PROVE  UNCHANGED <<reason, open>> /\ paused' \subseteq Entities /\ enabled' \subseteq Entities
  <2>1. FirstOf(session[s].also) \in Entities
    BY <1>7, SessionType, FirstOfIn DEF SwapDeploy
  <2>2. QED
    BY <1>7, <2>1 DEF SwapDeploy, TypeOK
<1>8. ASSUME NEW s \in Sessions, Job(s), ~ResolveStore(s), ~MarkReports(s) PROVE Same
  BY <1>8 DEF Job, ListEntities, LoadEntity, LoadFails, ReadSource, ResetStore, ResetEnds, rowVars
<1>9. ASSUME NEW s \in Sessions, Swap(s), ~SwapDeploy(s) PROVE Same
  BY <1>9 DEF Swap, SwapRead, SwapDeployFails, SwapRecreate, Redeliver, RedeliverFails, SwapEnds, rowVars
<1>10. ASSUME NEW s \in Sessions, Begin(s) \/ Crash(s) \/ MonitorRead(s) \/ RebaselineRead(s) PROVE Same
  BY <1>10 DEF Begin, Start, Crash, MonitorRead, RebaselineRead, rowVars
<1>11. (\E e \in Entities : ChangeSource(e)) \/ (\E t \in Tables : ChangeTarget(t)) \/ ResetPathB
       \/ UNCHANGED vars => Same
  BY DEF ChangeSource, ChangeTarget, ResetPathB, rowVars, vars
<1>12. QED
  BY <1>1, <1>2, <1>3, <1>4, <1>5, <1>6, <1>7, <1>8, <1>9, <1>10, <1>11 DEF Next, TypeOK

\* What the target holds, and the histories.
LEMMA LoadedStep ==
    ASSUME TypeOK, Shape, [Next]_vars
    PROVE  /\ loaded' \in [Entities -> {0} \cup Versions]
           /\ unloaded' \subseteq Entities /\ outdated' \subseteq Entities
<1> DEFINE Fine == /\ loaded' \in [Entities -> {0} \cup Versions]
                   /\ unloaded' \subseteq Entities /\ outdated' \subseteq Entities
           Same == UNCHANGED <<loaded, unloaded, outdated>>
<1>1. CASE Same
  BY <1>1 DEF TypeOK
<1>2. ASSUME NEW e \in Entities, Load(e), UNCHANGED outdated PROVE Fine
  BY <1>2 DEF Load, TypeOK
<1>3. ASSUME Recreate, unloaded' \subseteq Entities PROVE Fine
  BY <1>3 DEF Recreate, TypeOK
<1>4. ASSUME NEW s \in Sessions, Job(s) PROVE Fine
  <2>1. CASE LoadEntity(s)
    BY <1>2, <2>1, CurrentType DEF LoadEntity, Loads
  <2>2. CASE ResolveStore(s)
    BY <2>2, Storing DEF ResolveStore, TypeOK
  <2>3. CASE ResetStore(s)
    BY <2>3, Storing DEF ResetStore, TypeOK
  <2>4. CASE ListEntities(s) \/ LoadFails(s) \/ ReadSource(s) \/ MarkReports(s) \/ ResetEnds(s)
    BY <1>1, <2>4 DEF ListEntities, LoadFails, ReadSource, MarkReports, ResetEnds
  <2>5. QED
    BY <1>4, <2>1, <2>2, <2>3, <2>4 DEF Job
<1>5. ASSUME NEW s \in Sessions PROVE LeftBehind(s) \subseteq Entities
  BY SessionType DEF LeftBehind
<1>6. ASSUME NEW s \in Sessions, Swap(s) PROVE Fine
  <2>1. CASE SwapDeploy(s)
    BY <2>1, SessionType, FirstOfIn DEF SwapDeploy, TypeOK
  <2>2. CASE SwapDeployFails(s)
    BY <1>5, <2>2 DEF SwapDeployFails, TypeOK
  <2>3. CASE SwapRecreate(s)
    BY <1>3, <2>3 DEF SwapRecreate, TypeOK
  <2>4. CASE Redeliver(s)
    BY <1>2, <2>4, CurrentType DEF Redeliver
  <2>5. CASE RedeliverFails(s)
    BY <2>5, CurrentType DEF RedeliverFails, TypeOK
  <2>6. CASE SwapEnds(s) \/ \E sure \in SUBSET Entities, force \in BOOLEAN : SwapRead(s, sure, force)
    BY <1>1, <2>6 DEF SwapEnds, SwapRead
  <2>7. QED
    BY <1>6, <2>1, <2>2, <2>3, <2>4, <2>5, <2>6 DEF Swap
<1>7. ASSUME NEW s \in Sessions, Crash(s) PROVE Fine
  BY <1>5, <1>7 DEF Crash, TypeOK
<1>8. ASSUME NEW s \in Sessions, RebaselineCommit(s) PROVE Fine
  BY <1>8, SessionType DEF RebaselineCommit, TypeOK
<1>9. ASSUME NEW s \in Sessions, Begin(s) \/ MonitorRead(s) \/ MonitorCommit(s) \/ RebaselineRead(s) PROVE Same
  BY <1>9 DEF Begin, Start, MonitorRead, MonitorCommit, RebaselineRead
<1>10. ASSUME NEW e \in Entities, ChangeSource(e) PROVE Fine
  BY <1>10 DEF ChangeSource, TypeOK
<1>11. ASSUME ResetPathB PROVE Fine
  BY <1>3, <1>11 DEF ResetPathB
<1>12. (\E t \in Tables : ChangeTarget(t)) \/ UNCHANGED vars => Same
  BY DEF ChangeTarget, vars
<1>13. QED
  BY <1>1, <1>4, <1>6, <1>7, <1>8, <1>9, <1>10, <1>11, <1>12 DEF Next

\* Types and shape are kept by every step.
LEMMA TypeStep == TypeOK /\ Shape /\ [Next]_vars => TypeOK' /\ Shape'
BY SessionsStep, StoredStep, SchemasStep, StatusStep, LoadedStep DEF TypeOK, Good

-----------------------------------------------------------------------------
(* What has been stored, and whether a pause still has its reason *)

\* A fingerprint taken of a source that is at version v by now, before any of the
\* changes to come.
Taken(f, v, c) == f.source =< v /\ \A t \in DOMAIN f.target : f.target[t] =< c + 1

\* No structure is newer than the last change.
Made == (\A e \in Entities : src[e] =< changes + 1) /\ (\A t \in Tables : tgt[t] =< changes + 1)

\* One direction of a fingerprint replaced by that of another.
Mixed(f, g, d) == [f EXCEPT ![d] = g[d]]

\* What is stored, and what sessions have read and may store, was taken of
\* structures there have been.
Known ==
    /\ Made
    /\ \A e \in Entities :
          /\ Taken(stored[e], src[e], changes)
          /\ \A s \in Sessions : Taken(session[s].seen[e], src[e], changes)

\* What a monitor has found and not committed yet is still so.
Verdicts ==
    \A m \in Sessions : session[m].op = "monitor" /\ session[m].phase = "commit" =>
        \A e \in Entities \ outdated : session[m].drift[e] \subseteq Drift(e)

\* A pause names directions, and there is drift in all of them.
Pauses == \A e \in paused \ outdated : reason[e] # {} /\ reason[e] \subseteq Drift(e)

\* Later than a fingerprint was taken, it has still been taken.
LEMMA TakenStays ==
    ASSUME NEW f \in Fingerprint, NEW v \in Nat, NEW w \in Nat, NEW c \in Nat, NEW d \in Nat,
           Taken(f, v, c), v =< w, c =< d
    PROVE  Taken(f, w, d)
<1>1. f.source \in Nat
  BY DEF Fingerprint, Versions
<1>2. \A t \in DOMAIN f.target : f.target[t] \in Nat
  BY DEF Fingerprint, Versions
<1>3. QED
  BY <1>1, <1>2 DEF Taken

\* So has one with a direction of another.
LEMMA TakenMixed ==
    ASSUME NEW f \in Fingerprint, NEW g \in Fingerprint, NEW d \in Directions, NEW v \in Nat, NEW c \in Nat,
           Taken(f, v, c), Taken(g, v, c)
    PROVE  Taken(Mixed(f, g, d), v, c)
<1>1. CASE d = "source"
  BY <1>1 DEF Fingerprint, Taken, Mixed
<1>2. CASE d = "target"
  BY <1>2 DEF Fingerprint, Taken, Mixed
<1>3. QED
  BY <1>1, <1>2 DEF Directions

\* The versions there are are numbers.
LEMMA Numbers ==
    ASSUME TypeOK
    PROVE  /\ changes \in Nat /\ Versions \subseteq Nat
           /\ \A e \in Entities : src[e] \in Nat /\ src[e] >= 1
           /\ \A t \in Tables : tgt[t] \in Nat
BY DEF TypeOK, Versions

\* The fingerprints of an entity, taken now.
LEMMA TakenNow ==
    ASSUME TypeOK, Made, NEW e \in Entities
    PROVE  Fingerprints(e) \in Fingerprint /\ Taken(Fingerprints(e), src[e], changes)
<1>1. Fingerprints(e).source = src[e] /\ DOMAIN Fingerprints(e).target = Footprint[e]
      /\ \A t \in Footprint[e] : Fingerprints(e).target[t] = tgt[t]
  BY DEF Fingerprints
<1>2. Footprint[e] \subseteq Tables
  OBVIOUS
<1>3. Taken(Fingerprints(e), src[e], changes)
  BY <1>1, <1>2, Numbers DEF Made, Taken
<1>4. QED
  BY <1>3, FingerprintType

\* Versions only grow, and a new one is newer than all there are.
LEMMA SchemasGrow ==
    ASSUME TypeOK, Made, [Next]_vars
    PROVE  /\ changes =< changes' /\ Made'
           /\ \A e \in Entities : src[e] =< src'[e]
<1> DEFINE Same == UNCHANGED <<src, tgt, changes>>
           Grow == changes =< changes' /\ Made' /\ \A e \in Entities : src[e] =< src'[e]
<1>1. CASE Same
  BY <1>1, Numbers DEF Made
<1>2. ASSUME NEW e \in Entities, ChangeSource(e) PROVE Grow
  <2>1. \A x \in Entities : src'[x] = IF x = e THEN changes + 2 ELSE src[x]
    BY <1>2 DEF ChangeSource, TypeOK
  <2>2. changes' = changes + 1 /\ UNCHANGED tgt
    BY <1>2 DEF ChangeSource
  <2>3. QED
    BY <2>1, <2>2, Numbers DEF Made
<1>3. ASSUME NEW t \in Tables, ChangeTarget(t) PROVE Grow
  <2>1. \A x \in Tables : tgt'[x] = IF x = t THEN changes + 2 ELSE tgt[x]
    BY <1>3 DEF ChangeTarget, TypeOK
  <2>2. changes' = changes + 1 /\ UNCHANGED src
    BY <1>3 DEF ChangeTarget
  <2>3. QED
    BY <2>1, <2>2, Numbers DEF Made
<1>4. ASSUME Recreate, UNCHANGED <<src, changes>> PROVE Grow
  <2>1. \A x \in Tables : tgt'[x] = 1
    BY <1>4 DEF Recreate, Registry
  <2>2. QED
    BY <1>4, <2>1, Numbers DEF Made
<1>5. CASE ResetPathB
  BY <1>4, <1>5 DEF ResetPathB
<1>6. ASSUME NEW s \in Sessions, Begin(s) \/ Crash(s) PROVE Same
  BY <1>6 DEF Begin, Start, Crash
<1>7. ASSUME NEW s \in Sessions, Job(s) PROVE Same
  BY <1>7 DEF Job, ListEntities, LoadEntity, LoadFails, ReadSource, ResolveStore, MarkReports, ResetStore,
              ResetEnds, boundVars
<1>8. ASSUME NEW s \in Sessions, Swap(s), ~SwapRecreate(s) PROVE Same
  BY <1>8 DEF Swap, SwapRead, SwapDeploy, SwapDeployFails, Redeliver, RedeliverFails, SwapEnds, boundVars
<1>9. ASSUME NEW s \in Sessions, SwapRecreate(s) PROVE Grow
  BY <1>4, <1>9 DEF SwapRecreate, boundVars
<1>10. ASSUME NEW s \in Sessions,
              MonitorRead(s) \/ MonitorCommit(s) \/ RebaselineRead(s) \/ RebaselineCommit(s)
       PROVE  Same
  BY <1>10 DEF MonitorRead, MonitorCommit, RebaselineRead, RebaselineCommit, boundVars
<1>11. CASE UNCHANGED vars
  BY <1>1, <1>11 DEF vars, boundVars
<1>12. QED
  BY <1>1, <1>2, <1>3, <1>5, <1>6, <1>7, <1>8, <1>9, <1>10, <1>11 DEF Next

\* What a session has read: what it had, what is there now, or nothing any more.
LEMMA ReadStep ==
    ASSUME TypeOK, Shape, [Next]_vars, NEW x \in Sessions, NEW e \in Entities
    PROVE  session'[x].seen[e] \in {session[x].seen[e], Unread[e], Fingerprints(e)}
<1> DEFINE Fine == session'[x].seen[e] \in {session[x].seen[e], Unread[e], Fingerprints(e)}
<1>1. CASE UNCHANGED session
  BY <1>1
<1>2. ASSUME NEW s \in Sessions, NEW r \in Session, session' = [session EXCEPT ![s] = r],
             r.seen \in {session[s].seen, Unread}
      PROVE  Fine
  BY <1>2 DEF TypeOK
<1>3. ASSUME NEW s \in Sessions, Finish(s) PROVE Fine
  <2>1. Idle.seen = Unread
    BY DEF Idle
  <2>2. QED
    BY <1>2, <1>3, <2>1, IdleType DEF Finish
<1>4. ASSUME NEW s \in Sessions, NEW r, session' = [session EXCEPT ![s] = r], r.seen = session[s].seen
      PROVE  Fine
  BY <1>4 DEF TypeOK
<1>5. ASSUME NEW s \in Sessions, Begin(s) PROVE Fine
  <2>1. ASSUME NEW o, NEW ks, Start(s, o, "list", ks) PROVE Fine
    <3>1. [Idle EXCEPT !.op = o, !.phase = "list", !.kinds = ks].seen = session[s].seen
      BY <2>1 DEF Start, Idle
    <3>2. QED
      BY <1>4, <2>1, <3>1 DEF Start
  <2>2. QED
    BY <1>5, <2>1 DEF Begin
<1>6. ASSUME NEW s \in Sessions, NEW ph, Advance(s, ph) \/ Move(s, ph) PROVE Fine
  <2>1. [session[s] EXCEPT !.phase = ph, !.todo = session[s].todo \ {Current(s)}].seen = session[s].seen
        /\ [session[s] EXCEPT !.phase = ph].seen = session[s].seen
    BY SessionType DEF Session
  <2>2. QED
    BY <1>4, <1>6, <2>1 DEF Advance, Move
<1>7. ASSUME NEW s \in Sessions, NextKind(s) PROVE Fine
  <2>1. [session[s] EXCEPT !.phase = "list", !.kinds = Tail(session[s].kinds)].seen = session[s].seen
    BY SessionType DEF Session
  <2>2. QED
    BY <1>3, <1>4, <1>7, <2>1 DEF NextKind, Finish
<1>8. ASSUME NEW s \in Sessions, ReadSource(s) PROVE Fine
  <2> DEFINE F == [session[s].seen EXCEPT ![Current(s)] = Fingerprints(Current(s))]
  <2>1. F[e] \in {session[s].seen[e], Fingerprints(e)}
    BY SessionType
  <2>2. [session[s] EXCEPT !.phase = "store", !.seen = F].seen = F
    BY SessionType DEF Session
  <2>3. session' = [session EXCEPT ![s] = [session[s] EXCEPT !.phase = "store", !.seen = F]]
    BY <1>8 DEF ReadSource
  <2> HIDE DEF F
  <2>4. QED
    BY <2>1, <2>2, <2>3 DEF TypeOK
<1>9. ASSUME NEW s \in Sessions, RebaselineRead(s) PROVE Fine
  <2> DEFINE F == [y \in Entities |-> Fingerprints(y)]
  <2>1. F[e] = Fingerprints(e)
    OBVIOUS
  <2>2. [session[s] EXCEPT !.phase = "commit", !.todo = paused, !.seen = F].seen = F
    BY SessionType DEF Session
  <2>3. session' = [session EXCEPT ![s] = [session[s] EXCEPT !.phase = "commit", !.todo = paused, !.seen = F]]
    BY <1>9 DEF RebaselineRead
  <2> HIDE DEF F
  <2>4. QED
    BY <2>1, <2>2, <2>3 DEF TypeOK
<1>10. ASSUME NEW s \in Sessions, ResetStore(s) PROVE Fine
  <2> DEFINE r == [session[s] EXCEPT !.phase = "load", !.todo = session[s].todo \ {Current(s)}, !.seen = Unread]
  <2>1. r.seen = Unread
    BY SessionType DEF Session
  <2>2. session' = [session EXCEPT ![s] = r]
    BY <1>10 DEF ResetStore
  <2> HIDE DEF r
  <2>3. QED
    BY <2>1, <2>2 DEF TypeOK
<1>11. ASSUME NEW s \in Sessions, ListEntities(s) \/ MonitorRead(s) \/ SwapDeploy(s) PROVE Fine
  <2>1. ASSUME NEW T PROVE [session[s] EXCEPT !.phase = "load", !.todo = T].seen = session[s].seen
        /\ [session[s] EXCEPT !.phase = "commit", !.drift = T].seen = session[s].seen
        /\ [session[s] EXCEPT !.also = T].seen = session[s].seen
    BY SessionType DEF Session
  <2>2. CASE ListEntities(s)
    BY <1>4, <2>1, <2>2, Zenon DEF ListEntities
  <2>3. CASE MonitorRead(s)
    BY <1>4, <2>1, <2>3, Zenon DEF MonitorRead
  <2>4. CASE SwapDeploy(s)
    BY <1>4, <2>1, <2>4, Zenon DEF SwapDeploy
  <2>5. QED
    BY <1>11, <2>2, <2>3, <2>4
<1>12. ASSUME NEW s \in Sessions, NEW sure \in SUBSET Entities, NEW force \in BOOLEAN, SwapRead(s, sure, force)
       PROVE  Fine
  <2> DEFINE r == [session[s] EXCEPT !.phase = "deploy", !.todo = Entities \ paused, !.also = sure]
  <2>1. r.seen = session[s].seen
    BY SessionType DEF Session
  <2>2. Finish(s) \/ session' = [session EXCEPT ![s] = r]
    BY <1>12 DEF SwapRead, Finish
  <2> HIDE DEF r
  <2>3. QED
    BY <1>3, <1>4, <2>1, <2>2
<1>13. ASSUME NEW s \in Sessions, Job(s) PROVE Fine
  BY <1>1, <1>6, <1>7, <1>8, <1>10, <1>11, <1>13 DEF Job, LoadEntity, LoadFails, ResolveStore, MarkReports, ResetEnds
<1>14. ASSUME NEW s \in Sessions, Swap(s) PROVE Fine
  BY <1>3, <1>6, <1>11, <1>12, <1>14 DEF Swap, SwapDeployFails, SwapRecreate, Redeliver, RedeliverFails, SwapEnds
<1>15. ASSUME NEW s \in Sessions,
              Crash(s) \/ MonitorRead(s) \/ MonitorCommit(s) \/ RebaselineRead(s) \/ RebaselineCommit(s)
       PROVE  Fine
  BY <1>3, <1>9, <1>11, <1>15 DEF Crash, MonitorCommit, RebaselineCommit
<1>16. (\E y \in Entities : ChangeSource(y)) \/ (\E t \in Tables : ChangeTarget(t)) \/ ResetPathB
       \/ UNCHANGED vars => UNCHANGED session
  BY DEF ChangeSource, ChangeTarget, ResetPathB, vars
<1>17. QED
  BY <1>1, <1>5, <1>13, <1>14, <1>15, <1>16 DEF Next

\* A fingerprint that is stored comes from what is there now or from what a session
\* has read.
LEMMA StoredFrom ==
    ASSUME TypeOK, Shape, [Next]_vars, NEW e \in Entities
    PROVE  \/ stored'[e] = stored[e]
           \/ \E s \in Sessions : stored'[e] = session[s].seen[e]
           \/ \E s \in Sessions, d \in Directions : \E g \in {Fingerprints(e), session[s].seen[e]} :
                 stored'[e] = Mixed(stored[e], g, d)
<1> DEFINE Same  == stored'[e] = stored[e]
           Whole == \E s \in Sessions : stored'[e] = session[s].seen[e]
           Part  == \E s \in Sessions, d \in Directions : \E g \in {Fingerprints(e), session[s].seen[e]} :
                       stored'[e] = Mixed(stored[e], g, d)
<1>1. CASE UNCHANGED stored
  BY <1>1
<1>2. ASSUME NEW s \in Sessions, NEW x \in Entities, NEW d \in Directions,
             NEW g \in {Fingerprints(x), session[s].seen[x]}, stored' = [stored EXCEPT ![x][d] = g[d]]
      PROVE  Same \/ Part
  <2>1. stored' = [stored EXCEPT ![x] = [stored[x] EXCEPT ![d] = g[d]]]
    BY <1>2
  <2>2. CASE x = e
    <3>1. stored'[e] = Mixed(stored[e], g, d)
      BY <2>1, <2>2 DEF TypeOK, Mixed
    <3>2. QED
      BY <1>2, <2>2, <3>1
  <2>3. CASE x # e
    BY <2>1, <2>3 DEF TypeOK
  <2>4. QED
    BY <2>2, <2>3
<1>3. ASSUME NEW s \in Sessions, RebaselineCommit(s) PROVE Same \/ Whole
  BY <1>3 DEF RebaselineCommit
<1>4. ASSUME NEW s \in Sessions, ResolveStore(s) PROVE Same \/ Part
  <2>1. session[s].phase = "store"
    BY <1>4 DEF ResolveStore
  <2>2. stored' = [stored EXCEPT ![Current(s)][Kind(s)] = Fingerprints(Current(s))[Kind(s)]]
    BY <1>4 DEF ResolveStore
  <2>3. QED
    BY <1>2, <2>1, <2>2, Storing
<1>5. ASSUME NEW s \in Sessions, ResetStore(s) PROVE Same \/ Part
  <2> DEFINE x  == Current(s)
             fp == IF Kind(s) = "source" THEN session[s].seen[x] ELSE Fingerprints(x)
  <2>1. session[s].phase = "store" /\ x \in Entities /\ Kind(s) \in Directions
    BY <1>5, Storing DEF ResetStore
  <2>2. stored' = [stored EXCEPT ![x][Kind(s)] = fp[Kind(s)]] \/ UNCHANGED stored
    BY <1>5 DEF ResetStore
  <2>3. fp \in {Fingerprints(x), session[s].seen[x]}
    OBVIOUS
  <2> HIDE DEF x, fp, Part
  <2>4. CASE stored' = [stored EXCEPT ![x][Kind(s)] = fp[Kind(s)]]
    <3> HIDE DEF Same
    <3>1. QED
      BY <1>2, <2>1, <2>3, <2>4
  <2>5. QED
    BY <1>1, <2>2, <2>4
<1>6. ASSUME NEW s \in Sessions, SwapDeploy(s) PROVE Same \/ Part
  <2> DEFINE x == FirstOf(session[s].also)
  <2>1. x \in Entities
    BY <1>6, SessionType, FirstOfIn DEF SwapDeploy
  <2>2. stored' = [stored EXCEPT ![x]["target"] = Fingerprints(x)["target"]]
    BY <1>6 DEF SwapDeploy
  <2> HIDE DEF x
  <2>3. QED
    BY <1>2, <2>1, <2>2 DEF Directions
<1>7. QED
  BY <1>1, <1>3, <1>4, <1>5, <1>6, StoresOnly

\* Nothing is stored that was not taken of a structure there has been.
LEMMA KnownStep ==
    ASSUME TypeOK, TypeOK', Shape, Known, [Next]_vars PROVE Known'
<1>1. Made' /\ changes =< changes' /\ \A e \in Entities : src[e] =< src'[e]
  BY SchemasGrow DEF Known
<1>2. ASSUME NEW e \in Entities, NEW f \in Fingerprint, Taken(f, src[e], changes)
      PROVE  Taken(f, src'[e], changes')
  <2>1. src[e] \in Nat /\ changes \in Nat /\ src'[e] \in Nat /\ changes' \in Nat
    BY DEF TypeOK, Versions
  <2>2. QED
    BY <1>1, <1>2, <2>1, TakenStays
<1>3. ASSUME NEW e \in Entities
      PROVE  /\ Fingerprints(e) \in Fingerprint /\ Taken(Fingerprints(e), src[e], changes)
             /\ stored[e] \in Fingerprint /\ Taken(stored[e], src[e], changes)
             /\ src[e] \in Nat /\ changes \in Nat
  BY TakenNow, Numbers DEF TypeOK, Known
<1>4. ASSUME NEW e \in Entities, NEW s \in Sessions
      PROVE  session[s].seen[e] \in Fingerprint /\ Taken(session[s].seen[e], src[e], changes)
  BY SessionType DEF Known
<1>5. ASSUME NEW e \in Entities
      PROVE  Unread[e] \in Fingerprint /\ Taken(Unread[e], src[e], changes)
  <2>1. Unread[e].source = 1 /\ DOMAIN Unread[e].target = {}
    BY DEF Unread, Registry
  <2>2. QED
    BY <2>1, IdleType, Numbers DEF Taken
<1>6. ASSUME NEW e \in Entities PROVE Taken(stored'[e], src'[e], changes')
  <2>1. CASE stored'[e] = stored[e]
    BY <1>2, <1>3, <2>1
  <2>2. ASSUME NEW s \in Sessions, stored'[e] = session[s].seen[e] PROVE Taken(stored'[e], src'[e], changes')
    BY <1>2, <1>4, <2>2
  <2>3. ASSUME NEW s \in Sessions, NEW d \in Directions, NEW g \in {Fingerprints(e), session[s].seen[e]},
               stored'[e] = Mixed(stored[e], g, d)
        PROVE  Taken(stored'[e], src'[e], changes')
    <3>1. g \in Fingerprint /\ Taken(g, src[e], changes)
      BY <1>3, <1>4
    <3>2. Taken(stored'[e], src[e], changes)
      BY <1>3, <2>3, <3>1, TakenMixed
    <3>3. stored'[e] \in Fingerprint
      BY DEF TypeOK
    <3>4. QED
      BY <1>2, <3>2, <3>3
  <2>4. QED
    BY <2>1, <2>2, <2>3, StoredFrom
<1>7. ASSUME NEW e \in Entities, NEW s \in Sessions PROVE Taken(session'[s].seen[e], src'[e], changes')
  <2>1. session'[s].seen[e] \in {session[s].seen[e], Unread[e], Fingerprints(e)}
    BY ReadStep
  <2>2. session'[s].seen[e] \in Fingerprint /\ Taken(session'[s].seen[e], src[e], changes)
    BY <1>3, <1>4, <1>5, <2>1
  <2>3. QED
    BY <1>2, <2>2
<1>8. QED
  BY <1>1, <1>6, <1>7 DEF Known

\* Who has been outdated remains so.
LEMMA OutdatedStays == [Next]_vars => outdated \subseteq outdated'
<1> SUFFICES ASSUME [Next]_vars PROVE outdated \subseteq outdated'
  OBVIOUS
<1>1. ASSUME NEW s \in Sessions, Begin(s) \/ Crash(s) PROVE UNCHANGED outdated
  BY <1>1 DEF Begin, Start, Crash
<1>2. ASSUME NEW s \in Sessions, Job(s) PROVE outdated \subseteq outdated'
  BY <1>2 DEF Job, ListEntities, LoadEntity, LoadFails, ReadSource, ResolveStore, MarkReports, ResetStore, ResetEnds
<1>3. ASSUME NEW s \in Sessions, Swap(s) PROVE outdated \subseteq outdated'
  BY <1>3 DEF Swap, SwapRead, SwapDeploy, SwapDeployFails, SwapRecreate, Recreate, Redeliver, RedeliverFails, SwapEnds
<1>4. ASSUME NEW s \in Sessions,
             MonitorRead(s) \/ MonitorCommit(s) \/ RebaselineRead(s) \/ RebaselineCommit(s)
      PROVE  outdated \subseteq outdated'
  BY <1>4 DEF MonitorRead, MonitorCommit, RebaselineRead, RebaselineCommit
<1>5. (\E e \in Entities : ChangeSource(e)) \/ (\E t \in Tables : ChangeTarget(t)) \/ ResetPathB
      \/ UNCHANGED vars => outdated \subseteq outdated'
  BY DEF ChangeSource, ChangeTarget, ResetPathB, Recreate, vars
<1>6. QED
  BY <1>1, <1>2, <1>3, <1>4, <1>5 DEF Next

\* Whoever stores a fingerprint leaves the entity deployed, and outdates the
\* verdicts on it.
LEMMA StoringSettles ==
    ASSUME TypeOK, Shape, [Next]_vars, NEW e \in Entities, stored'[e] # stored[e]
    PROVE  e \notin paused' /\ (Watched(e) => e \in outdated')
<1> DEFINE Settled == e \notin paused' /\ (Watched(e) => e \in outdated')
<1>1. ASSUME NEW s \in Sessions, RebaselineCommit(s) PROVE Settled
  <2>1. e \in session[s].todo
    BY <1>1 DEF RebaselineCommit, TypeOK
  <2>2. QED
    BY <1>1, <2>1 DEF RebaselineCommit, Clear
<1>2. ASSUME NEW s \in Sessions, NEW x \in Entities, NEW d, NEW v, stored' = [stored EXCEPT ![x][d] = v]
      PROVE  x = e
  BY <1>2 DEF TypeOK
<1>3. ASSUME NEW s \in Sessions, ResolveStore(s) PROVE Settled
  <2>1. Current(s) \in Entities
    BY <1>3, Storing DEF ResolveStore
  <2>2. Current(s) = e
    BY <1>2, <1>3, <2>1, Zenon DEF ResolveStore
  <2>3. QED
    BY <1>3, <2>2 DEF ResolveStore, Clear
<1>4. ASSUME NEW s \in Sessions, ResetStore(s) PROVE Settled
  <2> DEFINE fp == IF Kind(s) = "source" THEN session[s].seen[Current(s)] ELSE Fingerprints(Current(s))
  <2>1. Current(s) \in Entities
    BY <1>4, Storing DEF ResetStore
  <2>2. /\ Current(s) \notin paused /\ UNCHANGED paused
        /\ stored' = [stored EXCEPT ![Current(s)][Kind(s)] = fp[Kind(s)]]
        /\ outdated' = IF Watched(Current(s)) THEN outdated \cup {Current(s)} ELSE outdated
    BY <1>4 DEF ResetStore, StillDeployed
  <2> HIDE DEF fp
  <2>3. Current(s) = e
    BY <1>2, <2>1, <2>2
  <2>4. QED
    BY <2>2, <2>3
<1>5. ASSUME NEW s \in Sessions, SwapDeploy(s) PROVE Settled
  <2> DEFINE x == FirstOf(session[s].also)
  <2>1. x \in Entities
    BY <1>5, SessionType, FirstOfIn DEF SwapDeploy
  <2>2. /\ stored' = [stored EXCEPT ![x]["target"] = Fingerprints(x)["target"]]
        /\ paused' = paused \ {x}
        /\ outdated' = IF Watched(x) THEN outdated \cup {x} ELSE outdated
    BY <1>5 DEF SwapDeploy
  <2> HIDE DEF x
  <2>3. x = e
    BY <1>2, <2>1, <2>2
  <2>4. QED
    BY <2>2, <2>3
<1>6. QED
  BY <1>1, <1>3, <1>4, <1>5, StoresOnly

\* Drift does not go away as long as nobody stores a fingerprint or recreates the
\* target: a structure that changes again becomes one there has not been.
LEMMA DriftStays ==
    ASSUME TypeOK, Shape, Known, [Next]_vars, NEW e \in Entities, stored'[e] = stored[e],
           e \in paused \/ Watched(e), e \notin outdated'
    PROVE  Drift(e) \subseteq Drift(e)'
<1> DEFINE Now  == [t \in Footprint[e] |-> tgt[t]]
           Then == [t \in Footprint[e] |-> tgt'[t]]
<1>1. /\ "source" \in Drift(e) <=> stored[e].source # src[e]
      /\ "target" \in Drift(e) <=> stored[e].target # Now
      /\ "source" \in Drift(e)' <=> stored[e].source # src'[e]
      /\ "target" \in Drift(e)' <=> stored[e].target # Then
  BY DEF Drift, Fingerprints, Directions
<1>2. ASSUME stored[e].source # src[e] => stored[e].source # src'[e],
             stored[e].target # Now => stored[e].target # Then
      PROVE  Drift(e) \subseteq Drift(e)'
  BY <1>1, <1>2 DEF Drift, Directions
<1>3. CASE UNCHANGED <<src, tgt>>
  BY <1>2, <1>3
<1>4. stored[e].source =< src[e] /\ src[e] =< changes + 1 /\ changes \in Nat /\ src[e] \in Nat
      /\ stored[e].source \in Nat
  BY Numbers DEF Known, Made, Taken, TypeOK, Fingerprint
<1>5. ASSUME NEW x \in Entities, ChangeSource(x) PROVE Drift(e) \subseteq Drift(e)'
  <2>1. src'[e] = IF x = e THEN changes + 2 ELSE src[e]
    BY <1>5 DEF ChangeSource, TypeOK
  <2>2. stored[e].source # src[e] => stored[e].source # src'[e]
    BY <1>4, <2>1
  <2>3. UNCHANGED tgt
    BY <1>5 DEF ChangeSource
  <2>4. QED
    BY <1>2, <2>2, <2>3
<1>6. ASSUME NEW t \in Tables, ChangeTarget(t) PROVE Drift(e) \subseteq Drift(e)'
  <2>1. \A u \in Tables : tgt'[u] = IF u = t THEN changes + 2 ELSE tgt[u]
    BY <1>6 DEF ChangeTarget, TypeOK
  <2>2. Footprint[e] \subseteq Tables /\ UNCHANGED src
    BY <1>6 DEF ChangeTarget
  <2>3. CASE t \in Footprint[e]
    <3>1. Then[t] = changes + 2 /\ DOMAIN Then = Footprint[e]
      BY <2>1, <2>3
    <3>2. \A u \in DOMAIN stored[e].target : stored[e].target[u] \in Nat /\ stored[e].target[u] =< changes + 1
      BY Numbers DEF Known, Taken, TypeOK, Fingerprint
    <3>3. stored[e].target # Then
      <4> HIDE DEF Then
      <4>1. QED
        BY <1>4, <2>3, <3>1, <3>2
    <3>4. QED
      BY <1>2, <2>2, <3>3
  <2>4. CASE t \notin Footprint[e]
    <3>1. \A u \in Footprint[e] : tgt'[u] = tgt[u]
      BY <2>1, <2>2, <2>4
    <3>2. Then = Now
      BY <3>1
    <3>3. QED
      BY <1>2, <2>2, <3>2
  <2>5. QED
    BY <2>3, <2>4
<1>7. ASSUME Recreate, UNCHANGED src PROVE Drift(e) \subseteq Drift(e)'
  <2>1. \A t \in Footprint[e] : tgt[t] = Registry /\ tgt'[t] = Registry
    <3>1. Footprint[e] \subseteq Tables
      OBVIOUS
    <3>2. QED
      BY <1>7, <3>1 DEF Recreate
  <2>2. Then = Now
    BY <2>1
  <2>3. QED
    BY <1>2, <1>7, <2>2
<1>8. ASSUME NEW s \in Sessions, Begin(s) \/ Crash(s) PROVE UNCHANGED <<src, tgt>>
  BY <1>8 DEF Begin, Start, Crash
<1>9. ASSUME NEW s \in Sessions, Job(s) PROVE UNCHANGED <<src, tgt>>
  BY <1>9 DEF Job, ListEntities, LoadEntity, LoadFails, ReadSource, ResolveStore, MarkReports, ResetStore, ResetEnds
<1>10. ASSUME NEW s \in Sessions, Swap(s), ~SwapRecreate(s) PROVE UNCHANGED <<src, tgt>>
  BY <1>10 DEF Swap, SwapRead, SwapDeploy, SwapDeployFails, Redeliver, RedeliverFails, SwapEnds
<1>11. ASSUME NEW s \in Sessions,
              MonitorRead(s) \/ MonitorCommit(s) \/ RebaselineRead(s) \/ RebaselineCommit(s)
       PROVE  UNCHANGED <<src, tgt>>
  BY <1>11 DEF MonitorRead, MonitorCommit, RebaselineRead, RebaselineCommit
<1>12. CASE UNCHANGED vars
  BY <1>3, <1>12 DEF vars
<1>13. CASE ResetPathB \/ \E s \in Sessions : SwapRecreate(s)
  BY <1>7, <1>13 DEF ResetPathB, SwapRecreate
<1>14. QED
  BY <1>3, <1>5, <1>6, <1>8, <1>9, <1>10, <1>11, <1>12, <1>13 DEF Next

\* A pause is an earlier one, or a monitor's.
LEMMA PausedStep ==
    ASSUME TypeOK, Shape, [Next]_vars, NEW e \in paused'
    PROVE  \/ e \in paused /\ reason'[e] = reason[e]
           \/ \E s \in Sessions : MonitorCommit(s) /\ session[s].drift[e] # {} /\ reason'[e] = session[s].drift[e]
<1> DEFINE Stays == e \in paused /\ reason'[e] = reason[e]
<1>1. e \in Entities
  BY TypeStep DEF TypeOK
<1>2. CASE UNCHANGED <<paused, reason>>
  BY <1>2
<1>3. ASSUME NEW S, Clear(S) PROVE Stays
  BY <1>1, <1>3 DEF Clear
<1>4. ASSUME NEW s \in Sessions, MonitorCommit(s)
      PROVE  \/ Stays
             \/ session[s].drift[e] # {} /\ reason'[e] = session[s].drift[e]
  BY <1>1, <1>4 DEF MonitorCommit
<1>5. ASSUME NEW s \in Sessions, Job(s) PROVE Stays
  <2>1. CASE ResolveStore(s)
    BY <1>3, <2>1 DEF ResolveStore
  <2>2. CASE ~ResolveStore(s)
    BY <1>2, <1>5, <2>2 DEF Job, ListEntities, LoadEntity, LoadFails, ReadSource, MarkReports, ResetStore, ResetEnds, rowVars
  <2>3. QED
    BY <2>1, <2>2
<1>6. ASSUME NEW s \in Sessions, Swap(s) PROVE Stays
  BY <1>6 DEF Swap, SwapRead, SwapDeploy, SwapDeployFails, SwapRecreate, Redeliver, RedeliverFails, SwapEnds, rowVars
<1>7. ASSUME NEW s \in Sessions, Begin(s) \/ Crash(s) \/ MonitorRead(s) \/ RebaselineRead(s) \/ RebaselineCommit(s)
      PROVE  Stays
  BY <1>2, <1>3, <1>7 DEF Begin, Start, Crash, MonitorRead, RebaselineRead, RebaselineCommit, rowVars
<1>8. (\E x \in Entities : ChangeSource(x)) \/ (\E t \in Tables : ChangeTarget(t)) \/ ResetPathB
      \/ UNCHANGED vars => UNCHANGED <<paused, reason>>
  BY DEF ChangeSource, ChangeTarget, ResetPathB, rowVars, vars
<1>9. QED
  BY <1>2, <1>4, <1>5, <1>6, <1>7, <1>8 DEF Next

\* What session x itself can do.
Own(x) ==
    \/ Begin(x) \/ Job(x) \/ Swap(x) \/ Crash(x)
    \/ MonitorRead(x) \/ MonitorCommit(x) \/ RebaselineRead(x) \/ RebaselineCommit(x)

\* A session changes by its own steps only.
LEMMA OwnStep ==
    ASSUME TypeOK, [Next]_vars, NEW x \in Sessions, session'[x] # session[x] PROVE Own(x)
<1>1. ASSUME NEW s \in Sessions, NEW r, session' = [session EXCEPT ![s] = r] PROVE s = x
  BY <1>1 DEF TypeOK
<1>2. ASSUME NEW s \in Sessions, NEW ph, Finish(s) \/ Move(s, ph) \/ Advance(s, ph) \/ NextKind(s)
      PROVE  s = x
  BY <1>1, <1>2, Zenon DEF Finish, Move, Advance, NextKind
<1>3. ASSUME NEW s \in Sessions, Begin(s) PROVE s = x
  BY <1>1, <1>3 DEF Begin, Start
<1>4. ASSUME NEW s \in Sessions, Job(s) PROVE s = x
  <2>1. CASE ListEntities(s) \/ ReadSource(s) \/ ResetStore(s)
    BY <1>1, <2>1, Zenon DEF ListEntities, ReadSource, ResetStore
  <2>2. CASE LoadEntity(s) \/ LoadFails(s) \/ ResolveStore(s) \/ MarkReports(s) \/ ResetEnds(s)
    BY <1>2, <2>2 DEF LoadEntity, LoadFails, ResolveStore, MarkReports, ResetEnds
  <2>3. QED
    BY <1>4, <2>1, <2>2 DEF Job
<1>5. ASSUME NEW s \in Sessions, Swap(s) PROVE s = x
  <2>1. ASSUME NEW sure \in SUBSET Entities, NEW force \in BOOLEAN, SwapRead(s, sure, force) PROVE s = x
    BY <1>1, <2>1, Zenon DEF SwapRead
  <2>2. CASE SwapDeploy(s)
    BY <1>1, <2>2, Zenon DEF SwapDeploy
  <2>3. CASE SwapDeployFails(s) \/ SwapRecreate(s) \/ Redeliver(s) \/ RedeliverFails(s) \/ SwapEnds(s)
    BY <1>2, <2>3 DEF SwapDeployFails, SwapRecreate, Redeliver, RedeliverFails, SwapEnds
  <2>4. QED
    BY <1>5, <2>1, <2>2, <2>3 DEF Swap
<1>6. ASSUME NEW s \in Sessions,
             Crash(s) \/ MonitorRead(s) \/ MonitorCommit(s) \/ RebaselineRead(s) \/ RebaselineCommit(s)
      PROVE  s = x
  <2>1. CASE MonitorRead(s) \/ RebaselineRead(s)
    BY <1>1, <2>1, Zenon DEF MonitorRead, RebaselineRead
  <2>2. CASE Crash(s) \/ MonitorCommit(s) \/ RebaselineCommit(s)
    BY <1>2, <2>2 DEF Crash, MonitorCommit, RebaselineCommit
  <2>3. QED
    BY <1>6, <2>1, <2>2
<1>7. (\E y \in Entities : ChangeSource(y)) \/ (\E t \in Tables : ChangeTarget(t)) \/ ResetPathB
      \/ UNCHANGED vars => UNCHANGED session
  BY DEF ChangeSource, ChangeTarget, ResetPathB, vars
<1>8. QED
  BY <1>3, <1>4, <1>5, <1>6, <1>7 DEF Next, Own

\* Where a session is after a step of its own.
LEMMA OwnPhase ==
    ASSUME TypeOK, Shape, NEW x \in Sessions, Own(x)
    PROVE  \/ session'[x].phase \notin {"commit", "deploy", "redeliver", "store"}
           \/ Swap(x) \/ LoadEntity(x)
           \/ MonitorRead(x) /\ session'[x].phase = "commit"
           \/ session'[x].op # "monitor" /\ session'[x].phase = "commit"
           \/ session'[x].op # "resolve" /\ session'[x].phase = "store"
<1> DEFINE Away == session'[x].phase \notin {"commit", "deploy", "redeliver", "store"}
<1>1. ASSUME NEW r, session' = [session EXCEPT ![x] = r] PROVE session'[x] = r
  BY <1>1 DEF TypeOK
<1>2. ASSUME Finish(x) PROVE Away
  <2>1. session'[x] = Idle /\ Idle.phase = "idle"
    BY <1>1, <1>2 DEF Finish, Idle
  <2>2. QED
    BY <2>1
<1>3. ASSUME Begin(x) PROVE Away
  <2>1. ASSUME NEW o, NEW ks, Start(x, o, "list", ks) PROVE Away
    BY <1>1, <2>1 DEF Start, Idle
  <2>2. QED
    BY <1>3, <2>1 DEF Begin
<1>4. ASSUME Advance(x, "load") PROVE Away
  <2>1. [session[x] EXCEPT !.phase = "load", !.todo = session[x].todo \ {Current(x)}].phase = "load"
    BY SessionType DEF Session
  <2>2. QED
    BY <1>1, <1>4, <2>1 DEF Advance
<1>5. ASSUME NextKind(x) PROVE Away
  <2>1. [session[x] EXCEPT !.phase = "list", !.kinds = Tail(session[x].kinds)].phase = "list"
    BY SessionType DEF Session
  <2>2. QED
    BY <1>1, <1>2, <1>5, <2>1 DEF NextKind, Finish
<1>6. ASSUME NEW F
      PROVE  /\ [session[x] EXCEPT !.phase = "store", !.seen = F].phase = "store"
             /\ [session[x] EXCEPT !.phase = "store", !.seen = F].op = session[x].op
  BY SessionType DEF Session
<1>7. CASE ListEntities(x)
  <2> DEFINE r == [session[x] EXCEPT !.phase = "load", !.todo = IF session[x].op = "reset" THEN Entities \ paused
                                                             ELSE {e \in paused : Kind(x) \in reason[e]}]
  <2>1. r.phase = "load"
    BY SessionType DEF Session
  <2>2. session' = [session EXCEPT ![x] = r]
    BY <1>7 DEF ListEntities
  <2> HIDE DEF r
  <2>3. QED
    BY <1>1, <2>1, <2>2
<1>8. CASE ReadSource(x)
  <2>1. session[x].op = "reset"
    BY <1>8 DEF ReadSource
  <2>2. session'[x].phase = "store" /\ session'[x].op = session[x].op
    <3> DEFINE F == [session[x].seen EXCEPT ![Current(x)] = Fingerprints(Current(x))]
    <3>1. session' = [session EXCEPT ![x] = [session[x] EXCEPT !.phase = "store", !.seen = F]]
      BY <1>8 DEF ReadSource
    <3> HIDE DEF F
    <3>2. session'[x] = [session[x] EXCEPT !.phase = "store", !.seen = F]
      BY <1>1, <3>1
    <3>3. QED
      BY <1>6, <3>2
  <2>3. QED
    BY <2>1, <2>2
<1>9. CASE ResetStore(x)
  <2> DEFINE r == [session[x] EXCEPT !.phase = "load", !.todo = session[x].todo \ {Current(x)}, !.seen = Unread]
  <2>1. r.phase = "load"
    BY SessionType DEF Session
  <2>2. session' = [session EXCEPT ![x] = r]
    BY <1>9 DEF ResetStore
  <2> HIDE DEF r
  <2>3. QED
    BY <1>1, <2>1, <2>2
<1>10. CASE RebaselineRead(x)
  <2> DEFINE r == [session[x] EXCEPT !.phase = "commit", !.todo = paused,
                     !.seen = [e \in Entities |-> Fingerprints(e)]]
  <2>1. r.phase = "commit" /\ r.op = session[x].op
    BY SessionType DEF Session
  <2>2. session' = [session EXCEPT ![x] = r] /\ session[x].op = "rebaseline"
    BY <1>10 DEF RebaselineRead
  <2> HIDE DEF r
  <2>3. QED
    BY <1>1, <2>1, <2>2
<1>11. CASE LoadFails(x) \/ ResolveStore(x)
  BY <1>4, <1>11 DEF LoadFails, ResolveStore
<1>12. CASE MarkReports(x) \/ ResetEnds(x)
  BY <1>5, <1>12 DEF MarkReports, ResetEnds
<1>13. CASE Crash(x) \/ MonitorCommit(x) \/ RebaselineCommit(x)
  BY <1>2, <1>13 DEF Crash, MonitorCommit, RebaselineCommit
<1>14. CASE MonitorRead(x)
  <2> DEFINE r == [session[x] EXCEPT !.phase = "commit",
                     !.drift = [e \in Entities |-> IF e \in paused THEN {} ELSE Drift(e)]]
  <2>1. r.phase = "commit"
    BY SessionType DEF Session
  <2>2. session' = [session EXCEPT ![x] = r]
    BY <1>14 DEF MonitorRead
  <2> HIDE DEF r
  <2>3. QED
    BY <1>1, <1>14, <2>1, <2>2
<1>15. QED
  BY <1>3, <1>7, <1>8, <1>9, <1>10, <1>11, <1>12, <1>13, <1>14 DEF Own, Job

\* A swap's record after a step of its own.
LEMMA SwapStep ==
    ASSUME TypeOK, Shape, NEW s \in Sessions, Swap(s)
    PROVE  \/ session'[s] = Idle
           \/ /\ \E sure \in SUBSET Entities, force \in BOOLEAN : SwapRead(s, sure, force)
              /\ session'[s].phase = "deploy" /\ session'[s].also \subseteq session'[s].todo
           \/ /\ SwapDeploy(s) /\ session'[s].phase = "deploy" /\ session'[s].todo = session[s].todo
              /\ session'[s].also = session[s].also \ {FirstOf(session[s].also)}
           \/ /\ SwapRecreate(s) /\ session'[s].phase = "redeliver"
              /\ session'[s].todo = session[s].todo /\ session'[s].also = {}
           \/ /\ Redeliver(s) \/ RedeliverFails(s)
              /\ session'[s].phase = "redeliver" /\ session'[s].also = session[s].also
              /\ session'[s].todo = session[s].todo \ {Current(s)}
<1>1. ASSUME NEW r, session' = [session EXCEPT ![s] = r] PROVE session'[s] = r
  BY <1>1 DEF TypeOK
<1>2. CASE SwapDeployFails(s) \/ SwapEnds(s)
  BY <1>1, <1>2 DEF SwapDeployFails, SwapEnds, Finish
<1>3. ASSUME NEW sure \in SUBSET Entities, NEW force \in BOOLEAN, SwapRead(s, sure, force)
      PROVE  \/ session'[s] = Idle
             \/ session'[s].phase = "deploy" /\ session'[s].also \subseteq session'[s].todo
  <2> DEFINE r == [session[s] EXCEPT !.phase = "deploy", !.todo = Entities \ paused, !.also = sure]
  <2>1. r.phase = "deploy" /\ r.also = sure /\ r.todo = Entities \ paused
    BY SessionType DEF Session
  <2>2. session' = [session EXCEPT ![s] = Idle] \/ session' = [session EXCEPT ![s] = r]
    BY <1>3 DEF SwapRead
  <2>3. sure \subseteq Entities \ paused
    BY <1>3 DEF SwapRead, Affected
  <2> HIDE DEF r
  <2>4. QED
    BY <1>1, <2>1, <2>2, <2>3
<1>4. ASSUME SwapDeploy(s)
      PROVE  /\ session'[s].phase = "deploy" /\ session'[s].todo = session[s].todo
             /\ session'[s].also = session[s].also \ {FirstOf(session[s].also)}
  <2> DEFINE T == session[s].also \ {FirstOf(session[s].also)}
             r == [session[s] EXCEPT !.also = T]
  <2>1. r.phase = session[s].phase /\ r.also = T /\ r.todo = session[s].todo
    BY SessionType DEF Session
  <2>2. session' = [session EXCEPT ![s] = r] /\ session[s].phase = "deploy"
    BY <1>4 DEF SwapDeploy
  <2> HIDE DEF r
  <2>3. QED
    BY <1>1, <2>1, <2>2
<1>5. ASSUME SwapRecreate(s)
      PROVE  /\ session'[s].phase = "redeliver"
             /\ session'[s].todo = session[s].todo /\ session'[s].also = {}
  <2> DEFINE r == [session[s] EXCEPT !.phase = "redeliver"]
  <2>1. r.phase = "redeliver" /\ r.also = session[s].also /\ r.todo = session[s].todo
    BY SessionType DEF Session
  <2>2. session' = [session EXCEPT ![s] = r] /\ session[s].also = {}
    BY <1>5 DEF SwapRecreate, Move
  <2> HIDE DEF r
  <2>3. QED
    BY <1>1, <2>1, <2>2
<1>6. ASSUME Redeliver(s) \/ RedeliverFails(s)
      PROVE  /\ session'[s].phase = "redeliver" /\ session'[s].also = session[s].also
             /\ session'[s].todo = session[s].todo \ {Current(s)}
  <2> DEFINE T == session[s].todo \ {Current(s)}
             r == [session[s] EXCEPT !.phase = "redeliver", !.todo = T]
  <2>1. r.phase = "redeliver" /\ r.also = session[s].also /\ r.todo = T
    BY SessionType DEF Session
  <2>2. session' = [session EXCEPT ![s] = r]
    BY <1>6 DEF Redeliver, RedeliverFails, Advance
  <2> HIDE DEF r
  <2>3. QED
    BY <1>1, <2>1, <2>2
<1>7. QED
  BY <1>2, <1>3, <1>4, <1>5, <1>6 DEF Swap

\* A verdict is one the monitor had before, or has just found.
LEMMA VerdictFrom ==
    ASSUME TypeOK, Shape, [Next]_vars, NEW m \in Sessions,
           session'[m].op = "monitor", session'[m].phase = "commit"
    PROVE  session'[m] = session[m] \/ MonitorRead(m)
<1>1. CASE Swap(m)
  <2>1. Idle.phase = "idle"
    BY DEF Idle
  <2>2. QED
    BY <1>1, <2>1, SwapStep
<1>2. CASE LoadEntity(m)
  <2>1. session'[m] = [session[m] EXCEPT !.phase = "store"]
    BY <1>2 DEF LoadEntity, Move, TypeOK
  <2>2. QED
    BY <2>1, SessionType DEF Session
<1>3. QED
  BY <1>1, <1>2, OwnStep, OwnPhase

\* Verdicts remain right, or their entities are known to be outdated.
LEMMA VerdictsStep ==
    ASSUME TypeOK, Shape, Known, Verdicts, [Next]_vars PROVE Verdicts'
<1> SUFFICES ASSUME NEW m \in Sessions, session'[m].op = "monitor", session'[m].phase = "commit",
                    NEW e \in Entities, e \notin outdated'
             PROVE  session'[m].drift[e] \subseteq Drift(e)'
  BY DEF Verdicts
<1>1. CASE session'[m] = session[m]
  <2>1. e \notin outdated
    BY OutdatedStays
  <2>2. session[m].drift[e] \subseteq Drift(e)
    BY <1>1, <2>1 DEF Verdicts
  <2>3. CASE session[m].drift[e] = {}
    BY <1>1, <2>3
  <2>4. CASE session[m].drift[e] # {}
    <3>1. Watched(e)
      BY <1>1, <2>4 DEF Watched
    <3>2. stored'[e] = stored[e]
      BY <3>1, StoringSettles
    <3>3. Drift(e) \subseteq Drift(e)'
      BY <3>1, <3>2, DriftStays
    <3>4. QED
      BY <1>1, <2>2, <3>3
  <2>5. QED
    BY <2>3, <2>4
<1>2. CASE MonitorRead(m)
  <2> DEFINE D == [x \in Entities |-> IF x \in paused THEN {} ELSE Drift(x)]
  <2>1. session'[m].drift = D
    BY <1>2, SessionType DEF MonitorRead, Session, TypeOK
  <2>2. UNCHANGED <<src, tgt, stored>>
    BY <1>2 DEF MonitorRead, rowVars
  <2>3. D[e] \subseteq Drift(e)
    OBVIOUS
  <2>4. Drift(e)' = Drift(e)
    BY <2>2 DEF Drift, Fingerprints
  <2>5. QED
    BY <2>1, <2>3, <2>4
<1>3. QED
  BY <1>1, <1>2, VerdictFrom

\* A pause goes back to a verdict, and its drift remains while it lasts.
LEMMA PausesStep ==
    ASSUME TypeOK, Shape, Known, Verdicts, Pauses, [Next]_vars PROVE Pauses'
<1> SUFFICES ASSUME NEW e \in paused', e \notin outdated'
             PROVE  reason'[e] # {} /\ reason'[e] \subseteq Drift(e)'
  BY DEF Pauses
<1>1. e \in Entities /\ e \notin outdated
  BY TypeStep, OutdatedStays DEF TypeOK
<1>2. stored'[e] = stored[e]
  BY <1>1, StoringSettles
<1>3. CASE e \in paused /\ reason'[e] = reason[e]
  <2>1. Drift(e) \subseteq Drift(e)'
    BY <1>1, <1>2, <1>3, DriftStays
  <2>2. QED
    BY <1>1, <1>3, <2>1 DEF Pauses
<1>4. ASSUME NEW s \in Sessions, MonitorCommit(s), session[s].drift[e] # {}, reason'[e] = session[s].drift[e]
      PROVE  reason'[e] # {} /\ reason'[e] \subseteq Drift(e)'
  <2>1. session[s].drift[e] \subseteq Drift(e) /\ Watched(e)
    BY <1>1, <1>4 DEF MonitorCommit, Verdicts, Watched
  <2>2. Drift(e) \subseteq Drift(e)'
    BY <1>1, <1>2, <2>1, DriftStays
  <2>3. QED
    BY <1>4, <2>1, <2>2
<1>5. QED
  BY <1>3, <1>4, PausedStep

\* At first everything is as it was deployed.
LEMMA KnownInit == Init => Known /\ Verdicts /\ Pauses
<1> SUFFICES ASSUME Init PROVE Known /\ Verdicts /\ Pauses
  OBVIOUS
<1>1. Made
  BY DEF Init, Made, Registry
<1>2. ASSUME NEW e \in Entities PROVE Taken(stored[e], src[e], changes)
  <2>1. stored[e] = Fingerprints(e)
    BY DEF Init
  <2>2. QED
    BY <1>1, <2>1, TakenNow, TypeInit
<1>3. ASSUME NEW e \in Entities, NEW s \in Sessions PROVE Taken(session[s].seen[e], src[e], changes)
  <2>1. session[s].seen[e].source = 1 /\ DOMAIN session[s].seen[e].target = {} /\ src[e] = 1
    BY DEF Init, Idle, Unread, Registry
  <2>2. QED
    BY <2>1 DEF Taken
<1>4. Known
  BY <1>1, <1>2, <1>3 DEF Known
<1>5. Verdicts
  BY DEF Init, Verdicts, Idle
<1>6. Pauses
  BY DEF Init, Pauses
<1>7. QED
  BY <1>4, <1>5, <1>6

-----------------------------------------------------------------------------
(* What is in the target of the deployed entities *)

\* A swap deploys entities it has listed.
Listed == \A s \in Sessions : session[s].phase = "deploy" => session[s].also \subseteq session[s].todo

\* What a resolution is about to clear has been loaded, as the source still is, or is
\* known not to be.
Settling ==
    \A s \in Sessions : session[s].phase = "store" /\ session[s].op = "resolve" =>
        Current(s) \in unloaded \/ loaded[Current(s)] = src[Current(s)]

\* The rows of e come from a source at least as new as the one that is stored.
Fresh(e) == loaded[e] # 0 /\ stored[e].source =< loaded[e]

\* Rows of what is deployed are fresh, or a swap is still to load them.
Rows ==
    \A e \in Entities \ (paused \cup unloaded) : Fresh(e) \/ \E s \in Sessions : e \in LeftBehind(s)

\* A swap goes on to deploy entities it has listed.
LEMMA ListedStep == ASSUME TypeOK, Shape, Listed, [Next]_vars PROVE Listed'
<1> SUFFICES ASSUME NEW s \in Sessions, session'[s].phase = "deploy"
             PROVE  session'[s].also \subseteq session'[s].todo
  BY DEF Listed
<1>1. CASE session'[s] = session[s]
  BY <1>1 DEF Listed
<1>2. CASE LoadEntity(s)
  <2>1. session'[s] = [session[s] EXCEPT !.phase = "store"]
    BY <1>2 DEF LoadEntity, Move, TypeOK
  <2>2. QED
    BY <2>1, SessionType DEF Session
<1>3. CASE Swap(s)
  <2>1. Idle.phase # "deploy"
    BY DEF Idle
  <2>2. SwapDeploy(s) => session[s].phase = "deploy"
    BY DEF SwapDeploy
  <2>3. QED
    BY <1>3, <2>1, <2>2, SwapStep DEF Listed
<1>4. QED
  BY <1>1, <1>2, <1>3, OwnStep, OwnPhase

\* These are the steps that bring rows into the target or take them out.
LEMMA LoadsOnly ==
    ASSUME TypeOK, Shape, [Next]_vars
    PROVE  \/ UNCHANGED loaded /\ unloaded \subseteq unloaded'
           \/ ResetPathB
           \/ \E s \in Sessions : LoadEntity(s) \/ Redeliver(s) \/ SwapRecreate(s)
<1> DEFINE Same == UNCHANGED loaded /\ unloaded \subseteq unloaded'
<1>1. ASSUME NEW s \in Sessions, Begin(s) PROVE Same
  BY <1>1 DEF Begin, Start
<1>2. ASSUME NEW s \in Sessions, Job(s), ~LoadEntity(s) PROVE Same
  BY <1>2 DEF Job, ListEntities, LoadFails, ReadSource, ResolveStore, MarkReports, ResetStore, ResetEnds
<1>3. ASSUME NEW s \in Sessions, Swap(s), ~Redeliver(s), ~SwapRecreate(s) PROVE Same
  BY <1>3 DEF Swap, SwapRead, SwapDeploy, SwapDeployFails, RedeliverFails, SwapEnds
<1>4. ASSUME NEW s \in Sessions,
             Crash(s) \/ MonitorRead(s) \/ MonitorCommit(s) \/ RebaselineRead(s) \/ RebaselineCommit(s)
      PROVE  Same
  BY <1>4 DEF Crash, MonitorRead, MonitorCommit, RebaselineRead, RebaselineCommit
<1>5. (\E e \in Entities : ChangeSource(e)) \/ (\E t \in Tables : ChangeTarget(t)) \/ UNCHANGED vars => Same
  BY DEF ChangeSource, ChangeTarget, vars
<1>6. QED
  BY <1>1, <1>2, <1>3, <1>4, <1>5 DEF Next

\* A source changes by itself.
LEMMA SourceOnly ==
    ASSUME [Next]_vars
    PROVE  UNCHANGED src \/ \E e \in Entities : ChangeSource(e)
<1>1. ASSUME NEW s \in Sessions, Begin(s) \/ Crash(s) PROVE UNCHANGED src
  BY <1>1 DEF Begin, Start, Crash
<1>2. ASSUME NEW s \in Sessions, Job(s) PROVE UNCHANGED src
  BY <1>2 DEF Job, ListEntities, LoadEntity, LoadFails, ReadSource, ResolveStore, MarkReports, ResetStore, ResetEnds
<1>3. ASSUME NEW s \in Sessions, Swap(s) PROVE UNCHANGED src
  BY <1>3 DEF Swap, SwapRead, SwapDeploy, SwapDeployFails, SwapRecreate, Redeliver, RedeliverFails, SwapEnds
<1>4. ASSUME NEW s \in Sessions,
             MonitorRead(s) \/ MonitorCommit(s) \/ RebaselineRead(s) \/ RebaselineCommit(s)
      PROVE  UNCHANGED src
  BY <1>4 DEF MonitorRead, MonitorCommit, RebaselineRead, RebaselineCommit
<1>5. (\E t \in Tables : ChangeTarget(t)) \/ ResetPathB \/ UNCHANGED vars => UNCHANGED src
  BY DEF ChangeTarget, ResetPathB, vars
<1>6. QED
  BY <1>1, <1>2, <1>3, <1>4, <1>5 DEF Next

\* Whoever loads an entity loads one it has listed, from the source as it is.
LEMMA LoadStep ==
    ASSUME TypeOK, Shape, NEW s \in Sessions, LoadEntity(s) \/ Redeliver(s), NEW e \in Entities
    PROVE  /\ UNCHANGED src
           /\ e = Current(s) => loaded'[e] = src[e]
           /\ e # Current(s) => loaded'[e] = loaded[e] /\ (e \in unloaded => e \in unloaded')
<1>1. Load(Current(s)) /\ UNCHANGED src
  BY DEF LoadEntity, Redeliver
<1>2. QED
  BY <1>1 DEF Load, TypeOK

\* What is being settled stays loaded, or known not to be.
LEMMA SettlingStep == ASSUME TypeOK, Shape, Settling, [Next]_vars PROVE Settling'
<1> SUFFICES ASSUME NEW s \in Sessions, session'[s].phase = "store", session'[s].op = "resolve"
             PROVE  FirstOf(session'[s].todo) \in unloaded'
                    \/ loaded'[FirstOf(session'[s].todo)] = src'[FirstOf(session'[s].todo)]
  BY DEF Settling, Current
<1> DEFINE e == Current(s)
<1>1. CASE session'[s] = session[s]
  <2>1. FirstOf(session'[s].todo) = e /\ session[s].phase = "store" /\ session[s].op = "resolve"
    BY <1>1 DEF Current
  <2>2. session[s].todo # {}
    BY <2>1 DEF Shape, ShapeOf
  <2>3. e \in session[s].todo /\ e \in Entities
    BY <2>2, CurrentType
  <2>4. e \in unloaded \/ loaded[e] = src[e]
    BY <2>1 DEF Settling
  <2> HIDE DEF e
  <2>5. CASE ResetPathB
    BY <2>1, <2>3, <2>5 DEF ResetPathB
  <2>6. ASSUME NEW x \in Sessions, SwapRecreate(x) PROVE e \in unloaded'
    <3>1. x # s
      BY <2>1, <2>6 DEF SwapRecreate
    <3>2. QED
      BY <2>1, <2>3, <2>6, <3>1 DEF SwapRecreate
  <2>7. ASSUME NEW x \in Sessions, LoadEntity(x) \/ Redeliver(x) PROVE e \in unloaded' \/ loaded'[e] = src'[e]
    BY <2>3, <2>4, <2>7, LoadStep
  <2>8. CASE UNCHANGED loaded /\ unloaded \subseteq unloaded'
    <3>1. CASE UNCHANGED src
      BY <2>1, <2>4, <2>8, <3>1
    <3>2. ASSUME NEW x \in Entities, ChangeSource(x) PROVE e \in unloaded' \/ loaded'[e] = src'[e]
      <4>1. CASE x = e
        BY <2>1, <2>3, <3>2, <4>1 DEF ChangeSource
      <4>2. CASE x # e
        <5>1. src'[e] = src[e]
          BY <2>3, <3>2, <4>2 DEF ChangeSource, TypeOK
        <5>2. QED
          BY <2>4, <2>8, <5>1
      <4>3. QED
        BY <4>1, <4>2
    <3>3. QED
      BY <2>1, <3>1, <3>2, SourceOnly
  <2>9. QED
    BY <2>1, <2>5, <2>6, <2>7, <2>8, LoadsOnly
<1>2. CASE LoadEntity(s)
  <2>1. session'[s].todo = session[s].todo
    <3>1. session'[s] = [session[s] EXCEPT !.phase = "store"]
      BY <1>2 DEF LoadEntity, Move, TypeOK
    <3>2. QED
      BY <3>1, SessionType DEF Session
  <2>2. e \in Entities /\ FirstOf(session'[s].todo) = e
    BY <1>2, <2>1, CurrentType DEF LoadEntity, Loads, Current
  <2> HIDE DEF e
  <2>3. loaded'[e] = src[e] /\ UNCHANGED src
    BY <1>2, <2>2, LoadStep DEF e
  <2>4. QED
    BY <2>2, <2>3
<1>3. CASE Swap(s)
  <2>1. Idle.phase # "store"
    BY DEF Idle
  <2>2. session'[s].phase # "store"
    BY <1>3, <2>1, SwapStep
  <2>3. QED
    BY <2>2
<1>4. QED
  BY <1>1, <1>2, <1>3, OwnStep, OwnPhase

\* Rows loaded from the source as it is are fresh.
LEMMA ThenFresh ==
    ASSUME TypeOK', Known', NEW e \in Entities, loaded'[e] = src'[e] PROVE Fresh(e)'
<1>1. src'[e] \in Nat /\ src'[e] # 0
  BY DEF TypeOK, Versions
<1>2. stored'[e].source =< src'[e]
  BY DEF Known, Taken
<1>3. QED
  BY <1>1, <1>2 DEF Fresh

\* A pause ends with a re-baseline, a resolution or a deployment.
LEMMA PausedStays ==
    ASSUME [Next]_vars, ~\E s \in Sessions : RebaselineCommit(s) \/ ResolveStore(s) \/ SwapDeploy(s)
    PROVE  paused \subseteq paused'
<1>1. ASSUME NEW s \in Sessions, Begin(s) \/ Crash(s) PROVE UNCHANGED paused
  BY <1>1 DEF Begin, Start, Crash, rowVars
<1>2. ASSUME NEW s \in Sessions, Job(s) PROVE UNCHANGED paused
  BY <1>2 DEF Job, ListEntities, LoadEntity, LoadFails, ReadSource, MarkReports, ResetStore, ResetEnds, rowVars
<1>3. ASSUME NEW s \in Sessions, Swap(s) PROVE UNCHANGED paused
  BY <1>3 DEF Swap, SwapRead, SwapDeployFails, SwapRecreate, Redeliver, RedeliverFails, SwapEnds, rowVars
<1>4. ASSUME NEW s \in Sessions, MonitorRead(s) \/ MonitorCommit(s) \/ RebaselineRead(s)
      PROVE  paused \subseteq paused'
  BY <1>4 DEF MonitorRead, MonitorCommit, RebaselineRead, rowVars
<1>5. (\E e \in Entities : ChangeSource(e)) \/ (\E t \in Tables : ChangeTarget(t)) \/ ResetPathB
      \/ UNCHANGED vars => UNCHANGED paused
  BY DEF ChangeSource, ChangeTarget, ResetPathB, rowVars, vars
<1>6. QED
  BY <1>1, <1>2, <1>3, <1>4, <1>5 DEF Next

\* What a swap is still to load it loads, or it is known that nobody does.
LEMMA LeftStays ==
    ASSUME TypeOK, TypeOK', Shape, Known', [Next]_vars, NEW s \in Sessions,
           NEW e \in LeftBehind(s), e \notin unloaded'
    PROVE  e \in LeftBehind(s)' \/ Fresh(e)'
<1>1. session[s].phase \in {"deploy", "redeliver"} /\ e \in session[s].todo /\ e \notin session[s].also
  BY DEF LeftBehind
<1>2. e \in Entities
  BY <1>1, SessionType
<1>3. CASE session'[s] = session[s]
  BY <1>3 DEF LeftBehind
<1>4. ASSUME Own(s), ~Swap(s), ~Crash(s) PROVE FALSE
  BY <1>1, <1>4 DEF Own, Begin, Start, Idle, Job, ListEntities, LoadEntity, LoadFails, Loads, ReadSource,
              ResolveStore, MarkReports, ResetStore, ResetEnds, MonitorRead, MonitorCommit,
              RebaselineRead, RebaselineCommit
<1>5. CASE Crash(s) \/ SwapDeployFails(s)
  BY <1>5 DEF Crash, SwapDeployFails
<1>6. CASE SwapEnds(s)
  BY <1>1, <1>6 DEF SwapEnds
<1>7. CASE SwapDeploy(s) \/ SwapRecreate(s)
  <2>1. CASE SwapDeploy(s)
    <3>1. session[s].phase = "deploy"
      BY <2>1 DEF SwapDeploy
    <3> DEFINE T == session[s].also \ {FirstOf(session[s].also)}
               r == [session[s] EXCEPT !.also = T]
    <3>2. r.phase = session[s].phase /\ r.also = T /\ r.todo = session[s].todo
      BY SessionType DEF Session
    <3>3. session' = [session EXCEPT ![s] = r]
      BY <2>1 DEF SwapDeploy
    <3> HIDE DEF r
    <3>4. session'[s] = r
      BY <3>3 DEF TypeOK
    <3>5. QED
      BY <1>1, <3>2, <3>4 DEF LeftBehind
  <2>2. CASE SwapRecreate(s)
    <3> DEFINE r == [session[s] EXCEPT !.phase = "redeliver"]
    <3>1. r.phase = "redeliver" /\ r.also = session[s].also /\ r.todo = session[s].todo
      BY SessionType DEF Session
    <3>2. session' = [session EXCEPT ![s] = r]
      BY <2>2 DEF SwapRecreate, Move
    <3> HIDE DEF r
    <3>3. session'[s] = r
      BY <3>2 DEF TypeOK
    <3>4. QED
      BY <1>1, <3>1, <3>3 DEF LeftBehind
  <2>3. QED
    BY <1>7, <2>1, <2>2
<1>8. CASE Redeliver(s) \/ RedeliverFails(s)
  <2> DEFINE T == session[s].todo \ {Current(s)}
             r == [session[s] EXCEPT !.phase = "redeliver", !.todo = T]
  <2>1. r.phase = "redeliver" /\ r.also = session[s].also /\ r.todo = T
    BY SessionType DEF Session
  <2>2. session' = [session EXCEPT ![s] = r]
    BY <1>8 DEF Redeliver, RedeliverFails, Advance
  <2> HIDE DEF r
  <2>3. session'[s] = r
    BY <2>2 DEF TypeOK
  <2>4. CASE e # Current(s)
    BY <1>1, <2>1, <2>3, <2>4 DEF LeftBehind
  <2>5. CASE e = Current(s)
    <3>1. Redeliver(s)
      BY <1>8, <2>5 DEF RedeliverFails
    <3>2. loaded'[e] = src'[e]
      BY <1>2, <2>5, <3>1, LoadStep
    <3>3. QED
      BY <1>2, <3>2, ThenFresh
  <2>6. QED
    BY <2>4, <2>5
<1>9. ASSUME NEW sure \in SUBSET Entities, NEW force \in BOOLEAN, SwapRead(s, sure, force) PROVE FALSE
  BY <1>1, <1>9 DEF SwapRead
<1>10. QED
  BY <1>3, <1>4, <1>5, <1>6, <1>7, <1>8, <1>9, OwnStep DEF Swap

\* Rows of what is deployed remain fresh, or left to a swap.
LEMMA RowsStep ==
    ASSUME TypeOK, TypeOK', Shape, Known', Listed, Settling, Rows, [Next]_vars PROVE Rows'
<1> SUFFICES ASSUME NEW e \in Entities, e \notin paused', e \notin unloaded'
             PROVE  Fresh(e)' \/ \E s \in Sessions : e \in LeftBehind(s)'
  BY DEF Rows
<1> DEFINE Fine  == Fresh(e)' \/ \E s \in Sessions : e \in LeftBehind(s)'
           Quiet == /\ loaded'[e] = loaded[e] /\ stored'[e].source = stored[e].source
                    /\ e \in paused => e \in paused'
                    /\ e \in unloaded => e \in unloaded'
<1>1. ASSUME Quiet PROVE Fine
  <2>1. e \notin paused /\ e \notin unloaded
    BY <1>1
  <2>2. CASE Fresh(e)
    BY <1>1, <2>2 DEF Fresh
  <2>3. ASSUME NEW s \in Sessions, e \in LeftBehind(s) PROVE Fine
    BY <2>3, LeftStays
  <2>4. QED
    BY <2>1, <2>2, <2>3 DEF Rows
<1>2. loaded'[e] = src'[e] => Fine
  BY ThenFresh
<1>3. ASSUME NEW s \in Sessions, LoadEntity(s) \/ Redeliver(s) PROVE Fine
  <2>1. CASE e = Current(s)
    BY <1>2, <1>3, <2>1, LoadStep
  <2>2. CASE e # Current(s)
    <3>1. UNCHANGED <<stored, paused>>
      BY <1>3 DEF LoadEntity, Redeliver, rowVars
    <3>2. QED
      BY <1>1, <1>3, <2>2, <3>1, LoadStep
  <2>3. QED
    BY <2>1, <2>2
<1>4. ASSUME NEW s \in Sessions, SwapRecreate(s) PROVE Fine
  <2>1. e \in session[s].todo
    BY <1>4 DEF SwapRecreate, rowVars
  <2>2. session[s].phase = "deploy" /\ session[s].also = {}
    BY <1>4 DEF SwapRecreate
  <2>3. e \in LeftBehind(s)
    BY <2>1, <2>2 DEF LeftBehind
  <2>4. QED
    BY <2>3, LeftStays
<1>5. ASSUME NEW s \in Sessions, RebaselineCommit(s) PROVE Fine
  <2>1. e \notin session[s].todo
    BY <1>5 DEF RebaselineCommit
  <2>2. stored'[e] = stored[e]
    BY <1>5, <2>1 DEF RebaselineCommit
  <2>3. Quiet
    BY <1>5, <2>1, <2>2 DEF RebaselineCommit, Clear
  <2>4. QED
    BY <1>1, <2>3
<1>6. ASSUME NEW s \in Sessions, ResolveStore(s) PROVE Fine
  <2>1. UNCHANGED <<src, loaded, unloaded>> /\ session[s].phase = "store" /\ session[s].op = "resolve"
    BY <1>6 DEF ResolveStore
  <2>2. Current(s) \in Entities
    BY <2>1, Storing
  <2>3. CASE e = Current(s)
    BY <1>2, <2>1, <2>3 DEF Settling
  <2>4. CASE e # Current(s)
    <3>1. stored'[e] = stored[e]
      <4> DEFINE v == Fingerprints(Current(s))[Kind(s)]
      <4>1. stored' = [stored EXCEPT ![Current(s)][Kind(s)] = v]
        BY <1>6 DEF ResolveStore
      <4> HIDE DEF v
      <4>2. QED
        BY <2>2, <2>4, <4>1 DEF TypeOK
    <3>2. e \in paused => e \in paused'
      BY <1>6, <2>4 DEF ResolveStore, Clear
    <3>3. QED
      BY <1>1, <2>1, <3>1, <3>2
  <2>5. QED
    BY <2>3, <2>4
<1>7. ASSUME NEW s \in Sessions, ResetStore(s) PROVE Quiet
  <2> DEFINE x  == Current(s)
             fp == IF Kind(s) = "source" THEN session[s].seen[x] ELSE Fingerprints(x)
  <2>1. UNCHANGED <<loaded, paused>> /\ (e \in unloaded => e \in unloaded')
    BY <1>7 DEF ResetStore
  <2>2. x \in Entities /\ Kind(s) \in Directions
    BY <1>7, Storing DEF ResetStore
  <2>3. CASE UNCHANGED stored
    BY <2>1, <2>3
  <2>4. CASE /\ stored' = [stored EXCEPT ![x][Kind(s)] = fp[Kind(s)]]
             /\ Kind(s) = "source" => x \in unloaded'
    <3> HIDE DEF x, fp
    <3>1. CASE x = e
      <4>1. Kind(s) = "target"
        BY <2>2, <2>4, <3>1 DEF Directions
      <4>2. stored'[e].source = stored[e].source
        BY <2>4, <4>1, <3>1 DEF TypeOK, Fingerprint
      <4>3. QED
        BY <2>1, <4>2
    <3>2. CASE x # e
      BY <2>1, <2>2, <2>4, <3>2 DEF TypeOK
    <3>3. QED
      BY <3>1, <3>2
  <2>5. QED
    BY <1>7, <2>3, <2>4 DEF ResetStore
<1>8. ASSUME NEW s \in Sessions, SwapDeploy(s) PROVE Fine
  <2> DEFINE x == FirstOf(session[s].also)
  <2>1. x \in session[s].also /\ x \in Entities
    BY <1>8, SessionType, FirstOfIn DEF SwapDeploy
  <2>2. /\ stored' = [stored EXCEPT ![x]["target"] = Fingerprints(x)["target"]]
        /\ paused' = paused \ {x} /\ UNCHANGED <<loaded, unloaded>>
    BY <1>8 DEF SwapDeploy
  <2>3. CASE e = x
    <3>1. session[s].phase = "deploy"
      BY <1>8 DEF SwapDeploy
    <3>2. e \in session[s].todo
      BY <2>1, <2>3, <3>1 DEF Listed
    <3>3. session'[s].phase = "deploy" /\ session'[s].todo = session[s].todo /\ e \notin session'[s].also
      <4> DEFINE T == session[s].also \ {FirstOf(session[s].also)}
                 r == [session[s] EXCEPT !.also = T]
      <4>1. r.phase = session[s].phase /\ r.also = T /\ r.todo = session[s].todo
        BY SessionType DEF Session
      <4>2. session' = [session EXCEPT ![s] = r]
        BY <1>8 DEF SwapDeploy
      <4>3. e \notin T
        BY <2>3
      <4> HIDE DEF r, T
      <4>4. QED
        BY <3>1, <4>1, <4>2, <4>3 DEF TypeOK
    <3>4. QED
      BY <3>2, <3>3 DEF LeftBehind
  <2>4. CASE e # x
    <3> HIDE DEF x
    <3>1. stored'[e] = stored[e]
      BY <2>2, <2>4 DEF TypeOK
    <3>2. QED
      BY <1>1, <2>2, <2>4, <3>1
  <2>5. QED
    BY <2>3, <2>4
<1>9. CASE ResetPathB
  BY <1>9 DEF ResetPathB
<1>10. CASE /\ UNCHANGED stored /\ UNCHANGED loaded /\ unloaded \subseteq unloaded'
            /\ ~\E s \in Sessions : RebaselineCommit(s) \/ ResolveStore(s) \/ SwapDeploy(s)
  <2>1. e \in paused => e \in paused'
    BY <1>10, PausedStays
  <2>2. QED
    BY <1>1, <1>10, <2>1
<1> HIDE DEF Fine, Quiet
<1>11. QED
  BY <1>1, <1>3, <1>4, <1>5, <1>6, <1>7, <1>8, <1>9, <1>10, StoresOnly, LoadsOnly DEF Fine

\* At first all rows are there.
LEMMA RowsInit == Init => Listed /\ Settling /\ Rows
<1> SUFFICES ASSUME Init PROVE Listed /\ Settling /\ Rows
  OBVIOUS
<1>1. Listed /\ Settling
  BY DEF Init, Listed, Settling, Idle
<1>2. ASSUME NEW e \in Entities PROVE Fresh(e)
  BY DEF Init, Fresh, Fingerprints
<1>3. QED
  BY <1>1, <1>2 DEF Rows

-----------------------------------------------------------------------------
(* Theorems *)

\* Every variable keeps its type, however the operations overlap.
THEOREM TypeCorrect == Spec => []TypeOK
<1>1. QED
  BY TypeInit, TypeStep, PTL DEF Spec

\* Delivery of an entity is on exactly while it is not paused: every statement that
\* changes the status changes the switch with it (monitor, _resolve,
\* rebaseline_entity_fingerprints, deploy_to_lrmis).
THEOREM SwitchWithStatus == Spec => []SwitchFollowsStatus
<1>1. Init => SwitchFollowsStatus
  BY DEF Init, SwitchFollowsStatus
<1>2. TypeOK /\ Shape /\ SwitchFollowsStatus /\ [Next]_vars => SwitchFollowsStatus'
  <2> SUFFICES ASSUME TypeOK, Shape, SwitchFollowsStatus, [Next]_vars PROVE SwitchFollowsStatus'
    OBVIOUS
  <2>1. CASE UNCHANGED <<paused, enabled>>
    BY <2>1 DEF SwitchFollowsStatus
  <2>2. ASSUME NEW S \in SUBSET Entities, paused' = paused \ S, enabled' = enabled \cup S
        PROVE  SwitchFollowsStatus'
    BY <2>2 DEF SwitchFollowsStatus
  <2>3. ASSUME NEW s \in Sessions, MonitorCommit(s) PROVE SwitchFollowsStatus'
    BY <2>3 DEF MonitorCommit, SwitchFollowsStatus
  <2>4. ASSUME NEW s \in Sessions, RebaselineCommit(s) PROVE SwitchFollowsStatus'
    BY <2>2, <2>4, SessionType DEF RebaselineCommit, Clear
  <2>5. ASSUME NEW s \in Sessions, ResolveStore(s) PROVE SwitchFollowsStatus'
    <3>1. {Current(s)} \in SUBSET Entities
      BY <2>5, Storing DEF ResolveStore
    <3>2. QED
      BY <2>2, <2>5, <3>1 DEF ResolveStore, Clear
  <2>6. ASSUME NEW s \in Sessions, SwapDeploy(s) PROVE SwitchFollowsStatus'
    <3>1. {FirstOf(session[s].also)} \in SUBSET Entities
      BY <2>6, SessionType, FirstOfIn DEF SwapDeploy
    <3>2. QED
      BY <2>2, <2>6, <3>1 DEF SwapDeploy
  <2>7. ASSUME NEW s \in Sessions, Job(s), ~ResolveStore(s) PROVE UNCHANGED <<paused, enabled>>
    BY <2>7 DEF Job, ListEntities, LoadEntity, LoadFails, ReadSource, MarkReports, ResetStore, ResetEnds, rowVars
  <2>8. ASSUME NEW s \in Sessions, Swap(s), ~SwapDeploy(s) PROVE UNCHANGED <<paused, enabled>>
    BY <2>8 DEF Swap, SwapRead, SwapDeployFails, SwapRecreate, Redeliver, RedeliverFails, SwapEnds, rowVars
  <2>9. ASSUME NEW s \in Sessions, Begin(s) \/ Crash(s) \/ MonitorRead(s) \/ RebaselineRead(s)
        PROVE  UNCHANGED <<paused, enabled>>
    BY <2>9 DEF Begin, Start, Crash, MonitorRead, RebaselineRead, rowVars
  <2>10. (\E e \in Entities : ChangeSource(e)) \/ (\E t \in Tables : ChangeTarget(t)) \/ ResetPathB
         \/ UNCHANGED vars => UNCHANGED <<paused, enabled>>
    BY DEF ChangeSource, ChangeTarget, ResetPathB, rowVars, vars
  <2>11. QED
    BY <2>1, <2>3, <2>4, <2>5, <2>6, <2>7, <2>8, <2>9, <2>10 DEF Next
<1>3. QED
  BY <1>1, <1>2, TypeInit, TypeStep, PTL DEF Spec

\* A paused entity has an open report: the monitor writes both in one
\* transaction, and only reports of entities that are not paused are marked
\* resolved (monitor, _mark_reports_resolved).
THEOREM PausesReported == Spec => []PausedIsReported
<1>1. Init => PausedIsReported
  BY DEF Init, PausedIsReported
<1>2. PausedIsReported /\ [Next]_vars => PausedIsReported'
  <2> SUFFICES ASSUME PausedIsReported, [Next]_vars PROVE PausedIsReported'
    OBVIOUS
  <2>1. CASE paused' \subseteq paused /\ UNCHANGED open
    BY <2>1 DEF PausedIsReported
  <2>2. ASSUME NEW s \in Sessions, MonitorCommit(s) PROVE PausedIsReported'
    BY <2>2 DEF MonitorCommit, PausedIsReported
  <2>3. ASSUME NEW s \in Sessions, MarkReports(s) PROVE PausedIsReported'
    BY <2>3 DEF MarkReports, PausedIsReported
  <2>4. ASSUME NEW s \in Sessions, Job(s), ~MarkReports(s) PROVE paused' \subseteq paused /\ UNCHANGED open
    BY <2>4 DEF Job, ListEntities, LoadEntity, LoadFails, ReadSource, ResolveStore, ResetStore, ResetEnds,
                Clear, rowVars
  <2>5. ASSUME NEW s \in Sessions, Swap(s) PROVE paused' \subseteq paused /\ UNCHANGED open
    BY <2>5 DEF Swap, SwapRead, SwapDeploy, SwapDeployFails, SwapRecreate, Redeliver, RedeliverFails,
                SwapEnds, rowVars
  <2>6. ASSUME NEW s \in Sessions,
               Begin(s) \/ Crash(s) \/ MonitorRead(s) \/ RebaselineRead(s) \/ RebaselineCommit(s)
        PROVE  paused' \subseteq paused /\ UNCHANGED open
    BY <2>6 DEF Begin, Start, Crash, MonitorRead, RebaselineRead, RebaselineCommit, Clear, rowVars
  <2>7. (\E e \in Entities : ChangeSource(e)) \/ (\E t \in Tables : ChangeTarget(t)) \/ ResetPathB
        \/ UNCHANGED vars => paused' \subseteq paused /\ UNCHANGED open
    BY DEF ChangeSource, ChangeTarget, ResetPathB, rowVars, vars
  <2>8. QED
    BY <2>1, <2>2, <2>3, <2>4, <2>5, <2>6, <2>7 DEF Next
<1>3. QED
  BY <1>1, <1>2, PTL DEF Spec

\* A pause names drift there is: a monitor's verdict stays right until somebody
\* stores a fingerprint, which no statement does and leaves the entity paused, or
\* recreates the target (reset_source, reset_target, _resolve, monitor).
THEOREM PausesHaveDrift == Spec => []PausedHasDrift
<1> DEFINE Inv == TypeOK /\ Shape /\ Known /\ Verdicts /\ Pauses
<1>1. Init => Inv
  BY TypeInit, KnownInit
<1>2. Inv /\ [Next]_vars => Inv'
  BY TypeStep, KnownStep, VerdictsStep, PausesStep
<1>3. Inv => PausedHasDrift
  BY DEF Pauses, PausedHasDrift
<1>4. QED
  BY <1>1, <1>2, <1>3, PTL DEF Spec

\* Once no swap is at work, what is deployed has rows of a source at least as new as
\* the stored fingerprint says, unless an operation is known to have left it without:
\* who clears an entity has loaded it, and a swap takes on what it empties (_resolve,
\* schema_swap.apply, redeliver_all).
THEOREM DeployedRowsLoaded == Spec => []DeployedIsLoaded
<1> DEFINE Inv == TypeOK /\ Shape /\ Known /\ Listed /\ Settling /\ Rows
<1>1. Init => Inv
  BY TypeInit, KnownInit, RowsInit
<1>2. Inv /\ [Next]_vars => Inv'
  BY TypeStep, KnownStep, ListedStep, SettlingStep, RowsStep
<1>3. Inv => DeployedIsLoaded
  BY DEF Rows, Fresh, LeftBehind, DeployedIsLoaded
<1>4. QED
  BY <1>1, <1>2, <1>3, PTL DEF Spec
=============================================================================
