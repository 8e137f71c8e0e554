---------------------------- MODULE SchemaDrift -----------------------------
(***************************************************************************)
(* Schema drift of several deployed entities: the monitor that pauses      *)
(* them, the jobs that resolve drift, reset fingerprints or the target,    *)
(* the re-baseline, and the target side of the schema swap.  All of them   *)
(* work from lists they read earlier, entity by entity, and nothing but    *)
(* the conditions of their statements keeps them apart.                    *)
(*                                                                         *)
(* A structure is a version; a change makes a new one, and recreating the  *)
(* target brings back the versions of the registry.  What a refresh does   *)
(* to the rows is in module Refresh; here it either loads the entity from  *)
(* the source as it is, or fails.                                          *)
(***************************************************************************)
EXTENDS Naturals, Sequences

CONSTANTS
    NEntities,
    Tables,         \* tables of the target
    Footprint,      \* Footprint[e]: lrmis_target_tables
    Sessions,       \* jobs, agents and command lines at work at one time
    MaxChanges,     \* bound: changes of either schema
    MaxStarts,      \* bound: operations started
    MaxCrashes      \* bound: processes that die

Entities   == 1..NEntities
Directions == {"source", "target"}

ASSUME DriftAssumption ==
    /\ NEntities \in Nat
    /\ Footprint \in [Entities -> SUBSET Tables]
    /\ MaxChanges \in Nat
    /\ MaxStarts \in Nat
    /\ MaxCrashes \in Nat

VARIABLES
    src, tgt,   \* the live source table of each entity, the live target tables
    loaded,     \* the source version the entity's rows in the target come from; 0: none
    stored,     \* source_fingerprint and target_fingerprint
    paused,     \* status, with the directions paused_reason names
    reason,
    enabled,    \* entity_control
    open,       \* entities with an unresolved drift report
    session,
    unloaded,   \* history: entities accepted or left without having been loaded
    outdated,   \* history: entities whose drift went away, or was settled, unseen by a monitor
    changes, starts, crashes

rowVars   == <<stored, paused, reason, enabled, open>>
boundVars == <<changes, starts, crashes>>
vars == <<src, tgt, loaded, rowVars, session, unloaded, outdated, boundVars>>

Registry == 1
Versions == 1..(MaxChanges + 1)

\* _entity_fingerprints: of the entity's source table and of its target tables.
Fingerprints(e) == [source |-> src[e], target |-> [t \in Footprint[e] |-> tgt[t]]]
Drift(e)        == {d \in Directions : stored[e][d] # Fingerprints(e)[d]}

\* kinds: directions still to be gone through; todo: entities still to be done;
\* also: entities a swap re-maps; drift: what a monitor has found; seen: the
\* fingerprints a re-baseline or a reset has read.
Unread == [e \in Entities |-> [source |-> Registry, target |-> [t \in {} |-> Registry]]]

Idle == [op |-> "none", phase |-> "idle", kinds |-> <<>>, todo |-> {}, also |-> {},
         drift |-> [e \in Entities |-> {}], seen |-> Unread]

Phases == {"idle", "list", "load", "store", "commit", "deploy", "redeliver"}
Ops    == {"none", "monitor", "rebaseline", "resolve", "reset", "swap"}

Fingerprint == [source : Versions, target : UNION {[T -> Versions] : T \in SUBSET Tables}]

Session == [op : Ops, phase : Phases, kinds : Seq(Directions), todo : SUBSET Entities,
            also : SUBSET Entities, drift : [Entities -> SUBSET Directions],
            seen : [Entities -> Fingerprint]]

TypeOK ==
    /\ src \in [Entities -> Versions]
    /\ tgt \in [Tables -> Versions]
    /\ loaded \in [Entities -> {0} \cup Versions]
    /\ stored \in [Entities -> Fingerprint]
    /\ paused \subseteq Entities
    /\ reason \in [Entities -> SUBSET Directions]
    /\ enabled \subseteq Entities
    /\ open \subseteq Entities
    /\ session \in [Sessions -> Session]
    /\ unloaded \subseteq Entities
    /\ outdated \subseteq Entities
    /\ changes \in 0..MaxChanges
    /\ starts \in 0..MaxStarts
    /\ crashes \in 0..MaxCrashes

Init ==
    /\ src = [e \in Entities |-> 1]
    /\ tgt = [t \in Tables |-> Registry]
    /\ loaded = [e \in Entities |-> 1]
    /\ stored = [e \in Entities |-> Fingerprints(e)]
    /\ paused = {}
    /\ reason = [e \in Entities |-> {}]
    /\ enabled = Entities
    /\ open = {}
    /\ session = [s \in Sessions |-> Idle]
    /\ unloaded = {} /\ outdated = {}
    /\ changes = 0 /\ starts = 0 /\ crashes = 0

-----------------------------------------------------------------------------
(* Schemas change *)

ChangeSource(e) ==
    /\ changes < MaxChanges
    /\ changes' = changes + 1
    /\ src' = [src EXCEPT ![e] = changes + 2]
    /\ unloaded' = IF \E s \in Sessions : session[s].phase = "store" /\ e \in session[s].todo
                   THEN unloaded \cup {e} ELSE unloaded
    /\ UNCHANGED <<tgt, loaded, rowVars, session, outdated, starts, crashes>>

\* A table of the target is altered in place.
ChangeTarget(t) ==
    /\ changes < MaxChanges
    /\ changes' = changes + 1
    /\ tgt' = [tgt EXCEPT ![t] = changes + 2]
    /\ UNCHANGED <<src, loaded, rowVars, session, unloaded, outdated, starts, crashes>>

-----------------------------------------------------------------------------
(* Steps the operations share *)

Start(s, o, ph, ks) ==
    /\ session[s] = Idle
    /\ starts < MaxStarts
    /\ starts' = starts + 1
    /\ session' = [session EXCEPT ![s] = [Idle EXCEPT !.op = o, !.phase = ph, !.kinds = ks]]
    /\ UNCHANGED <<src, tgt, loaded, rowVars, unloaded, outdated, changes, crashes>>

Move(s, ph)  == session' = [session EXCEPT ![s] = [@ EXCEPT !.phase = ph]]
Finish(s)    == session' = [session EXCEPT ![s] = Idle]
FirstOf(S)   == CHOOSE e \in S : \A x \in S : e =< x
Current(s)   == FirstOf(session[s].todo)

\* The entity at the head of the list is done.
Advance(s, ph) ==
    session' = [session EXCEPT ![s] = [@ EXCEPT !.phase = ph, !.todo = session[s].todo \ {Current(s)}]]

\* The rows of e are deleted and written again from the source as it is.
Load(e) ==
    /\ loaded' = [loaded EXCEPT ![e] = src[e]]
    /\ unloaded' = unloaded \ {e}

\* Rows of entities S, and the switch with them, go back to deployed.
Clear(S) ==
    /\ paused' = paused \ S
    /\ reason' = [e \in Entities |-> IF e \in S THEN {} ELSE reason[e]]
    /\ enabled' = enabled \cup S

\* Monitors that have looked at e and not committed yet hold a verdict on what
\* it was.
Watched(e) == \E m \in Sessions : session[m].op = "monitor" /\ session[m].phase = "commit"
                                    /\ session[m].drift[e] # {}

-----------------------------------------------------------------------------
(* monitor and rebaseline_entity_fingerprints *)

\* The deployed entities are read and compared with what is there.
MonitorRead(s) ==
    /\ session[s].op = "monitor" /\ session[s].phase = "list"
    /\ session' = [session EXCEPT ![s] = [@ EXCEPT !.phase = "commit",
          !.drift = [e \in Entities |-> IF e \in paused THEN {} ELSE Drift(e)]]]
    /\ UNCHANGED <<src, tgt, loaded, rowVars, unloaded, outdated, boundVars>>

\* Those that had drifted are paused, switched off and reported.
MonitorCommit(s) ==
    LET drift   == session[s].drift
        drifted == {e \in Entities : drift[e] # {}}
    IN  /\ session[s].op = "monitor" /\ session[s].phase = "commit"
        /\ paused' = paused \cup drifted
        /\ reason' = [e \in Entities |-> IF e \in drifted THEN drift[e] ELSE reason[e]]
        /\ enabled' = enabled \ drifted
        /\ open' = open \cup drifted
        /\ Finish(s)
        /\ UNCHANGED <<src, tgt, loaded, stored, unloaded, outdated, boundVars>>

\* The entities the monitor has paused, and their fingerprints now.
RebaselineRead(s) ==
    /\ session[s].op = "rebaseline" /\ session[s].phase = "list"
    /\ session' = [session EXCEPT ![s] = [@ EXCEPT !.phase = "commit", !.todo = paused,
          !.seen = [e \in Entities |-> Fingerprints(e)]]]
    /\ UNCHANGED <<src, tgt, loaded, rowVars, unloaded, outdated, boundVars>>

\* What was read is accepted, whatever is in the target.
RebaselineCommit(s) ==
    LET S == session[s].todo
    IN  /\ session[s].op = "rebaseline" /\ session[s].phase = "commit"
        /\ stored' = [e \in Entities |-> IF e \in S THEN session[s].seen[e] ELSE stored[e]]
        /\ Clear(S)
        /\ unloaded' = unloaded \cup S
        /\ outdated' = outdated \cup {e \in S : Watched(e)}
        /\ Finish(s)
        /\ UNCHANGED <<src, tgt, loaded, open, boundVars>>

-----------------------------------------------------------------------------
(* resolve_drift, reset_all, reset_path_b *)

Kind(s) == Head(session[s].kinds)

\* One direction is done: the next, or the end.
NextKind(s) ==
    IF Len(session[s].kinds) = 1 THEN Finish(s)
    ELSE session' = [session EXCEPT ![s] =
              [@ EXCEPT !.phase = "list", !.kinds = Tail(session[s].kinds)]]

\* Resolving: the entities paused for this direction; resetting: the deployed.
ListEntities(s) ==
    /\ session[s].op \in {"resolve", "reset"} /\ session[s].phase = "list"
    /\ session' = [session EXCEPT ![s] = [@ EXCEPT !.phase = "load",
          !.todo = IF session[s].op = "reset" THEN Entities \ paused
                   ELSE {e \in paused : Kind(s) \in reason[e]}]]
    /\ UNCHANGED <<src, tgt, loaded, rowVars, unloaded, outdated, boundVars>>

Loads(s) ==
    /\ session[s].phase = "load"
    /\ session[s].todo # {}
    /\ session[s].op = "resolve" \/ Kind(s) = "target"

\* ops.refresh of the entity succeeds.
LoadEntity(s) ==
    /\ Loads(s)
    /\ Load(Current(s))
    /\ Move(s, "store")
    /\ UNCHANGED <<src, tgt, rowVars, outdated, boundVars>>

\* Mutation: the fingerprint is stored all the same.
LoadFails_GoesOn(s) ==
    /\ Loads(s)
    /\ Move(s, "store")
    /\ UNCHANGED <<src, tgt, loaded, rowVars, unloaded, outdated, boundVars>>

\* It does not: the entity is skipped and stays as it is.
LoadFails(s) ==
    /\ Loads(s)
    /\ Advance(s, "load")
    /\ UNCHANGED <<src, tgt, loaded, rowVars, unloaded, outdated, boundVars>>

\* Mutation: the entity is cleared, its switch is left.
ResolveStore_StatusOnly(s) ==
    LET e == Current(s)
    IN  /\ session[s].op = "resolve" /\ session[s].phase = "store"
        /\ stored' = [stored EXCEPT ![e][Kind(s)] = Fingerprints(e)[Kind(s)]]
        /\ paused' = paused \ {e}
        /\ reason' = [reason EXCEPT ![e] = {}]
        /\ outdated' = IF Watched(e) THEN outdated \cup {e} ELSE outdated
        /\ Advance(s, "load")
        /\ UNCHANGED <<src, tgt, loaded, enabled, open, unloaded, boundVars>>

\* The fingerprint of this direction is taken again and stored, and the entity
\* is cleared, also when its pause named the other direction too.
ResolveStore(s) ==
    LET e == Current(s)
    IN  /\ session[s].op = "resolve" /\ session[s].phase = "store"
        /\ stored' = [stored EXCEPT ![e][Kind(s)] = Fingerprints(e)[Kind(s)]]
        /\ Clear({e})
        /\ outdated' = IF Watched(e) THEN outdated \cup {e} ELSE outdated
        /\ Advance(s, "load")
        /\ UNCHANGED <<src, tgt, loaded, open, unloaded, boundVars>>

\* Mutation: every open report is closed.
MarkReports_All(s) ==
    /\ session[s].op = "resolve" /\ session[s].phase = "load" /\ session[s].todo = {}
    /\ open' = {}
    /\ NextKind(s)
    /\ UNCHANGED <<src, tgt, loaded, stored, paused, reason, enabled, unloaded, outdated, boundVars>>

\* _mark_reports_resolved: reports whose entity is not paused.
MarkReports(s) ==
    /\ session[s].op = "resolve" /\ session[s].phase = "load" /\ session[s].todo = {}
    /\ open' = open \cap paused
    /\ NextKind(s)
    /\ UNCHANGED <<src, tgt, loaded, stored, paused, reason, enabled, unloaded, outdated, boundVars>>

\* reset_source: the fingerprint is taken in one transaction ...
ReadSource(s) ==
    /\ session[s].op = "reset" /\ session[s].phase = "load" /\ session[s].todo # {}
    /\ Kind(s) = "source"
    /\ session' = [session EXCEPT ![s] = [@ EXCEPT !.phase = "store",
          !.seen = [session[s].seen EXCEPT ![Current(s)] = Fingerprints(Current(s))]]]
    /\ UNCHANGED <<src, tgt, loaded, rowVars, unloaded, outdated, boundVars>>

\* Mutation: the status is not looked at again.
StillDeployed_Listed(e) == TRUE

\* WHERE status = 'deployed'
StillDeployed(e) == e \notin paused

\* ... and stored in another, as reset_target's is after its refresh, if the
\* entity is still deployed.
ResetStore(s) ==
    LET e  == Current(s)
        fp == IF Kind(s) = "source" THEN session[s].seen[e] ELSE Fingerprints(e)
    IN  /\ session[s].op = "reset" /\ session[s].phase = "store"
        /\ IF StillDeployed(e)
           THEN /\ stored' = [stored EXCEPT ![e][Kind(s)] = fp[Kind(s)]]
                /\ unloaded' = IF Kind(s) = "source" THEN unloaded \cup {e} ELSE unloaded
                /\ outdated' = IF Watched(e) THEN outdated \cup {e} ELSE outdated
           ELSE UNCHANGED <<stored, unloaded, outdated>>
        /\ session' = [session EXCEPT ![s] =
              [@ EXCEPT !.phase = "load", !.todo = session[s].todo \ {e}, !.seen = Unread]]
        /\ UNCHANGED <<src, tgt, loaded, paused, reason, enabled, open, boundVars>>

ResetEnds(s) ==
    /\ session[s].op = "reset" /\ session[s].phase = "load" /\ session[s].todo = {}
    /\ NextKind(s)
    /\ UNCHANGED <<src, tgt, loaded, rowVars, unloaded, outdated, boundVars>>

\* recreate_target_database: empty tables, as the registry has them.
Recreate ==
    /\ tgt' = [t \in Tables |-> Registry]
    /\ loaded' = [e \in Entities |-> 0]
    /\ outdated' = outdated \cup
          {e \in Entities : (e \in paused \/ Watched(e)) /\ \E t \in Footprint[e] : tgt[t] # Registry}

\* reset_path_b recreates and leaves it at that.
ResetPathB ==
    /\ starts < MaxStarts
    /\ starts' = starts + 1
    /\ Recreate
    /\ unloaded' = Entities
    /\ UNCHANGED <<src, rowVars, session, changes, crashes>>

-----------------------------------------------------------------------------
(* schema_swap.apply, target side *)

\* affected_entities: those with a table that is not as the registry has it.
Affected(S) == {e \in S : \E t \in Footprint[e] : tgt[t] # Registry}

\* The target is discovered, the deployed entities listed, the affected ones
\* re-mapped; sure are those whose mapping needs no review.
SwapRead(s, sure, force) ==
    LET kept == Entities \ paused
    IN  /\ session[s].op = "swap" /\ session[s].phase = "list"
        /\ sure \subseteq Affected(kept)
        /\ session' = [session EXCEPT ![s] =
              IF sure # Affected(kept) /\ ~force THEN Idle
              ELSE [@ EXCEPT !.phase = "deploy", !.todo = kept, !.also = sure]]
        /\ UNCHANGED <<src, tgt, loaded, rowVars, unloaded, outdated, boundVars>>

\* persist_remap and deploy_to_lrmis, which leaves paused_reason.
SwapDeploy(s) ==
    LET e == FirstOf(session[s].also)
    IN  /\ session[s].phase = "deploy" /\ session[s].also # {}
        /\ stored' = [stored EXCEPT ![e].target = Fingerprints(e).target]
        /\ paused' = paused \ {e}
        /\ enabled' = enabled \cup {e}
        /\ outdated' = IF Watched(e) THEN outdated \cup {e} ELSE outdated
        /\ session' = [session EXCEPT ![s] = [@ EXCEPT !.also = session[s].also \ {e}]]
        /\ UNCHANGED <<src, tgt, loaded, reason, open, unloaded, boundVars>>

\* What a swap leaves behind when it is broken off: entities it has deployed, or
\* emptied, and not loaded.
LeftBehind(s) ==
    IF session[s].phase \in {"deploy", "redeliver"} THEN session[s].todo \ session[s].also ELSE {}

\* The coverage gate refuses a deployment, which ends the swap.
SwapDeployFails(s) ==
    /\ session[s].phase = "deploy" /\ session[s].also # {}
    /\ unloaded' = unloaded \cup LeftBehind(s)
    /\ Finish(s)
    /\ UNCHANGED <<src, tgt, loaded, rowVars, outdated, boundVars>>

\* Entities deployed since the list was read, and those another job has loaded
\* and not yet cleared, lose their rows.
SwapRecreate(s) ==
    /\ session[s].phase = "deploy" /\ session[s].also = {}
    /\ Recreate
    /\ unloaded' = unloaded \cup ((Entities \ paused) \ session[s].todo)
          \cup {e \in Entities : \E x \in Sessions \ {s} :
                                    session[x].phase = "store" /\ e \in session[x].todo}
    /\ Move(s, "redeliver")
    /\ UNCHANGED <<src, rowVars, boundVars>>

\* redeliver_all: every kept entity, one after the other.
Redeliver(s) ==
    /\ session[s].phase = "redeliver" /\ session[s].todo # {}
    /\ Load(Current(s))
    /\ Advance(s, "redeliver")
    /\ UNCHANGED <<src, tgt, rowVars, outdated, boundVars>>

RedeliverFails(s) ==
    /\ session[s].phase = "redeliver" /\ session[s].todo # {}
    /\ unloaded' = unloaded \cup {Current(s)}
    /\ Advance(s, "redeliver")
    /\ UNCHANGED <<src, tgt, loaded, rowVars, outdated, boundVars>>

SwapEnds(s) ==
    /\ session[s].phase = "redeliver" /\ session[s].todo = {}
    /\ Finish(s)
    /\ UNCHANGED <<src, tgt, loaded, rowVars, unloaded, outdated, boundVars>>

Crash(s) ==
    /\ session[s] # Idle
    /\ crashes < MaxCrashes
    /\ crashes' = crashes + 1
    /\ unloaded' = unloaded \cup LeftBehind(s)
    /\ Finish(s)
    /\ UNCHANGED <<src, tgt, loaded, rowVars, outdated, changes, starts>>

-----------------------------------------------------------------------------
(* The specification *)

Begin(s) ==
    \/ Start(s, "monitor", "list", <<>>)
    \/ Start(s, "rebaseline", "list", <<>>)
    \/ Start(s, "swap", "list", <<>>)
    \/ \E o \in {"resolve", "reset"}, ks \in {<<"source">>, <<"target">>, <<"source", "target">>} :
          Start(s, o, "list", ks)

Job(s) ==
    \/ ListEntities(s) \/ LoadEntity(s) \/ LoadFails(s) \/ ReadSource(s)
    \/ ResolveStore(s) \/ MarkReports(s) \/ ResetStore(s) \/ ResetEnds(s)

Swap(s) ==
    \/ \E sure \in SUBSET Entities, force \in BOOLEAN : SwapRead(s, sure, force)
    \/ SwapDeploy(s) \/ SwapDeployFails(s) \/ SwapRecreate(s)
    \/ Redeliver(s) \/ RedeliverFails(s) \/ SwapEnds(s)

Next ==
    \/ \E e \in Entities : ChangeSource(e)
    \/ \E t \in Tables : ChangeTarget(t)
    \/ ResetPathB
    \/ \E s \in Sessions :
          \/ Begin(s) \/ Job(s) \/ Swap(s) \/ Crash(s)
          \/ MonitorRead(s) \/ MonitorCommit(s) \/ RebaselineRead(s) \/ RebaselineCommit(s)

Spec == Init /\ [][Next]_vars

-----------------------------------------------------------------------------
(* Properties *)

\* Delivery is off for the paused entities and on for the others, however
\* monitors, resolutions, re-baselines and swaps overlap (monitor, _resolve,
\* rebaseline_entity_fingerprints, deploy_to_lrmis).
SwitchFollowsStatus == enabled = Entities \ paused

\* A paused entity has a report that is not marked resolved
\* (_mark_reports_resolved, monitor).
PausedIsReported == paused \subseteq open

\* What is deployed has its rows in the target, loaded from a source at least as
\* new as the one whose fingerprint is stored, unless it was accepted without
\* loading, a loading failed, or the source or the list changed under a job
\* (_resolve, schema_swap.apply).
DeployedIsLoaded ==
    (\A s \in Sessions : session[s].phase \notin {"deploy", "redeliver"}) =>
        \A e \in Entities \ (paused \cup unloaded) :
            loaded[e] # 0 /\ stored[e].source =< loaded[e]

\* A paused entity has drifted in a direction its pause names; no job settles
\* its fingerprint and leaves it paused (reset_source, reset_target, _resolve).
PausedHasDrift ==
    \A e \in paused \ outdated : Drift(e) \cap reason[e] # {}
=============================================================================
