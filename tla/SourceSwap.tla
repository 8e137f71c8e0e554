----------------------------- MODULE SourceSwap -----------------------------
(***************************************************************************)
(* The source side of the schema swap: discover the live source, compare   *)
(* each deployed entity's table with its approved contract, re-map what is *)
(* affected, deploy it, and capture the new contract.  The contract is the *)
(* latest captured document or, before the first capture, the names of the *)
(* columns the latest approved proposal accepts.  Beside the swap the      *)
(* source changes, the monitor pauses, and people propose, review and      *)
(* deploy mappings and accept drift.                                       *)
(*                                                                         *)
(* A structure is a function from column names to types (nullability       *)
(* included).  It is its own fingerprint.                                  *)
(***************************************************************************)
EXTENDS Naturals, Sequences

CONSTANTS
    NEntities,      \* deployed entities, one source table each
    Structures,     \* the structures a source table takes
    Sessions,       \* operators that can run a swap
    MaxSwaps,       \* bound: confirmed applies
    MaxWork,        \* bound: changes of the source and what people do beside the swaps
    MaxCrashes      \* bound: processes that die

\* A table that is not there; no table has no column.
Missing == <<>>

OnColumns(f, S) == [c \in S |-> f[c]]

ASSUME SwapAssumption ==
    /\ NEntities \in Nat
    /\ Missing \in Structures
    /\ \A f \in Structures : f = OnColumns(f, DOMAIN f)
    /\ MaxSwaps \in Nat
    /\ MaxWork \in Nat
    /\ MaxCrashes \in Nat

Entities == 1..NEntities

VARIABLES
    live,       \* the source tables
    docs,       \* schema_version, scope entity_source, in the order of observed_at
    proposals,  \* onboarding_proposal with its rows, in the order of created_at
    issued,     \* the last id given to a proposal of the entity
    baseline,   \* onboarding_entity.source_fingerprint
    paused,     \* entities that are paused and switched off
    hand,       \* what people have under way on an entity, beside the swaps
    session,
    astray,     \* history: what swaps that went wrong, or people, have left at odds
    swaps, work, crashes

rowVars   == <<docs, proposals, issued, baseline, paused>>
boundVars == <<swaps, work, crashes>>
vars == <<live, rowVars, hand, session, astray, boundVars>>

\* What rows of a proposal can have been made from.
Parts == UNION {{OnColumns(f, S) : S \in SUBSET DOMAIN f} : f \in Structures}

\* made: the columns that have a row, as they were.  A row is accepted or not, and
\* an accepted one with no target table is no mapping.
Proposal == [id : Nat, made : Parts, accepted : SUBSET UNION {DOMAIN f : f \in Structures},
             mapped : SUBSET UNION {DOMAIN f : f \in Structures}, approved : BOOLEAN]

\* The place of a transaction that has inserted no proposal, yet or ever.
Blank == [id |-> 0, made |-> Missing, accepted |-> {}, mapped |-> {}, approved |-> FALSE]

\* at: the place of the proposal, of propose only.
AtRest == [op |-> "none", seen |-> Missing, at |-> 0]
Hand   == [op : {"none", "propose", "rebaseline", "resolve", "reset"}, seen : Structures, at : Nat]

\* at: the id of the proposal that is to be deployed.
Idle == [phase |-> "idle", new |-> [e \in Entities |-> Missing], todo |-> {}, done |-> {}, at |-> 0]

TypeOK ==
    /\ live \in [Entities -> Structures]
    /\ docs \in [Entities -> Seq(Structures \ {Missing})]
    /\ proposals \in [Entities -> Seq(Proposal)]
    /\ issued \in [Entities -> Nat]
    /\ baseline \in [Entities -> Structures]
    /\ paused \subseteq Entities
    /\ hand \in [Entities -> Hand]
    /\ \A s \in Sessions :
          /\ session[s].phase \in {"idle", "read", "persist", "deploy", "capture"}
          /\ session[s].new \in [Entities -> Structures]
          /\ session[s].todo \subseteq Entities
          /\ session[s].done \subseteq Entities \ session[s].todo
          /\ session[s].at \in Nat
    /\ astray \subseteq Entities \X {"contract", "fingerprint"}
    /\ swaps \in 0..MaxSwaps
    /\ work \in 0..MaxWork
    /\ crashes \in 0..MaxCrashes

\* Every entity has been deployed from the structure its table has, by hand or by a
\* swap that captured it.
Init ==
    /\ live \in [Entities -> Structures \ {Missing}]
    /\ docs \in {[e \in Entities |-> <<>>], [e \in Entities |-> <<live[e]>>]}
    /\ proposals = [e \in Entities |->
          <<[id |-> 1, made |-> live[e], accepted |-> DOMAIN live[e],
             mapped |-> DOMAIN live[e], approved |-> TRUE]>>]
    /\ issued = [e \in Entities |-> 1]
    /\ baseline = live
    /\ paused = {}
    /\ hand = [e \in Entities |-> AtRest]
    /\ session = [s \in Sessions |-> Idle]
    /\ astray = {}
    /\ swaps = 0 /\ work = 0 /\ crashes = 0

-----------------------------------------------------------------------------
(* Two readings of the proposals *)

\* Approved proposals that are committed.
Approved(e) == {i \in DOMAIN proposals[e] : i # hand[e].at /\ proposals[e][i].approved}

\* _approved_source_columns: the latest by created_at, with rows or without.
Latest(e) == CHOOSE i \in Approved(e) : \A j \in Approved(e) : j =< i

AcceptedColumns(e) == IF Approved(e) = {} THEN {} ELSE proposals[e][Latest(e)].accepted

\* load_entity_mappings: the last by id of those that map anything.
Candidates(e) == {i \in Approved(e) : proposals[e][i].mapped # {}}

InForce(e) == CHOOSE i \in Candidates(e) :
                 \A j \in Candidates(e) : proposals[e][j].id =< proposals[e][i].id

\* The mapped columns, as they were when they were mapped.
Mapping(e) ==
    IF Candidates(e) = {} THEN Missing
    ELSE OnColumns(proposals[e][InForce(e)].made, proposals[e][InForce(e)].mapped)

-----------------------------------------------------------------------------
(* The comparison *)

\* Mutation: only the presence of columns is compared.
Differs_ByName(old, new) == new = Missing \/ \E c \in DOMAIN old : c \notin DOMAIN new

\* diff_source_table: the table is missing, a column of the contract was removed
\* or retyped.  Added columns make no difference.
Differs(old, new) ==
    \/ new = Missing
    \/ \E c \in DOMAIN old : c \notin DOMAIN new \/ old[c] # new[c]

\* The contract of e: the latest document or else the accepted columns, with the
\* types they have now.
Contract(e, new) ==
    IF docs[e] # <<>> THEN docs[e][Len(docs[e])]
    ELSE [c \in AcceptedColumns(e) |-> IF c \in DOMAIN new THEN new[c] ELSE "unknown"]

\* affected_source_entities, for one entity.
Affected(e, new) == Differs(Contract(e, new), new)

Within(f, g) == \A c \in DOMAIN f : c \in DOMAIN g /\ f[c] = g[c]

\* monitor, on the source side: a fingerprint that is not there is never drift.
Drifted(e) == baseline[e] # Missing /\ baseline[e] # live[e]

FirstOf(S) == CHOOSE e \in S : \A x \in S : e =< x

\* Session s has committed a new mapping of e and not yet captured its contract.
HasPersisted(s, e) ==
    \/ e \in session[s].done
    \/ session[s].phase = "deploy" /\ e = FirstOf(session[s].todo)

Held(e) == \E s \in Sessions : HasPersisted(s, e)

Both(e) == {<<e, "contract">>, <<e, "fingerprint">>}

-----------------------------------------------------------------------------
(* Beside the swap *)

ChangeSource(e, s) ==
    /\ work < MaxWork
    /\ work' = work + 1
    /\ s # live[e]
    /\ live' = [live EXCEPT ![e] = s]
    /\ UNCHANGED <<rowVars, hand, session, astray, swaps, crashes>>

\* ops.monitor: a deployed entity whose table no longer has the stored fingerprint
\* is paused.
Monitor ==
    LET drifted == {e \in Entities \ paused : Drifted(e)}
    IN  /\ drifted # {}
        /\ paused' = paused \cup drifted
        /\ UNCHANGED <<live, docs, proposals, issued, baseline, hand, session, astray, boundVars>>

Work ==
    /\ work < MaxWork
    /\ work' = work + 1
    /\ UNCHANGED <<live, docs, session, swaps, crashes>>

\* History: people left the entity with a mapping its fingerprint is not of, or gave
\* it a mapping its document is not of.  What a swap in progress has mapped, it
\* expects to be in force still when it captures.
Left(e) ==
    LET changed == Mapping(e)' # Mapping(e)
        misfit  == baseline'[e] = Missing \/ ~Within(Mapping(e)', baseline'[e])
    IN  astray' =
          IF Held(e) THEN astray \cup (IF changed THEN Both(e) ELSE {})
          ELSE (astray \ {<<e, "fingerprint">>})
                  \cup (IF misfit THEN {<<e, "fingerprint">>} ELSE {})
                  \cup (IF changed /\ docs[e] # <<>> THEN {<<e, "contract">>} ELSE {})

\* propose begins, at the time its proposal will bear, and reads the source.
ProposeBegin(e) ==
    /\ Work
    /\ hand[e] = AtRest
    /\ live[e] # Missing
    /\ proposals' = [proposals EXCEPT ![e] = Append(@, Blank)]
    /\ hand' = [hand EXCEPT ![e] =
          [op |-> "propose", seen |-> live[e], at |-> Len(proposals[e]) + 1]]
    /\ UNCHANGED <<issued, baseline, paused, astray>>

\* The engine has answered, with rows or without, and the proposal is inserted.
ProposeInsert(e, rows, accepted, mapped, approved) ==
    LET i == hand[e].at
    IN  /\ hand[e].op = "propose"
        /\ proposals[e][i] = Blank
        /\ rows \subseteq DOMAIN hand[e].seen
        /\ accepted \subseteq rows /\ mapped \subseteq accepted
        /\ approved \/ accepted # rows
        /\ issued' = [issued EXCEPT ![e] = @ + 1]
        /\ proposals' = [proposals EXCEPT ![e][i] =
              [id |-> issued[e] + 1, made |-> OnColumns(hand[e].seen, rows),
               accepted |-> accepted, mapped |-> mapped, approved |-> approved]]
        /\ UNCHANGED <<live, docs, baseline, paused, hand, session, astray, boundVars>>

\* It is committed with the fingerprint of what was read, whatever is in force.
ProposeEnd(e) ==
    /\ hand[e].op = "propose"
    /\ proposals[e][hand[e].at] # Blank
    /\ baseline' = [baseline EXCEPT ![e] = hand[e].seen]
    /\ hand' = [hand EXCEPT ![e] = AtRest]
    /\ UNCHANGED <<live, docs, proposals, issued, paused, session, boundVars>>
    /\ Left(e)

\* Rows of a proposal are accepted, with or without a target table, rejected or
\* reopened, and it is approved or waits for review.
Review(e, i, accepted, mapped, approved) ==
    /\ Work
    /\ hand[e] = AtRest
    /\ proposals[e][i] # Blank
    /\ accepted \subseteq DOMAIN proposals[e][i].made /\ mapped \subseteq accepted
    /\ proposals[e][i].made # Missing
    /\ approved \/ accepted # DOMAIN proposals[e][i].made
    /\ proposals' = [proposals EXCEPT ![e][i].accepted = accepted, ![e][i].mapped = mapped,
                                      ![e][i].approved = approved]
    /\ UNCHANGED <<issued, baseline, paused, hand>>
    /\ Left(e)

\* deploy_to_lrmis by hand: of the source it says and stores nothing.
Deploy(e) ==
    /\ Candidates(e) # {}
    /\ e \in paused
    /\ paused' = paused \ {e}
    /\ UNCHANGED <<live, docs, proposals, issued, baseline, hand, session, astray, boundVars>>

\* rebaseline_entity_fingerprints, the resolution of source drift, reset_source:
\* the source as it is is read, to be accepted under the mapping there is.
AcceptBegin(e, op) ==
    /\ Work
    /\ hand[e] = AtRest
    /\ op = "reset" <=> e \notin paused
    /\ live[e] = Missing => op = "resolve"
    /\ hand' = [hand EXCEPT ![e] = [op |-> op, seen |-> live[e], at |-> 0]]
    /\ UNCHANGED <<proposals, issued, baseline, paused, astray>>

\* reset_source touches what is still deployed; the others deploy what was paused.
AcceptEnd(e) ==
    /\ hand[e].op \in {"rebaseline", "resolve", "reset"}
    /\ hand[e].op = "reset" => e \notin paused
    /\ baseline' = [baseline EXCEPT ![e] = hand[e].seen]
    /\ paused' = paused \ {e}
    /\ hand' = [hand EXCEPT ![e] = AtRest]
    /\ UNCHANGED <<live, docs, proposals, issued, session, boundVars>>
    /\ Left(e)

\* The transaction fails, or finds nothing to write.
GiveUp(e) ==
    /\ hand[e] # AtRest
    /\ proposals' = [proposals EXCEPT ![e] =
          [i \in DOMAIN @ |-> IF i = hand[e].at THEN Blank ELSE @[i]]]
    /\ hand' = [hand EXCEPT ![e] = AtRest]
    /\ UNCHANGED <<live, docs, issued, baseline, paused, session, astray, boundVars>>

-----------------------------------------------------------------------------
(* The swap *)

\* discover_schema, on a connection to the source.
SwapDiscover(s) ==
    /\ session[s].phase = "idle"
    /\ swaps < MaxSwaps
    /\ swaps' = swaps + 1
    /\ session' = [session EXCEPT ![s].phase = "read", ![s].new = live]
    /\ UNCHANGED <<live, rowVars, hand, astray, work, crashes>>

\* Deployed entities and contracts are read, the affected ones re-mapped and
\* the gate decides: sure are those for which the engine is sure of whatever it
\* maps.  A paused entity is not looked at.
SwapRead(s, sure, force) ==
    LET new      == session[s].new
        affected == {e \in Entities \ paused : Affected(e, new[e])}
    IN  /\ session[s].phase = "read"
        /\ sure \subseteq {e \in affected : new[e] # Missing}
        /\ session' = [session EXCEPT ![s] =
              IF sure = {} \/ (sure # affected /\ ~force) THEN Idle
              ELSE [@ EXCEPT !.phase = "persist", !.todo = sure]]
        /\ UNCHANGED <<live, rowVars, hand, astray, boundVars>>

\* persist_remap: a new approved proposal with a row for each column the engine has
\* mapped, which delivery uses from now on.  History: it sets straight what was at
\* odds, unless another swap has mapped the entity too or there is nothing mapped.
SwapPersist(s, C) ==
    LET e     == FirstOf(session[s].todo)
        alone == C # {} /\ \A x \in Sessions : ~HasPersisted(x, e)
    IN  /\ session[s].phase = "persist"
        /\ C \subseteq DOMAIN session[s].new[e]
        /\ issued' = [issued EXCEPT ![e] = @ + 1]
        /\ proposals' = [proposals EXCEPT ![e] = Append(@,
              [id |-> issued[e] + 1, made |-> OnColumns(session[s].new[e], C),
               accepted |-> C, mapped |-> C, approved |-> TRUE])]
        /\ session' = [session EXCEPT ![s].phase = "deploy", ![s].at = issued[e] + 1]
        /\ astray' = IF alone THEN astray \ Both(e) ELSE astray \cup Both(e)
        /\ UNCHANGED <<live, docs, baseline, paused, hand, boundVars>>

\* deploy_to_lrmis, in a transaction of its own: the proposal is approved still and
\* maps something.
SwapDeploy(s) ==
    LET e    == FirstOf(session[s].todo)
        rest == session[s].todo \ {e}
    IN  /\ session[s].phase = "deploy"
        /\ \E i \in Candidates(e) : proposals[e][i].id = session[s].at
        /\ paused' = paused \ {e}
        /\ session' = [session EXCEPT ![s].todo = rest, ![s].done = @ \cup {e}, ![s].at = 0,
                                      ![s].phase = IF rest = {} THEN "capture" ELSE "persist"]
        /\ UNCHANGED <<live, docs, proposals, issued, baseline, hand, astray, boundVars>>

\* History: what session s has mapped and will not capture.
Abandoned(s) == UNION {Both(e) : e \in {e \in Entities : HasPersisted(s, e)}}

\* Its gates refuse the deployment: the error ends the whole apply.
DeployFails(s) ==
    /\ session[s].phase = "deploy"
    /\ session' = [session EXCEPT ![s] = Idle]
    /\ astray' = astray \cup Abandoned(s)
    /\ UNCHANGED <<live, rowVars, hand, boundVars>>

\* ON CONFLICT updates a document that is there in its place: observed_at stays.
Captured(seq, doc) ==
    IF \E i \in 1..Len(seq) : seq[i] = doc THEN seq ELSE Append(seq, doc)

\* A document that is there and not the latest.
Superseded(seq, doc) == \E i \in 1..(Len(seq) - 1) : seq[i] = doc

\* History: the document is passed over, or the table is not what was discovered.
Amiss(s) ==
    {<<e, "contract">> : e \in {e \in session[s].done : Superseded(docs[e], session[s].new[e])}}
    \cup {<<e, "fingerprint">> : e \in {e \in session[s].done : live[e] # session[s].new[e]}}

\* Mutation: the document is captured, the fingerprint is left.
SwapCapture_DocumentOnly(s) ==
    LET new  == session[s].new
        done == session[s].done
    IN  /\ session[s].phase = "capture"
        /\ docs' = [e \in Entities |-> IF e \in done THEN Captured(docs[e], new[e]) ELSE docs[e]]
        /\ astray' = astray \cup Amiss(s)
        /\ session' = [session EXCEPT ![s] = Idle]
        /\ UNCHANGED <<live, proposals, issued, baseline, paused, hand, boundVars>>

\* The rest of _default_persist_source, one transaction for all entities: the
\* document of what was discovered, and the fingerprint of what is there now.
SwapCapture(s) ==
    LET new  == session[s].new
        done == session[s].done
    IN  /\ session[s].phase = "capture"
        /\ docs' = [e \in Entities |-> IF e \in done THEN Captured(docs[e], new[e]) ELSE docs[e]]
        /\ baseline' = [e \in Entities |->
              IF e \in done /\ live[e] # Missing THEN live[e] ELSE baseline[e]]
        /\ astray' = astray \cup Amiss(s)
        /\ session' = [session EXCEPT ![s] = Idle]
        /\ UNCHANGED <<live, proposals, issued, paused, hand, boundVars>>

Crash(s) ==
    /\ session[s].phase # "idle"
    /\ crashes < MaxCrashes
    /\ crashes' = crashes + 1
    /\ session' = [session EXCEPT ![s] = Idle]
    /\ astray' = astray \cup Abandoned(s)
    /\ UNCHANGED <<live, rowVars, hand, swaps, work>>

-----------------------------------------------------------------------------
(* The specification *)

People(e) ==
    \/ ProposeBegin(e) \/ ProposeEnd(e) \/ Deploy(e) \/ AcceptEnd(e) \/ GiveUp(e)
    \/ \E rows \in SUBSET DOMAIN hand[e].seen :
          \E accepted \in SUBSET rows : \E mapped \in SUBSET accepted, approved \in BOOLEAN :
             ProposeInsert(e, rows, accepted, mapped, approved)
    \/ \E i \in DOMAIN proposals[e] :
          \E accepted \in SUBSET DOMAIN proposals[e][i].made :
             \E mapped \in SUBSET accepted, approved \in BOOLEAN :
                Review(e, i, accepted, mapped, approved)
    \/ \E op \in {"rebaseline", "resolve", "reset"} : AcceptBegin(e, op)

Swap(s) ==
    \/ SwapDiscover(s)
    \/ \E sure \in SUBSET Entities, force \in BOOLEAN : SwapRead(s, sure, force)
    \/ \E C \in SUBSET UNION {DOMAIN session[s].new[e] : e \in Entities} : SwapPersist(s, C)
    \/ SwapDeploy(s) \/ DeployFails(s) \/ SwapCapture(s) \/ Crash(s)

Next ==
    \/ \E e \in Entities : People(e) \/ \E s \in Structures : ChangeSource(e, s)
    \/ Monitor
    \/ \E s \in Sessions : Swap(s)

Spec == Init /\ [][Next]_vars

-----------------------------------------------------------------------------
(* Properties *)

\* Nothing has left that part of the entity at odds with its mapping, and no swap has
\* mapped it without having captured it.
Straight(e, part) == <<e, part>> \notin astray /\ ~Held(e)

\* What a swap would leave alone can be left alone: the columns the mapping reads
\* are all there, with their types once a document has been captured.  A swap that
\* runs to its end makes it so whatever was before.  It is not so where the mapping has
\* been changed by people since the capture or while a swap had mapped the entity, where
\* a swap was refused or died after its mapping, two overlapped, or found the structure
\* captured already under a later one; and before the first capture, where the latest
\* approved proposal is not the one delivery takes (affected_source_entities,
\* _approved_source_columns, load_entity_mappings, _store_source_contract).
LeftAloneStillMapped ==
    \A e \in Entities :
        /\ Straight(e, "contract")
        /\ docs[e] # <<>> \/ Candidates(e) = {} \/ Latest(e) = InForce(e)
        /\ ~Affected(e, live[e])
        => /\ DOMAIN Mapping(e) \subseteq DOMAIN live[e]
           /\ docs[e] # <<>> => Within(Mapping(e), live[e])

\* Where the monitor sees no drift there is none: the mapping in force was made for the
\* table as it is.  A swap that runs to its end makes it so whatever was before.  It is
\* not so where people accepted another structure than the mapped one (propose until its
\* proposal is approved, re-baseline, resolution, reset) or put another mapping in force,
\* where a swap was refused or died after its mapping, two overlapped, or the table
\* changed between discovery and capture (_default_persist_source, monitor).
NoDriftUnseen ==
    \A e \in Entities :
        Straight(e, "fingerprint") /\ ~Drifted(e) => Within(Mapping(e), live[e])
=============================================================================
