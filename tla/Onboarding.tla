----------------------------- MODULE Onboarding -----------------------------
(***************************************************************************)
(* The life of one source entity: proposals and their field reviews,       *)
(* approval, deployment, bulk onboarding, the drift monitor, the           *)
(* re-baseline, the kill switch, and the backfill that queues the source   *)
(* rows which are there already, beside the trigger that captures their    *)
(* changes.  Several sessions (requests and jobs) work on the same rows    *)
(* under READ COMMITTED.                                                   *)
(*                                                                         *)
(* A review row stands for one source column and its target column; of     *)
(* these it matters which rows share a source column (FannedOut), which    *)
(* deployment needs (Required) and which name a column the target does not *)
(* have (Unknown).  The mapping engine's answer is a grade for each row.   *)
(* A schema is its version.                                                *)
(*                                                                         *)
(* The backfill treats each source row by itself: one row stands for all.  *)
(***************************************************************************)
EXTENDS Naturals, Sequences, SequencesExt

CONSTANTS
    Sessions,       \* requests and jobs in progress at the same time
    Writers,        \* transactions of the source system that change the row
    Fields,         \* review rows a proposal can have
    FannedOut,      \* rows of the one source column that feeds several targets
    Required,       \* rows without which coverage_report blocks a deployment
    Unknown,        \* rows with which it does
    FromModel,      \* the answers a language model may give
    Alike,          \* rows the heuristic finds: their names are alike
    Environments,   \* the providers a process has configured, in any of them
    MaxProposals,   \* bound: proposals ever made
    MaxVersion,     \* bound: versions of each schema
    MaxWork         \* bound: edits of review rows, changes of the source row and of schemas

\* What an answer says of a row: nothing, a target it is sure of or not, or that
\* there is none (surely, or with the confidence 0 the prompt asks for).
Grades == {"none", "sure", "unsure", "sure of none", "no match"}

ASSUME OnboardingAssumption ==
    /\ "committed" \notin Sessions \cup Writers /\ Sessions \cap Writers = {}
    /\ FannedOut \subseteq Fields /\ Required \subseteq Fields /\ Unknown \subseteq Fields
    /\ MaxProposals \in Nat /\ MaxVersion \in Nat \ {0}
    /\ FromModel \subseteq [Fields -> Grades]
    /\ Alike \subseteq Fields
    /\ \A f, g \in Alike \cap FannedOut : f = g
    /\ \A env \in Environments : env \subseteq {"model", "heuristic"}
    /\ MaxWork \in Nat

VARIABLES
    proposal,   \* onboarding_proposal.status
    field,      \* onboarding_field_review: status, and whether it has a target table
    entity,     \* onboarding_entity.status
    baseline,   \* its stored source and target fingerprints
    live,       \* the schemas as they are
    control,    \* entity_control: "none", "on" or "off"; a person's use of it is in Delivery
    session,    \* each session: the transaction it is in
    version,    \* the source row as it is, counted by its changes
    outbox,     \* its events in the order of created_at, those of open transactions too
    clashed,    \* history: what two transactions open at the same time may have spoilt
    edits

entityVars == <<proposal, field, entity, baseline, live, control>>
rowVars    == <<version, outbox>>
vars == <<entityVars, session, rowVars, clashed, edits>>

Proposals == 1..MaxProposals
Approved  == {"approved", "auto_approved"}

\* Rows to review, and rows accepted or resolved: with a target table, or without
\* one, which delivery passes over.
Pending == {"pending", "blank"}
Decided == {"mapped", "hollow"}

\* The fingerprint propose stores for the target is the one of the whole
\* contract; the monitor's is the one of the entity's tables.
WholeContract == MaxVersion + 1
Fingerprint   == 0..(MaxVersion + 1)

Schemas == [source : 1..MaxVersion, target : 1..MaxVersion]

Idle == [op |-> "none"]

Versions == 1..(MaxWork + 1)

\* What an edit does to a row: resolve it with or without a target table named,
\* reject it, reopen it.
Changes == {"place", "resolve", "reject", "reopen"}

Transaction ==
    {Idle}
    \cup [op : {"edit"}, p : Proposals, rows : SUBSET Fields,
          to : Changes, status : {"approved", "needs_review"}]
    \cup [op : {"deploy", "bulk deploy"}, p : Proposals]
    \cup [op : {"pause", "bulk"}]
    \cup [op : {"rebaseline"}, seen : Schemas]
    \cup [op : {"backfill"}, seen : Versions]

\* An event, or the place a transaction that is open has in the order: created_at
\* is the time the transaction started, version 0 that it has no event yet.
Event == [of : Sessions \cup Writers \cup {"committed"}, version : Versions \cup {0}]

TypeOK ==
    /\ proposal \in [Proposals -> {"absent", "needs_review"} \cup Approved]
    /\ field \in [Proposals -> [Fields -> {"absent", "rejected"} \cup Pending \cup Decided]]
    /\ entity \in {"discovered", "reviewed", "deployed", "paused"}
    /\ baseline \in [source : Fingerprint, target : Fingerprint]
    /\ live \in Schemas
    /\ control \in {"none", "on", "off"}
    /\ session \in [Sessions -> Transaction]
    /\ version \in Versions
    /\ outbox \in Seq(Event)
    /\ clashed \subseteq {"review", "drift", "outbox"}
    /\ edits \in 0..MaxWork

\* discover has registered the entity; it has no fingerprints yet.
Init ==
    /\ proposal = [p \in Proposals |-> "absent"]
    /\ field = [p \in Proposals |-> [f \in Fields |-> "absent"]]
    /\ entity = "discovered"
    /\ baseline = [source |-> 0, target |-> 0]
    /\ live = [source |-> 1, target |-> 1]
    /\ control = "none"
    /\ session = [s \in Sessions |-> Idle]
    /\ version = 1
    /\ outbox = <<>>
    /\ clashed = {}
    /\ edits = 0

\* How much of the bound is used.
Spent == edits + version + live.source + live.target - 3

\* Operations that may spoil each other's work when they are open together.
Clashes ==
    [review |-> {{"edit"}, {"edit", "deploy"}, {"edit", "bulk deploy"}},
     drift  |-> {{"pause", "deploy"}, {"pause", "bulk"}, {"pause", "bulk deploy"},
                 {"pause", "rebaseline"}},
     outbox |-> {{"backfill"}, {"backfill", "change"}}]

\* What is open while session s starts something.
Beside(s) ==
    {session[x].op : x \in Sessions \ {s}}
    \cup {"change" : i \in {i \in DOMAIN outbox : outbox[i].of \in Writers}}

\* Session s starts a transaction; nothing keeps others from being open.
Begin(s, op) ==
    /\ session[s] = Idle
    /\ clashed' = clashed \cup {c \in DOMAIN Clashes :
                                 \E other \in Beside(s) : {op, other} \in Clashes[c]}

-----------------------------------------------------------------------------
(* Proposing *)

SameColumn(f) == IF f \in FannedOut THEN FannedOut ELSE {f}

\* heuristic_mapping has one row for each source column, and is never sure.
HeuristicAnswer ==
    LET Given(f) == IF SameColumn(f) \cap Alike # {} THEN f \in Alike
                    ELSE f = CHOOSE g \in SameColumn(f) : TRUE
    IN  [f \in Fields |-> IF ~Given(f) THEN "none"
                          ELSE IF f \in Alike THEN "unsure" ELSE "no match"]

\* propose_mapping: the configured providers are asked in turn until one answers;
\* the heuristic comes last and always does.  Without it all may fail, and the
\* proposal has no rows.
AnswersIn(env) ==
    {a \in FromModel : "model" \in env}
        \cup {IF "heuristic" \in env THEN HeuristicAnswer ELSE [f \in Fields |-> "none"]}

Answers == UNION {AnswersIn(env) : env \in Environments}

\* The rows propose puts in its list for review.
NeedsReview(answer) == {f \in Fields : answer[f] = "unsure"}

FreshStatus(answer) == IF NeedsReview(answer) # {} THEN "needs_review" ELSE "auto_approved"

\* The state _create_proposal gives a row: the confidence decides first.
RowOf(grade) ==
    CASE grade = "none"         -> "absent"
      [] grade = "sure"         -> "mapped"
      [] grade = "sure of none" -> "hollow"
      [] grade = "unsure"       -> "pending"
      [] grade = "no match"     -> "rejected"

\* The answer of the mapping engine becomes a proposal, and both fingerprints of
\* the entity are overwritten, in one transaction.
NewProposal(p, answer) ==
    /\ proposal[p] = "absent"
    /\ \A q \in Proposals : q < p => proposal[q] # "absent"
    /\ proposal' = [proposal EXCEPT ![p] = FreshStatus(answer)]
    /\ field' = [field EXCEPT ![p] = [f \in Fields |-> RowOf(answer[f])]]
    /\ baseline' = [source |-> live.source, target |-> WholeContract]
    /\ UNCHANGED <<entity, live, control, rowVars, edits>>

\* propose, by itself or for one of the tables of bulk_propose_lrmis.
Propose(s, p, answer) ==
    /\ Begin(s, "propose")
    /\ NewProposal(p, answer)
    /\ UNCHANGED session

-----------------------------------------------------------------------------
(* Reviewing *)

\* Mutation: rejected rows of the proposal end its review.
StatusAfter_AnyRejected(p, rows, to) ==
    IF to = "reopen" THEN "needs_review"
    ELSE IF to = "reject" \/ \A g \in Fields \ rows : field[p][g] \notin Pending
         THEN "approved" ELSE "needs_review"

\* The status an edit gives the proposal: what the session counts, its own rows
\* included and those of open transactions not.
StatusAfter(p, rows, to) ==
    IF to = "reopen" \/ \E g \in Fields \ rows : field[p][g] \in Pending
    THEN "needs_review" ELSE "approved"

RowsFree(p, rows) == \A x \in Sessions : session[x].op = "edit" =>
                        ~(session[x].p = p /\ session[x].rows \cap rows # {})

Present(p) == {f \in Fields : field[p][f] # "absent"}

\* Rows are written and the pending rows are counted.
Edit(s, p, rows, to) ==
    /\ Spent < MaxWork
    /\ edits' = edits + 1
    /\ Begin(s, "edit")
    /\ proposal[p] # "absent"
    /\ RowsFree(p, rows)
    /\ session' = [session EXCEPT ![s] =
          [op |-> "edit", p |-> p, rows |-> rows, to |-> to, status |-> StatusAfter(p, rows, to)]]
    /\ UNCHANGED <<entityVars, rowVars>>

\* resolve and reject: every row of the source column.
EditColumn(s, p, f, to) ==
    /\ f \in Present(p)
    /\ to \in {"place", "resolve", "reject"}
    /\ Edit(s, p, SameColumn(f) \cap Present(p), to)

\* reject_field_review and reopen_field_review: one row.
EditRow(s, p, f, to) ==
    /\ f \in Present(p)
    /\ to \in {"reject", "reopen"}
    /\ Edit(s, p, {f}, to)

\* add_mapping, and add_missing_mappings, which leaves out what it cannot add and
\* sets the proposal's status also when nothing is left.
AddMappings(s, p, rows) ==
    /\ \A f \in rows : f \notin Present(p) /\ SameColumn(f) \cap Present(p) # {}
    /\ Edit(s, p, rows, "place")

\* A rejection clears the target table, and only naming one brings it back.
Changed(row, to) ==
    LET placed == row \in {"mapped", "pending"}
    IN  CASE to = "place"   -> "mapped"
          [] to = "resolve" -> IF placed THEN "mapped" ELSE "hollow"
          [] to = "reject"  -> "rejected"
          [] to = "reopen"  -> IF placed THEN "pending" ELSE "blank"

\* The status counted before is written, once the proposal's row is free.
CommitEdit(s) ==
    LET tx == session[s]
    IN  /\ tx.op = "edit"
        /\ field' = [field EXCEPT ![tx.p] =
              [f \in Fields |-> IF f \in tx.rows THEN Changed(@[f], tx.to) ELSE @[f]]]
        /\ proposal' = [proposal EXCEPT ![tx.p] = tx.status]
        /\ session' = [session EXCEPT ![s] = Idle]
        /\ UNCHANGED <<entity, baseline, live, control, clashed, rowVars, edits>>

\* A row without a target table is no mapping, although it counts as accepted.
MappedFields(p) == {f \in Fields : field[p][f] = "mapped"}

\* approve_mapping, under the lock of the proposal's row.
ApproveMapping(s, p) ==
    /\ Begin(s, "approve")
    /\ proposal[p] # "absent"
    /\ \A f \in Fields : field[p][f] \notin Pending
    /\ \E f \in Fields : field[p][f] \in Decided
    /\ proposal' = [proposal EXCEPT ![p] = "approved"]
    /\ entity' = IF entity = "deployed" THEN entity ELSE "reviewed"
    /\ UNCHANGED <<field, baseline, live, control, session, rowVars, edits>>

-----------------------------------------------------------------------------
(* Deploying *)

\* coverage_report has nothing that blocks.
Covered(p) == Required \subseteq MappedFields(p) /\ MappedFields(p) \cap Unknown = {}

Deployable(p) == proposal[p] \in Approved /\ MappedFields(p) # {} /\ Covered(p)

\* deploy_to_lrmis, by itself or for one of the proposals of bulk_deploy_to_lrmis:
\* the proposal and its mappings are read and pass the gates.
Deploy(s, p) ==
    /\ Begin(s, "deploy")
    /\ Deployable(p)
    /\ session' = [session EXCEPT ![s] = [op |-> "deploy", p |-> p]]
    /\ UNCHANGED <<entityVars, rowVars, edits>>

\* Mutation: the fingerprint comes from the registry's document.
CommitDeploy_RegistryFingerprint(s) ==
    /\ session[s].op = "deploy"
    /\ entity' = "deployed"
    /\ baseline' = [baseline EXCEPT !.target = WholeContract]
    /\ proposal' = [proposal EXCEPT ![session[s].p] = "approved"]
    /\ control' = "on"
    /\ session' = [session EXCEPT ![s] = Idle]
    /\ UNCHANGED <<field, live, clashed, rowVars, edits>>

\* Its writes: the live fingerprint of the target, the entity, the proposal,
\* whatever its status is by now, and the kill switch.
CommitDeploy(s) ==
    /\ session[s].op = "deploy"
    /\ entity' = "deployed"
    /\ baseline' = [baseline EXCEPT !.target = live.target]
    /\ proposal' = [proposal EXCEPT ![session[s].p] = "approved"]
    /\ control' = "on"
    /\ session' = [session EXCEPT ![s] = Idle]
    /\ UNCHANGED <<field, live, clashed, rowVars, edits>>

-----------------------------------------------------------------------------
(* onboard_bulk *)

\* The table is not deployed as far as the job can see.
BulkStart(s) ==
    /\ Begin(s, "bulk")
    /\ entity # "deployed"
    /\ session' = [session EXCEPT ![s] = [op |-> "bulk"]]
    /\ UNCHANGED <<entityVars, rowVars, edits>>

\* It is proposed, and goes on if nothing needs review and no required column of
\* the target is unmet.
BulkPropose(s, p, answer, unmet) ==
    /\ session[s].op = "bulk"
    /\ NewProposal(p, answer)
    /\ session' = [session EXCEPT ![s] =
          IF FreshStatus(answer) = "auto_approved" /\ ~unmet THEN [op |-> "bulk deploy", p |-> p]
          ELSE Idle]
    /\ UNCHANGED clashed

\* deploy_to_lrmis reads the proposal again; what its gates refuse has failed.
BulkDeploy(s) ==
    LET p == session[s].p
    IN  /\ session[s].op = "bulk deploy"
        /\ session' = [session EXCEPT ![s] =
              IF Deployable(p) THEN [op |-> "deploy", p |-> p] ELSE Idle]
        /\ UNCHANGED <<entityVars, clashed, rowVars, edits>>

-----------------------------------------------------------------------------
(* Drift *)

Drifted ==
    \/ baseline.source # 0 /\ baseline.source # live.source
    \/ baseline.target # 0 /\ baseline.target # live.target

\* monitor reads the deployed entity and compares it with the live schemas.
Monitor(s) ==
    /\ Begin(s, "pause")
    /\ entity = "deployed"
    /\ Drifted
    /\ session' = [session EXCEPT ![s] = [op |-> "pause"]]
    /\ UNCHANGED <<entityVars, rowVars, edits>>

\* It pauses the entity, whatever happened to it since.
CommitPause(s) ==
    /\ session[s].op = "pause"
    /\ entity' = "paused"
    /\ control' = IF control = "none" THEN control ELSE "off"
    /\ session' = [session EXCEPT ![s] = Idle]
    /\ UNCHANGED <<proposal, field, baseline, live, clashed, rowVars, edits>>

\* rebaseline_entity_fingerprints selects entities the monitor paused and takes
\* the fingerprints of the schemas as they are.
Rebaseline(s) ==
    /\ Begin(s, "rebaseline")
    /\ entity = "paused"
    /\ session' = [session EXCEPT ![s] = [op |-> "rebaseline", seen |-> live]]
    /\ UNCHANGED <<entityVars, rowVars, edits>>

\* It switches the entity on, whoever switched it off meanwhile.
CommitRebaseline(s) ==
    /\ session[s].op = "rebaseline"
    /\ baseline' = session[s].seen
    /\ entity' = "deployed"
    /\ control' = IF control = "none" THEN control ELSE "on"
    /\ session' = [session EXCEPT ![s] = Idle]
    /\ UNCHANGED <<proposal, field, live, clashed, rowVars, edits>>

\* A schema changes.
ChangeSchema(side) ==
    /\ live[side] < MaxVersion /\ Spent < MaxWork
    /\ live' = [live EXCEPT ![side] = @ + 1]
    /\ UNCHANGED <<proposal, field, entity, baseline, control, session, clashed, rowVars, edits>>

-----------------------------------------------------------------------------
(* The events of the source row *)

Place(who) == CHOOSE i \in DOMAIN outbox : outbox[i].of = who

\* A transaction of the source system starts.
BeginChange(c) ==
    /\ Spent < MaxWork
    /\ \A i \in DOMAIN outbox : outbox[i].of # c
    /\ outbox' = Append(outbox, [of |-> c, version |-> 0])
    /\ UNCHANGED <<entityVars, session, version, clashed, edits>>

Writing(c) == \E i \in DOMAIN outbox : outbox[i].of = c

\* It changes the row, once, and the trigger inserts the event: changes of one row
\* wait for each other.  One that started later may have been first.
ChangeRow(c) ==
    /\ Writing(c)
    /\ \A i \in DOMAIN outbox : outbox[i].of \in Writers => outbox[i].version = 0
    /\ Spent < MaxWork
    /\ outbox' = [outbox EXCEPT ![Place(c)].version = version + 1]
    /\ clashed' = clashed \cup
          {"outbox" : i \in {i \in DOMAIN outbox : i > Place(c) /\ outbox[i].version # 0}}
    /\ UNCHANGED <<entityVars, session, version, edits>>

\* The row and its event are committed together, or neither is.
EndChange(c) ==
    /\ Writing(c)
    /\ \/ /\ outbox[Place(c)].version # 0
          /\ outbox' = [outbox EXCEPT ![Place(c)].of = "committed"]
          /\ version' = version + 1
       \/ /\ outbox' = RemoveAt(outbox, Place(c))
          /\ UNCHANGED version
    /\ UNCHANGED <<entityVars, session, clashed, edits>>

\* backfill, by itself or at the end of onboard_bulk: the entity is deployed, and
\* all its source rows are read.
Backfill(s) ==
    /\ Begin(s, "backfill")
    /\ entity = "deployed"
    /\ session' = [session EXCEPT ![s] = [op |-> "backfill", seen |-> version]]
    /\ outbox' = Append(outbox, [of |-> s, version |-> 0])
    /\ UNCHANGED <<entityVars, version, edits>>

\* Mutation: rows are queued without looking for an event of theirs.
Found_Never == FALSE

\* An event of the row, whatever has become of it.
Found == \E i \in DOMAIN outbox : outbox[i].of = "committed"

Backfilling(s) == session[s].op = "backfill" /\ outbox[Place(s)].version = 0

\* The row as it was read is queued, unless an event of it is found.
EnqueueRow(s) ==
    /\ Backfilling(s)
    /\ ~Found
    /\ outbox' = [outbox EXCEPT ![Place(s)].version = session[s].seen]
    /\ UNCHANGED <<entityVars, session, version, clashed, edits>>

\* A row that has an event is skipped; so is everything when a statement fails.
SkipRow(s) ==
    /\ session[s].op = "backfill"
    /\ outbox' = RemoveAt(outbox, Place(s))
    /\ session' = [session EXCEPT ![s] = Idle]
    /\ UNCHANGED <<entityVars, version, clashed, edits>>

\* One commit for all rows.
CommitBackfill(s) ==
    /\ session[s].op = "backfill"
    /\ outbox[Place(s)].version # 0
    /\ outbox' = [outbox EXCEPT ![Place(s)].of = "committed"]
    /\ session' = [session EXCEPT ![s] = Idle]
    /\ UNCHANGED <<entityVars, version, clashed, edits>>

-----------------------------------------------------------------------------
(* The specification *)

Review(s, p) ==
    \/ \E f \in Fields, to \in Changes :
          EditColumn(s, p, f, to) \/ EditRow(s, p, f, to)
    \/ \E rows \in SUBSET Fields : AddMappings(s, p, rows)

Next ==
    \/ \E s \in Sessions :
          \/ \E p \in Proposals :
                \/ \E answer \in Answers : Propose(s, p, answer)
                \/ \E answer \in Answers, unmet \in BOOLEAN : BulkPropose(s, p, answer, unmet)
                \/ Review(s, p)
                \/ ApproveMapping(s, p)
                \/ Deploy(s, p)
          \/ BulkStart(s) \/ BulkDeploy(s)
          \/ CommitEdit(s) \/ CommitDeploy(s)
          \/ Monitor(s) \/ CommitPause(s)
          \/ Rebaseline(s) \/ CommitRebaseline(s)
          \/ Backfill(s) \/ EnqueueRow(s) \/ SkipRow(s) \/ CommitBackfill(s)
    \/ \E c \in Writers : BeginChange(c) \/ ChangeRow(c) \/ EndChange(c)
    \/ \E side \in {"source", "target"} : ChangeSchema(side)

Spec == Init /\ [][Next]_vars

-----------------------------------------------------------------------------
(* Properties *)

\* As long as no edit overlaps another, or a deployment, a proposal that counts as
\* approved has no field left to review, whatever the engine answered and whether
\* it answered or failed, and in whatever order fields are edited,
\* reopened, approved and deployed, and whatever else is at work (resolve, reject,
\* reopen_field_review, approve_mapping, deploy_to_lrmis, onboard_bulk).
ApprovedMeansReviewed ==
    "review" \notin clashed =>
        \A p \in Proposals : proposal[p] \in Approved =>
            \A f \in Fields : field[p][f] \notin Pending

ProposedOnce == \A p \in Proposals : p > 1 => proposal[p] = "absent"

\* As long as an entity is proposed once, the monitor pauses it only for a schema
\* that changed since it was proposed and deployed (deploy_to_lrmis stores what
\* monitor computes), unless its verdict was settled before it was carried out.
NoSpuriousPause ==
    [][ProposedOnce /\ "drift" \notin clashed /\ entity = "deployed" /\ entity' = "paused" =>
          \/ baseline.source # live.source
          \/ baseline.target \notin {live.target, WholeContract}]_vars

\* In the order of created_at, in which claim_events sorts what it sees, the events of
\* a row come one for each of its versions, and the last one carries the row as it is:
\* also when a change starts, or starts and ends, while a backfill is at work.  The
\* order is another one where a change is overtaken by one whose transaction started
\* later, and where a backfill starts while a change or another backfill is open: then
\* an old version may come last, or one twice (backfill, enqueue_customer_change).
NewestEventLast ==
    LET events == {i \in DOMAIN outbox : outbox[i].of = "committed"}
    IN  "outbox" \notin clashed =>
            /\ \A i, j \in events : i < j => outbox[i].version < outbox[j].version
            /\ \A i \in events : (\A j \in events : j =< i) => outbox[i].version = version
=============================================================================
