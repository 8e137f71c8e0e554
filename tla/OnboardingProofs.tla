-------------------------- MODULE OnboardingProofs --------------------------
(***************************************************************************)
(* Proofs about Onboarding, for any number of sessions, fields, proposals, *)
(* edits and changes, and for any answers of the language model.           *)
(*                                                                         *)
(* What the committed events say of the row is inductive together with the *)
(* places open transactions have in the order, and with what a backfill    *)
(* has read (EventsInv).  That approval means review needs that the counts *)
(* of open edits still hold, and that deployments and edits of a proposal  *)
(* keep apart (ReviewsInv).  That a pause has a reason needs that nothing  *)
(* settles the verdict while it waits, and that stored fingerprints are of *)
(* schemas that were (DriftInv).                                           *)
(***************************************************************************)
EXTENDS Onboarding, SequenceTheorems, TLAPS

-----------------------------------------------------------------------------
(* The invariants *)

\* Each transaction that is open has one place in the order.
Placed(o, ss) ==
    /\ \A s \in Sessions : ss[s].op = "backfill" => \E i \in DOMAIN o : o[i].of = s
    /\ \A i \in DOMAIN o : o[i].of \in Sessions => ss[o[i].of].op = "backfill"
    /\ \A i, j \in DOMAIN o : o[i].of = o[j].of /\ o[i].of # "committed" => i = j

\* An event carries a version the row has had, or will have once its change is
\* committed, one change at a time; what a backfill has read is the row, if no event of it was there.
Dated(o, ss, v) ==
    \A i \in DOMAIN o :
        /\ o[i].of \in Writers => o[i].version \in {0, v + 1}
        /\ o[i].of \in Writers /\ o[i].version # 0 =>
              \A j \in DOMAIN o : o[j].of \in Writers /\ o[j].version # 0 => i = j
        /\ o[i].of = "committed" => o[i].version \in 1..v
        /\ o[i].of \in Sessions =>
              /\ o[i].version \in {0, ss[o[i].of].seen}
              /\ ss[o[i].of].seen \in 1..v
              /\ (\A j \in DOMAIN o : o[j].of # "committed") => ss[o[i].of].seen = v

\* A backfill stands alone and in front of what it did not find, a change of the row
\* stands last, and the committed events come in the order of their versions.
Sequenced(o) ==
    \A i, j \in DOMAIN o :
        /\ o[i].of \in Sessions /\ o[j].of \in Sessions => i = j
        /\ o[i].of \in Sessions /\ o[j].of \in Writers => i < j
        /\ o[i].of \in Sessions /\ o[i].version # 0 /\ o[j].of = "committed" =>
              i < j /\ o[i].version < o[j].version
        /\ o[i].of = "committed" /\ o[j].of \in Writers /\ o[j].version # 0 => i < j
        /\ o[i].of = "committed" /\ o[j].of = "committed" /\ i < j =>
              o[i].version < o[j].version

\* The row as it is has its event, if any version has.
Newest(o, v) ==
    \A i \in DOMAIN o : o[i].of = "committed" =>
        \E j \in DOMAIN o : o[j].of = "committed" /\ o[j].version = v

EventsInv ==
    /\ Placed(outbox, session)
    /\ Dated(outbox, session, version)
    /\ "outbox" \notin clashed => Sequenced(outbox) /\ Newest(outbox, version)

\* A session edits rows of proposal p, or is about to deploy it.
Edits(r, p)   == r.op = "edit" /\ r.p = p
Deploys(r, p) == r.op \in {"deploy", "bulk deploy"} /\ r.p = p

\* One session at a time edits a proposal, and nobody deploys it meanwhile.
Apart(ss) ==
    \A p \in Proposals : \A s, x \in Sessions :
        /\ Edits(ss[s], p) /\ Edits(ss[x], p) => s = x
        /\ ~(Edits(ss[s], p) /\ Deploys(ss[x], p))

\* What a session has counted is still so: an edit that will approve leaves no row
\* to review, and a deployment found none.
Counts(r, rows) ==
    /\ r.op = "edit" /\ r.status = "approved" =>
          r.to # "reopen" /\ \A f \in Fields \ r.rows : rows[r.p][f] \notin Pending
    /\ r.op = "deploy" => \A f \in Fields : rows[r.p][f] \notin Pending

Reviewed(status, rows) ==
    \A p \in Proposals : status[p] \in Approved => \A f \in Fields : rows[p][f] \notin Pending

ReviewsInv ==
    /\ \A s \in Sessions, p \in Proposals :
          Edits(session[s], p) \/ Deploys(session[s], p) => proposal[p] # "absent"
    /\ "review" \notin clashed =>
          /\ Apart(session)
          /\ \A s \in Sessions : Counts(session[s], field)
          /\ Reviewed(proposal, field)

\* Something has been proposed.
Begun(status) == \E p \in Proposals : status[p] # "absent"

\* Stored fingerprints, and those about to be stored, are of schemas that were.
Behind(b, l, ss) ==
    /\ b.source =< l.source /\ (b.target =< l.target \/ b.target = WholeContract)
    /\ \A s \in Sessions : ss[s].op = "rebaseline" =>
          ss[s].seen.source =< l.source /\ ss[s].seen.target =< l.target

\* Who may store fingerprints, or is on the way to it.
Settling == {"deploy", "bulk", "bulk deploy", "rebaseline"}

\* Nobody does while a pause is about to be committed.
Unsettled(ss) ==
    \A s, x \in Sessions : ss[s].op = "pause" => ss[x].op \notin Settling

\* The verdict of the monitor.
Verdict(b, l) == b.target # WholeContract /\ (b.source # l.source \/ b.target # l.target)

DriftInv ==
    /\ \A p \in Proposals : proposal[p] # "absent" => proposal[1] # "absent"
    /\ entity # "discovered" => Begun(proposal)
    /\ \A s \in Sessions : session[s].op \in {"pause", "rebaseline"} => Begun(proposal)
    /\ Behind(baseline, live, session)
    /\ "drift" \notin clashed => Unsettled(session)
    /\ ProposedOnce /\ entity = "deployed" => baseline.target # WholeContract
    /\ ProposedOnce /\ "drift" \notin clashed =>
          \A s \in Sessions : session[s].op = "pause" => Verdict(baseline, live)

-----------------------------------------------------------------------------
(* The operators *)

\* RemoveAt takes out one element and keeps the order of the others.
LEMMA Removal ==
    ASSUME NEW S, NEW o \in Seq(S), NEW i \in DOMAIN o
    PROVE  /\ RemoveAt(o, i) \in Seq(S)
           /\ Len(RemoveAt(o, i)) = Len(o) - 1
           /\ \A j \in 1..(Len(o) - 1) :
                 RemoveAt(o, i)[j] = IF j < i THEN o[j] ELSE o[j + 1]
<1>1. Len(o) \in Nat /\ i \in 1..Len(o) /\ \A j \in 1..Len(o) : o[j] \in S
  OBVIOUS
<1> DEFINE a == SubSeq(o, 1, i - 1)
           b == SubSeq(o, i + 1, Len(o))
<1>2. a \in Seq(S) /\ Len(a) = i - 1 /\ \A j \in 1..(i - 1) : a[j] = o[j]
  <2>1. \A j \in 1..(i - 1) : o[j] \in S
    BY <1>1
  <2>2. /\ a \in Seq(S)
        /\ Len(a) = IF 1 <= i - 1 THEN i - 1 - 1 + 1 ELSE 0
        /\ \A j \in 1..(i - 1 - 1 + 1) : a[j] = o[1 + j - 1]
    BY <1>1, <2>1, SubSeqProperties
  <2> HIDE DEF a
  <2>3. QED
    BY <1>1, <2>2
<1>3. /\ b \in Seq(S) /\ Len(b) = Len(o) - i
      /\ \A j \in 1..(Len(o) - i) : b[j] = o[i + j]
  <2>1. \A j \in (i + 1)..Len(o) : o[j] \in S
    BY <1>1
  <2>2. /\ b \in Seq(S)
        /\ Len(b) = IF i + 1 <= Len(o) THEN Len(o) - (i + 1) + 1 ELSE 0
        /\ \A j \in 1..(Len(o) - (i + 1) + 1) : b[j] = o[i + 1 + j - 1]
    BY <1>1, <2>1, SubSeqProperties
  <2> HIDE DEF b
  <2>3. QED
    BY <1>1, <2>2
<1>4. RemoveAt(o, i) = a \o b
  BY DEF RemoveAt
<1> HIDE DEF a, b
<1>5. /\ a \o b \in Seq(S) /\ Len(a \o b) = Len(o) - 1
      /\ \A j \in 1..(Len(o) - 1) : (a \o b)[j] = IF j <= i - 1 THEN a[j] ELSE b[j - (i - 1)]
  <2>1. Len(a) = i - 1 /\ Len(a) + Len(b) = Len(o) - 1
    BY <1>1, <1>2, <1>3
  <2>2. /\ a \o b \in Seq(S) /\ Len(a \o b) = Len(a) + Len(b)
        /\ \A j \in 1..Len(a) + Len(b) :
              (a \o b)[j] = IF j <= Len(a) THEN a[j] ELSE b[j - Len(a)]
    BY <1>2, <1>3, ConcatProperties
  <2>3. QED
    BY <2>1, <2>2, Zenon
<1>6. ASSUME NEW j \in 1..(Len(o) - 1)
      PROVE  (a \o b)[j] = IF j < i THEN o[j] ELSE o[j + 1]
  <2>1. CASE j < i
    BY <1>1, <1>2, <1>5, <2>1
  <2>2. CASE j >= i
    <3>1. (a \o b)[j] = b[j - (i - 1)] /\ j - (i - 1) \in 1..(Len(o) - i)
      BY <1>1, <1>5, <2>2
    <3>2. i + (j - (i - 1)) = j + 1 /\ ~(j < i)
      BY <1>1, <2>2
    <3>3. b[j - (i - 1)] = o[i + (j - (i - 1))]
      BY <1>3, <3>1
    <3>4. QED
      BY <3>1, <3>2, <3>3, Zenon
  <2>3. j < i \/ j >= i
    BY <1>1
  <2>4. QED
    BY <2>1, <2>2, <2>3, Zenon
<1>7. QED
  BY <1>4, <1>5, <1>6

\* Place finds a place there is.
LEMMA PlaceIs ==
    ASSUME NEW who, \E i \in DOMAIN outbox : outbox[i].of = who
    PROVE  Place(who) \in DOMAIN outbox /\ outbox[Place(who)].of = who
BY DEF Place

\* An event that is stamped, or whose transaction commits, is an event.
LEMMA Stamped ==
    ASSUME NEW o \in Seq(Event), NEW i \in DOMAIN o
    PROVE  /\ \A v \in Versions \cup {0} : [o EXCEPT ![i].version = v] \in Seq(Event)
           /\ [o EXCEPT ![i].of = "committed"] \in Seq(Event)
<1>1. o[i] \in Event
  OBVIOUS
<1>2. ASSUME NEW e \in Event PROVE [o EXCEPT ![i] = e] \in Seq(Event)
  BY <1>2
<1>3. \A v \in Versions \cup {0} : [o[i] EXCEPT !.version = v] \in Event
  BY <1>1 DEF Event
<1>4. [o[i] EXCEPT !.of = "committed"] \in Event
  BY <1>1 DEF Event
<1>5. QED
  BY <1>2, <1>3, <1>4

\* An answer grades every row.
LEMMA AnswersType == Answers \subseteq [Fields -> Grades]
<1>1. HeuristicAnswer \in [Fields -> Grades]
  BY DEF HeuristicAnswer, Grades
<1>2. [f \in Fields |-> "none"] \in [Fields -> Grades]
  BY DEF Grades
<1>3. QED
  BY <1>1, <1>2, OnboardingAssumption DEF Answers, AnswersIn

\* What a transaction carries is told by its operation.
LEMMA Carries ==
    ASSUME NEW r \in Transaction
    PROVE  /\ r.op = "edit" => /\ r.p \in Proposals /\ r.rows \in SUBSET Fields
                               /\ r.to \in Changes /\ r.status \in {"approved", "needs_review"}
           /\ r.op \in {"deploy", "bulk deploy"} => r.p \in Proposals
           /\ r.op = "rebaseline" => r.seen \in Schemas
           /\ r.op = "backfill" => r.seen \in Versions
<1>1. CASE r = Idle
  BY <1>1 DEF Idle
<1>2. CASE r \in [op : {"edit"}, p : Proposals, rows : SUBSET Fields,
                  to : Changes, status : {"approved", "needs_review"}]
  BY <1>2
<1>3. CASE r \in [op : {"deploy", "bulk deploy"}, p : Proposals]
  BY <1>3
<1>4. CASE r \in [op : {"pause", "bulk"}]
  BY <1>4
<1>5. CASE r \in [op : {"rebaseline"}, seen : Schemas]
  BY <1>5
<1>6. CASE r \in [op : {"backfill"}, seen : Versions]
  BY <1>6
<1>7. QED
  BY <1>1, <1>2, <1>3, <1>4, <1>5, <1>6 DEF Transaction

\* What a session may begin to do is a transaction.
LEMMA Transactions ==
    /\ Idle \in Transaction
    /\ \A p \in Proposals, rows \in SUBSET Fields, to \in Changes,
          status \in {"approved", "needs_review"} :
          [op |-> "edit", p |-> p, rows |-> rows, to |-> to, status |-> status] \in Transaction
    /\ \A p \in Proposals : /\ [op |-> "deploy", p |-> p] \in Transaction
                            /\ [op |-> "bulk deploy", p |-> p] \in Transaction
    /\ [op |-> "pause"] \in Transaction /\ [op |-> "bulk"] \in Transaction
    /\ \A seen \in Schemas : [op |-> "rebaseline", seen |-> seen] \in Transaction
    /\ \A seen \in Versions : [op |-> "backfill", seen |-> seen] \in Transaction
BY DEF Transaction

-----------------------------------------------------------------------------
(* Types *)

\* A fingerprint is taken of the schemas.
LEMMA FingerprintsOf == Schemas \subseteq [source : Fingerprint, target : Fingerprint]
<1>1. 1..MaxVersion \subseteq Fingerprint
  BY OnboardingAssumption DEF Fingerprint
<1>2. QED
  BY <1>1 DEF Schemas

\* A new proposal, and nothing else, has its types.
LEMMA NewProposalType ==
    ASSUME TypeOK, NEW p \in Proposals, NEW answer \in Answers, NewProposal(p, answer)
    PROVE  /\ proposal' \in [Proposals -> {"absent", "needs_review"} \cup Approved]
           /\ field' \in [Proposals -> [Fields -> {"absent", "rejected"} \cup Pending \cup Decided]]
           /\ baseline' \in [source : Fingerprint, target : Fingerprint]
<1>1. FreshStatus(answer) \in {"needs_review"} \cup Approved
  BY DEF FreshStatus, Approved
<1>2. \A f \in Fields : RowOf(answer[f]) \in {"absent", "rejected"} \cup Pending \cup Decided
  BY AnswersType DEF RowOf, Grades, Pending, Decided
<1>3. live.source \in Fingerprint /\ WholeContract \in Fingerprint
  BY OnboardingAssumption DEF TypeOK, Schemas, Fingerprint, WholeContract
<1>4. proposal' \in [Proposals -> {"absent", "needs_review"} \cup Approved]
  BY <1>1 DEF NewProposal, TypeOK
<1>5. field' \in [Proposals -> [Fields -> {"absent", "rejected"} \cup Pending \cup Decided]]
  <2>1. [f \in Fields |-> RowOf(answer[f])]
            \in [Fields -> {"absent", "rejected"} \cup Pending \cup Decided]
    BY <1>2
  <2>2. QED
    BY <2>1 DEF NewProposal, TypeOK
<1>6. QED
  BY <1>3, <1>4, <1>5 DEF NewProposal

\* An edit has begun.
LEMMA EditType ==
    ASSUME TypeOK, NEW s \in Sessions, NEW p \in Proposals, NEW rows \in SUBSET Fields,
           NEW to \in Changes, Edit(s, p, rows, to)
    PROVE  TypeOK'
<1>1. StatusAfter(p, rows, to) \in {"approved", "needs_review"}
  BY DEF StatusAfter
<1>2. session' \in [Sessions -> Transaction]
  BY <1>1, Transactions DEF Edit, TypeOK
<1>3. clashed' \subseteq {"review", "drift", "outbox"}
  BY DEF Edit, Begin, Clashes, TypeOK
<1>4. edits' \in 0..MaxWork
  BY OnboardingAssumption DEF Edit, Spent, Schemas, Versions, TypeOK
<1>5. QED
  BY <1>2, <1>3, <1>4 DEF Edit, entityVars, rowVars, TypeOK

\* Whatever a review does is an edit of some rows.
LEMMA ReviewEdits ==
    ASSUME NEW s \in Sessions, NEW p \in Proposals, Review(s, p)
    PROVE  \E rows \in SUBSET Fields, to \in Changes : Edit(s, p, rows, to)
<1>1. ASSUME NEW f \in Fields, NEW to \in Changes, EditColumn(s, p, f, to)
      PROVE  \E rows \in SUBSET Fields : Edit(s, p, rows, to)
  <2>1. SameColumn(f) \cap Present(p) \in SUBSET Fields
    BY DEF Present
  <2>2. QED
    BY <1>1, <2>1 DEF EditColumn
<1>2. ASSUME NEW f \in Fields, NEW to \in Changes, EditRow(s, p, f, to)
      PROVE  \E rows \in SUBSET Fields : Edit(s, p, rows, to)
  <2>1. {f} \in SUBSET Fields
    OBVIOUS
  <2>2. QED
    BY <1>2, <2>1 DEF EditRow
<1>3. ASSUME NEW rows \in SUBSET Fields, AddMappings(s, p, rows)
      PROVE  \E to \in Changes : Edit(s, p, rows, to)
  BY <1>3 DEF AddMappings, Changes
<1>4. QED
  BY <1>1, <1>2, <1>3 DEF Review

\* What moves an event or a place keeps the types, where its place is there.
LEMMA EventsType ==
    ASSUME TypeOK, Placed(outbox, session), NEW s \in Sessions,
           Backfill(s) \/ EnqueueRow(s) \/ SkipRow(s) \/ CommitBackfill(s)
    PROVE  TypeOK'
<1> USE DEF TypeOK
<1>1. ASSUME session[s].op = "backfill"
      PROVE  Place(s) \in DOMAIN outbox /\ outbox[Place(s)].of = s
  BY <1>1, PlaceIs DEF Placed
<1>2. CASE Backfill(s)
  <2>1. [of |-> s, version |-> 0] \in Event
    BY DEF Event
  <2>2. outbox' \in Seq(Event)
    BY <1>2, <2>1 DEF Backfill
  <2>3. session' \in [Sessions -> Transaction]
    BY <1>2, Transactions DEF Backfill
  <2>4. clashed' \subseteq {"review", "drift", "outbox"}
    BY <1>2 DEF Backfill, Begin, Clashes
  <2>5. QED
    BY <1>2, <2>2, <2>3, <2>4 DEF Backfill, entityVars
<1>3. CASE EnqueueRow(s)
  <2>1. session[s].op = "backfill"
    BY <1>3 DEF EnqueueRow, Backfilling
  <2>2. session[s].seen \in Versions
    BY <2>1, Carries
  <2>3. outbox' \in Seq(Event)
    BY <1>1, <1>3, <2>1, <2>2, Stamped DEF EnqueueRow
  <2>4. QED
    BY <1>3, <2>3 DEF EnqueueRow, entityVars
<1>4. CASE SkipRow(s)
  <2>1. outbox' \in Seq(Event)
    BY <1>1, <1>4, Removal DEF SkipRow
  <2>2. session' \in [Sessions -> Transaction]
    BY <1>4, Transactions DEF SkipRow
  <2>3. QED
    BY <1>4, <2>1, <2>2 DEF SkipRow, entityVars
<1>5. CASE CommitBackfill(s)
  <2>1. outbox' \in Seq(Event)
    BY <1>1, <1>5, Stamped DEF CommitBackfill
  <2>2. session' \in [Sessions -> Transaction]
    BY <1>5, Transactions DEF CommitBackfill
  <2>3. QED
    BY <1>5, <2>1, <2>2 DEF CommitBackfill, entityVars
<1>6. QED
  BY <1>2, <1>3, <1>4, <1>5

\* The transactions that change the row.
LEMMA ChangeType ==
    ASSUME TypeOK, Dated(outbox, session, version), NEW c \in Writers,
           BeginChange(c) \/ ChangeRow(c) \/ EndChange(c)
    PROVE  TypeOK'
<1> USE DEF TypeOK
<1>1. ASSUME Writing(c) PROVE Place(c) \in DOMAIN outbox /\ outbox[Place(c)].of = c
  BY <1>1, PlaceIs DEF Writing
<1>2. CASE BeginChange(c)
  <2>1. [of |-> c, version |-> 0] \in Event
    BY DEF Event
  <2>2. outbox' \in Seq(Event)
    BY <1>2, <2>1 DEF BeginChange
  <2>3. QED
    BY <1>2, <2>2 DEF BeginChange, entityVars
<1>3. CASE ChangeRow(c)
  <2>1. version + 1 \in Versions
    BY <1>3, OnboardingAssumption DEF ChangeRow, Spent, Schemas, Versions
  <2>2. outbox' \in Seq(Event)
    BY <1>1, <1>3, <2>1, Stamped DEF ChangeRow
  <2>3. clashed' \subseteq {"review", "drift", "outbox"}
    BY <1>3 DEF ChangeRow
  <2>4. QED
    BY <1>3, <2>2, <2>3 DEF ChangeRow, entityVars
<1>4. CASE EndChange(c)
  <2>1. Place(c) \in DOMAIN outbox /\ outbox[Place(c)].of = c
    BY <1>1, <1>4 DEF EndChange
  <2>2. CASE /\ outbox[Place(c)].version # 0
             /\ outbox' = [outbox EXCEPT ![Place(c)].of = "committed"]
             /\ version' = version + 1
    <3>1. outbox' \in Seq(Event)
      BY <2>1, <2>2, Stamped
    <3>2. version' \in Versions
      <4>1. version' = outbox[Place(c)].version /\ version' \in Nat \ {0}
        BY <2>1, <2>2 DEF Versions, Dated
      <4>2. outbox[Place(c)] \in Event
        BY <2>1
      <4>3. QED
        BY <4>1, <4>2 DEF Event
    <3>3. QED
      BY <1>4, <3>1, <3>2 DEF EndChange, entityVars
  <2>3. CASE outbox' = RemoveAt(outbox, Place(c)) /\ UNCHANGED version
    <3>1. outbox' \in Seq(Event)
      BY <2>1, <2>3, Removal
    <3>2. QED
      BY <1>4, <2>3, <3>1 DEF EndChange, entityVars
  <2>4. QED
    BY <1>4, <2>2, <2>3 DEF EndChange
<1>5. QED
  BY <1>2, <1>3, <1>4

\* Every other operation of a session but an edit.
Work(s) ==
    \/ \E p \in Proposals, answer \in Answers : Propose(s, p, answer)
    \/ \E p \in Proposals, answer \in Answers, unmet \in BOOLEAN :
          BulkPropose(s, p, answer, unmet)
    \/ \E p \in Proposals : ApproveMapping(s, p) \/ Deploy(s, p)
    \/ BulkStart(s) \/ BulkDeploy(s) \/ CommitEdit(s) \/ CommitDeploy(s)
    \/ Monitor(s) \/ CommitPause(s) \/ Rebaseline(s) \/ CommitRebaseline(s)

\* It keeps the types.
LEMMA SessionType ==
    ASSUME TypeOK, NEW s \in Sessions, Work(s) PROVE TypeOK'
<1> USE Transactions DEF TypeOK
<1>0. session[s] \in Transaction
  OBVIOUS
<1>1. ASSUME NEW op, Begin(s, op) PROVE clashed' \subseteq {"review", "drift", "outbox"}
  BY <1>1 DEF Begin, Clashes
<1>2. ASSUME NEW p \in Proposals, NEW answer \in Answers, Propose(s, p, answer)
      PROVE  TypeOK'
  BY <1>1, <1>2, NewProposalType DEF Propose, NewProposal, rowVars
<1>3. ASSUME NEW p \in Proposals, NEW answer \in Answers, NEW unmet \in BOOLEAN,
             BulkPropose(s, p, answer, unmet)
      PROVE  TypeOK'
  BY <1>3, NewProposalType DEF BulkPropose, NewProposal, rowVars
<1>4. ASSUME NEW p \in Proposals, ApproveMapping(s, p) PROVE TypeOK'
  BY <1>1, <1>4 DEF ApproveMapping, rowVars, Approved
<1>5. ASSUME NEW p \in Proposals, Deploy(s, p) PROVE TypeOK'
  BY <1>1, <1>5 DEF Deploy, rowVars, entityVars
<1>6. CASE BulkStart(s)
  BY <1>1, <1>6 DEF BulkStart, rowVars, entityVars
<1>7. CASE BulkDeploy(s)
  <2>1. session[s].p \in Proposals
    BY <1>0, <1>7, Carries DEF BulkDeploy
  <2>2. QED
    BY <1>7, <2>1 DEF BulkDeploy, rowVars, entityVars
<1>8. CASE CommitEdit(s)
  <2> DEFINE tx == session[s]
  <2>1. tx.p \in Proposals /\ tx.to \in Changes /\ tx.status \in {"approved", "needs_review"}
    BY <1>0, <1>8, Carries DEF CommitEdit
  <2>2. proposal' \in [Proposals -> {"absent", "needs_review"} \cup Approved]
    BY <1>8, <2>1 DEF CommitEdit, Approved
  <2>3. \A row : Changed(row, tx.to) \in {"absent", "rejected"} \cup Pending \cup Decided
    BY <2>1 DEF Changed, Changes, Pending, Decided
  <2>4. [f \in Fields |-> IF f \in tx.rows THEN Changed(field[tx.p][f], tx.to) ELSE field[tx.p][f]]
            \in [Fields -> {"absent", "rejected"} \cup Pending \cup Decided]
    <3>1. field[tx.p] \in [Fields -> {"absent", "rejected"} \cup Pending \cup Decided]
      BY <2>1
    <3>2. QED
      BY <2>3, <3>1
  <2>5. field' = [field EXCEPT ![tx.p] =
            [f \in Fields |-> IF f \in tx.rows THEN Changed(field[tx.p][f], tx.to)
                              ELSE field[tx.p][f]]]
    BY <1>8, <2>1 DEF CommitEdit
  <2>6. field' \in [Proposals -> [Fields -> {"absent", "rejected"} \cup Pending \cup Decided]]
    BY <2>4, <2>5
  <2>7. QED
    BY <1>8, <2>2, <2>6 DEF CommitEdit, rowVars
<1>9. CASE CommitDeploy(s)
  <2>1. live.target \in Fingerprint
    BY FingerprintsOf
  <2>2. baseline' \in [source : Fingerprint, target : Fingerprint]
    BY <1>9, <2>1 DEF CommitDeploy
  <2>3. proposal' \in [Proposals -> {"absent", "needs_review"} \cup Approved]
    BY <1>9 DEF CommitDeploy, Approved
  <2>4. QED
    BY <1>9, <2>2, <2>3 DEF CommitDeploy, rowVars
<1>10. CASE Monitor(s)
  BY <1>1, <1>10 DEF Monitor, rowVars, entityVars
<1>11. CASE CommitPause(s)
  BY <1>11 DEF CommitPause, rowVars
<1>12. CASE Rebaseline(s)
  BY <1>1, <1>12 DEF Rebaseline, rowVars, entityVars
<1>13. CASE CommitRebaseline(s)
  <2>1. session[s].seen \in Schemas
    BY <1>0, <1>13, Carries DEF CommitRebaseline
  <2>2. baseline' \in [source : Fingerprint, target : Fingerprint]
    BY <1>13, <2>1, FingerprintsOf DEF CommitRebaseline
  <2>3. QED
    BY <1>13, <2>2 DEF CommitRebaseline, rowVars
<1> HIDE DEF TypeOK
<1>14. QED
  BY <1>2, <1>3, <1>4, <1>5, <1>6, <1>7, <1>8, <1>9, <1>10, <1>11, <1>12, <1>13
     DEF Work

\* All types, with the places of the events.
LEMMA TypeStep == TypeOK /\ EventsInv /\ [Next]_vars => TypeOK'
<1> SUFFICES ASSUME TypeOK, EventsInv, [Next]_vars PROVE TypeOK'
  OBVIOUS
<1>1. ASSUME NEW s \in Sessions, NEW p \in Proposals, Review(s, p) PROVE TypeOK'
  BY <1>1, ReviewEdits, EditType
<1>2. ASSUME NEW s \in Sessions,
             Backfill(s) \/ EnqueueRow(s) \/ SkipRow(s) \/ CommitBackfill(s)
      PROVE  TypeOK'
  BY <1>2, EventsType DEF EventsInv
<1>3. ASSUME NEW c \in Writers, BeginChange(c) \/ ChangeRow(c) \/ EndChange(c) PROVE TypeOK'
  BY <1>3, ChangeType DEF EventsInv
<1>4. ASSUME NEW side \in {"source", "target"}, ChangeSchema(side) PROVE TypeOK'
  <2>1. live' \in Schemas
    BY <1>4, OnboardingAssumption DEF ChangeSchema, Schemas, TypeOK
  <2>2. QED
    BY <1>4, <2>1 DEF ChangeSchema, rowVars, TypeOK
<1>5. CASE UNCHANGED vars
  BY <1>5 DEF vars, entityVars, rowVars, TypeOK
<1>6. QED
  BY <1>1, <1>2, <1>3, <1>4, <1>5, SessionType DEF Next, Work

-----------------------------------------------------------------------------
(* The events *)

\* Neither a change nor what is committed belongs to a session.
LEMMA Strangers ==
    /\ "committed" \notin Sessions /\ "committed" \notin Writers
    /\ \A s \in Sessions : s \notin Writers
BY OnboardingAssumption

\* A backfill that begins where no clash is recorded is alone.
LEMMA AloneWithTheRow ==
    ASSUME NEW s \in Sessions, Begin(s, "backfill"), "outbox" \notin clashed'
    PROVE  /\ "outbox" \notin clashed
           /\ \A x \in Sessions : session[x].op = "backfill" => x = s
           /\ \A i \in DOMAIN outbox : outbox[i].of \notin Writers
<1>1. "outbox" \in DOMAIN Clashes
      /\ Clashes["outbox"] = {{"backfill"}, {"backfill", "change"}}
  BY DEF Clashes
<1>2. \A other \in Beside(s) : {"backfill", other} \notin Clashes["outbox"]
  BY <1>1 DEF Begin
<1>3. ASSUME NEW x \in Sessions, session[x].op = "backfill", x # s PROVE FALSE
  <2>1. "backfill" \in Beside(s)
    BY <1>3 DEF Beside
  <2>2. {"backfill", "backfill"} \in Clashes["outbox"]
    BY <1>1
  <2>3. QED
    BY <1>2, <2>1, <2>2
<1>4. ASSUME NEW i \in DOMAIN outbox, outbox[i].of \in Writers PROVE FALSE
  <2>1. "change" \in Beside(s)
    BY <1>4 DEF Beside
  <2>2. QED
    BY <1>1, <1>2, <2>1
<1>5. QED
  BY <1>3, <1>4 DEF Begin

\* Versions are numbers.
LEMMA Numbers ==
    ASSUME TypeOK
    PROVE  /\ Len(outbox) \in Nat /\ DOMAIN outbox = 1..Len(outbox)
           /\ version \in Nat /\ version >= 1
           /\ \A i \in DOMAIN outbox : outbox[i].version \in Nat
<1>1. outbox \in Seq(Event) /\ version \in Versions
  BY DEF TypeOK
<1>2. version \in Nat /\ version >= 1
  BY <1>1, OnboardingAssumption DEF Versions
<1>3. ASSUME NEW i \in DOMAIN outbox PROVE outbox[i].version \in Nat
  <2>1. outbox[i] \in Event
    BY <1>1
  <2>2. QED
    BY <2>1, OnboardingAssumption DEF Event, Versions
<1>4. QED
  BY <1>1, <1>2, <1>3

\* A change starts behind everything that is there.
LEMMA ChangeBegins ==
    ASSUME TypeOK, EventsInv, NEW c \in Writers, BeginChange(c) PROVE EventsInv'
<1> DEFINE n == Len(outbox) + 1
<1>1. /\ n \in Nat /\ n >= 1 /\ DOMAIN outbox = 1..(n - 1)
      /\ version \in Nat /\ version >= 1
      /\ \A i \in DOMAIN outbox : outbox[i].version \in Nat
  BY Numbers
<1>2. /\ DOMAIN outbox' = 1..n
      /\ \A i \in DOMAIN outbox : outbox'[i] = outbox[i]
      /\ outbox'[n].of = c /\ outbox'[n].version = 0
  BY <1>1 DEF BeginChange, TypeOK
<1>3. /\ UNCHANGED <<session, version, clashed>>
      /\ \A i \in DOMAIN outbox : outbox[i].of # c
  BY DEF BeginChange
<1> HIDE DEF n
<1>4. Placed(outbox', session)
  BY <1>1, <1>2, <1>3, Strangers DEF EventsInv, Placed
<1>5. Dated(outbox', session, version)
  BY <1>1, <1>2, <1>3, Strangers DEF EventsInv, Dated
<1>6. ASSUME "outbox" \notin clashed PROVE Sequenced(outbox') /\ Newest(outbox', version)
  <2>1. Sequenced(outbox')
    BY <1>1, <1>2, <1>3, <1>6, Strangers DEF EventsInv, Sequenced
  <2>2. Newest(outbox', version)
    BY <1>1, <1>2, <1>6, Strangers DEF EventsInv, Newest
  <2>3. QED
    BY <2>1, <2>2
<1>7. QED
  BY <1>3, <1>4, <1>5, <1>6 DEF EventsInv

\* The row is changed: without a clash, behind all events there are.
LEMMA RowChanges ==
    ASSUME TypeOK, EventsInv, NEW c \in Writers, ChangeRow(c) PROVE EventsInv'
<1> DEFINE k == Place(c)
<1>1. k \in DOMAIN outbox /\ outbox[k].of = c
  BY PlaceIs DEF ChangeRow, Writing
<1>2. \A j \in DOMAIN outbox : outbox[j].of \in Writers => outbox[j].version = 0
  BY DEF ChangeRow
<1>3. /\ DOMAIN outbox' = DOMAIN outbox
      /\ \A j \in DOMAIN outbox : /\ outbox'[j].of = outbox[j].of
                                  /\ j # k => outbox'[j].version = outbox[j].version
      /\ outbox'[k].version = version + 1
  <2>1. outbox' = [outbox EXCEPT ![k].version = version + 1]
    BY DEF ChangeRow
  <2>2. outbox[k] \in Event /\ outbox \in Seq(Event)
    BY <1>1 DEF TypeOK
  <2> HIDE DEF k
  <2>3. outbox'[k] = [outbox[k] EXCEPT !.version = version + 1]
    BY <1>1, <2>1, <2>2
  <2>4. outbox'[k].of = outbox[k].of /\ outbox'[k].version = version + 1
    BY <2>2, <2>3 DEF Event
  <2>5. QED
    BY <1>1, <2>1, <2>2, <2>4
<1>4. /\ UNCHANGED <<session, version>> /\ clashed \subseteq clashed'
      /\ \A i \in DOMAIN outbox : i > k /\ outbox[i].version # 0 => "outbox" \in clashed'
  BY DEF ChangeRow
<1>5. /\ version \in Nat /\ version >= 1
      /\ \A i \in DOMAIN outbox : i \in Int /\ outbox[i].version \in Nat
  BY Numbers
<1> HIDE DEF k
<1>6. Placed(outbox', session)
  BY <1>3 DEF EventsInv, Placed
<1>7. Dated(outbox', session, version)
  <2>1. \A i \in DOMAIN outbox' : outbox'[i].of \in Writers /\ i # k => outbox'[i].version = 0
    BY <1>2, <1>3
  <2>2. \A i \in DOMAIN outbox' :
           outbox'[i].of \in Sessions \cup {"committed"} => outbox'[i] .version = outbox[i].version
    BY <1>1, <1>3, Strangers
  <2>3. \A i \in DOMAIN outbox' :
           /\ outbox'[i].of \in Writers => outbox'[i].version \in {0, version + 1}
           /\ outbox'[i].of \in Writers /\ outbox'[i].version # 0 => i = k
    BY <1>3, <2>1
  <2>4. QED
    BY <1>3, <2>2, <2>3 DEF EventsInv, Dated
<1>8. ASSUME "outbox" \notin clashed' PROVE Sequenced(outbox') /\ Newest(outbox', version)
  <2>1. Sequenced(outbox) /\ Newest(outbox, version)
    BY <1>4, <1>8 DEF EventsInv
  <2>2. \A i \in DOMAIN outbox : outbox[i].of = "committed" => i < k
    BY <1>1, <1>4, <1>5, <1>8, Strangers DEF EventsInv, Dated
  <2>3. ASSUME NEW i \in DOMAIN outbox', NEW j \in DOMAIN outbox'
        PROVE  /\ outbox'[i].of \in Sessions /\ outbox'[j].of \in Sessions => i = j
               /\ outbox'[i].of \in Sessions /\ outbox'[j].of \in Writers => i < j
               /\ outbox'[i].of = "committed" /\ outbox'[j].of \in Writers
                     /\ outbox'[j].version # 0 => i < j
    BY <1>2, <1>3, <2>1, <2>2 DEF Sequenced
  <2>4. ASSUME NEW i \in DOMAIN outbox', NEW j \in DOMAIN outbox',
               outbox'[i].of \notin Writers, outbox'[j].of \notin Writers
        PROVE  outbox'[i].of = outbox[i].of /\ outbox'[i].version = outbox[i].version
               /\ outbox'[j].of = outbox[j].of /\ outbox'[j].version = outbox[j].version
    BY <1>1, <1>3, <2>4
  <2>5. Sequenced(outbox')
    BY <1>3, <2>1, <2>3, <2>4, Strangers DEF Sequenced
  <2>6. Newest(outbox', version)
    BY <1>1, <1>3, <2>1, Strangers DEF Newest
  <2>7. QED
    BY <2>5, <2>6
<1>9. QED
  BY <1>4, <1>6, <1>7, <1>8 DEF EventsInv

\* So does a backfill.
LEMMA BackfillBegins ==
    ASSUME TypeOK, EventsInv, NEW s \in Sessions, Backfill(s) PROVE EventsInv'
<1> DEFINE n == Len(outbox) + 1
<1>1. /\ n \in Nat /\ n >= 1 /\ DOMAIN outbox = 1..(n - 1)
      /\ version \in Nat /\ version >= 1
      /\ \A i \in DOMAIN outbox : outbox[i].version \in Nat
  BY Numbers
<1>2. /\ DOMAIN outbox' = 1..n
      /\ \A i \in DOMAIN outbox : outbox'[i] = outbox[i]
      /\ outbox'[n].of = s /\ outbox'[n].version = 0
  BY <1>1 DEF Backfill, TypeOK
<1>3. /\ session[s].op # "backfill"
      /\ \A x \in Sessions : x # s => session'[x] = session[x]
      /\ session'[s].op = "backfill" /\ session'[s].seen = version
      /\ UNCHANGED version
  BY DEF Backfill, Begin, Idle, TypeOK
<1> HIDE DEF n
<1>4. \A i \in DOMAIN outbox : outbox[i].of # s
  BY <1>3 DEF EventsInv, Placed
<1>5. Placed(outbox', session')
  <2>1. \A x \in Sessions : session'[x].op = "backfill" => \E i \in DOMAIN outbox' : outbox'[i].of = x
    <3>1. n \in DOMAIN outbox' /\ DOMAIN outbox \subseteq DOMAIN outbox'
      BY <1>1, <1>2
    <3>2. ASSUME NEW x \in Sessions, x # s, session'[x].op = "backfill"
          PROVE  \E i \in DOMAIN outbox' : outbox'[i].of = x
      <4>1. PICK i \in DOMAIN outbox : outbox[i].of = x
        BY <1>3, <3>2 DEF EventsInv, Placed
      <4>2. QED
        BY <1>2, <3>1, <4>1
    <3>3. QED
      BY <1>2, <3>1, <3>2
  <2>2. \A i \in DOMAIN outbox' :
            outbox'[i].of \in Sessions => session'[outbox'[i].of].op = "backfill"
    BY <1>1, <1>2, <1>3, <1>4 DEF EventsInv, Placed
  <2>3. \A i, j \in DOMAIN outbox' :
            outbox'[i].of = outbox'[j].of /\ outbox'[i].of # "committed" => i = j
    BY <1>1, <1>2, <1>4 DEF EventsInv, Placed
  <2>4. QED
    BY <2>1, <2>2, <2>3 DEF Placed
<1>6. Dated(outbox', session', version)
  BY <1>1, <1>2, <1>3, <1>4, Strangers DEF EventsInv, Dated
<1>7. ASSUME "outbox" \notin clashed' PROVE Sequenced(outbox') /\ Newest(outbox', version)
  <2>1. /\ "outbox" \notin clashed
        /\ \A x \in Sessions : session[x].op = "backfill" => x = s
        /\ \A i \in DOMAIN outbox : outbox[i].of \notin Writers
    BY <1>7, AloneWithTheRow DEF Backfill
  <2>2. \A i \in DOMAIN outbox : outbox[i].of \notin Sessions
    BY <1>3, <2>1 DEF EventsInv, Placed
  <2>3. Sequenced(outbox')
    BY <1>1, <1>2, <2>1, <2>2, Strangers DEF EventsInv, Sequenced
  <2>4. Newest(outbox', version)
    BY <1>1, <1>2, <2>1, Strangers DEF EventsInv, Newest
  <2>5. QED
    BY <2>3, <2>4
<1>8. QED
  BY <1>3, <1>5, <1>6, <1>7 DEF EventsInv

\* A row is queued, where no event of it was found.
LEMMA RowQueued ==
    ASSUME TypeOK, EventsInv, NEW s \in Sessions, EnqueueRow(s) PROVE EventsInv'
<1> DEFINE k == Place(s)
<1>1. k \in DOMAIN outbox /\ outbox[k].of = s
  BY PlaceIs DEF EnqueueRow, Backfilling, EventsInv, Placed
<1>2. \A j \in DOMAIN outbox : outbox[j].of # "committed"
  BY DEF EnqueueRow, Found
<1>3. /\ DOMAIN outbox' = DOMAIN outbox
      /\ \A j \in DOMAIN outbox : /\ outbox'[j].of = outbox[j].of
                                  /\ j # k => outbox'[j].version = outbox[j].version
      /\ outbox'[k].version = session[s].seen
  <2>1. outbox' = [outbox EXCEPT ![k].version = session[s].seen]
    BY DEF EnqueueRow
  <2>2. outbox[k] \in Event /\ outbox \in Seq(Event)
    BY <1>1 DEF TypeOK
  <2> HIDE DEF k
  <2>3. outbox'[k] = [outbox[k] EXCEPT !.version = session[s].seen]
    BY <1>1, <2>1, <2>2
  <2>4. outbox'[k].of = outbox[k].of /\ outbox'[k].version = session[s].seen
    BY <2>2, <2>3 DEF Event
  <2>5. QED
    BY <1>1, <2>1, <2>2, <2>4
<1>4. UNCHANGED <<session, version, clashed>>
  BY DEF EnqueueRow
<1> HIDE DEF k
<1>5. Placed(outbox', session)
  BY <1>3 DEF EventsInv, Placed
<1>6. Dated(outbox', session, version)
  BY <1>1, <1>2, <1>3, Strangers DEF EventsInv, Dated
<1>7. ASSUME "outbox" \notin clashed PROVE Sequenced(outbox') /\ Newest(outbox', version)
  <2>1. Sequenced(outbox')
    BY <1>2, <1>3, <1>7 DEF EventsInv, Sequenced
  <2>2. Newest(outbox', version)
    BY <1>2, <1>3 DEF Newest
  <2>3. QED
    BY <2>1, <2>2
<1>8. QED
  BY <1>4, <1>5, <1>6, <1>7 DEF EventsInv

\* What is open may be taken out: the others keep their order.
LEMMA TakenOut ==
    ASSUME NEW o \in Seq(Event), NEW k \in DOMAIN o, o[k].of # "committed",
           NEW ss, NEW tt, NEW v, Placed(o, ss), Dated(o, ss, v),
           \A x \in Sessions : x # o[k].of => tt[x] = ss[x],
           o[k].of \in Sessions => tt[o[k].of].op # "backfill"
    PROVE  /\ Placed(RemoveAt(o, k), tt)
           /\ Dated(RemoveAt(o, k), tt, v)
           /\ Sequenced(o) => Sequenced(RemoveAt(o, k))
           /\ Newest(o, v) => Newest(RemoveAt(o, k), v)
<1> DEFINE r == RemoveAt(o, k)
           At(j) == IF j < k THEN j ELSE j + 1
<1>1. /\ Len(o) \in Nat /\ k \in 1..Len(o) /\ DOMAIN o = 1..Len(o)
      /\ DOMAIN r = 1..(Len(o) - 1)
      /\ \A j \in DOMAIN r : r[j] = o[At(j)]
  <2>1. /\ r \in Seq(Event) /\ Len(r) = Len(o) - 1
        /\ \A j \in 1..(Len(o) - 1) : r[j] = IF j < k THEN o[j] ELSE o[j + 1]
    BY Removal
  <2> HIDE DEF r
  <2>2. /\ Len(o) \in Nat /\ k \in 1..Len(o) /\ DOMAIN o = 1..Len(o)
        /\ DOMAIN r = 1..(Len(o) - 1)
    BY <2>1
  <2>3. QED
    BY <2>1, <2>2
<1> HIDE DEF r
<1>2. /\ \A j \in DOMAIN r : At(j) \in DOMAIN o /\ At(j) # k
      /\ \A i, j \in DOMAIN r : (i < j <=> At(i) < At(j)) /\ (At(i) = At(j) => i = j)
  BY <1>1
<1>3. \A i \in DOMAIN o : i # k => \E j \in DOMAIN r : At(j) = i
  <2>1. ASSUME NEW i \in DOMAIN o, i < k PROVE i \in DOMAIN r /\ At(i) = i
    BY <1>1, <2>1
  <2>2. ASSUME NEW i \in DOMAIN o, i > k PROVE i - 1 \in DOMAIN r /\ At(i - 1) = i
    BY <1>1, <2>2
  <2>3. \A i \in DOMAIN o : i < k \/ i > k \/ i = k
    BY <1>1
  <2> HIDE DEF At
  <2>4. QED
    BY <2>1, <2>2, <2>3
<1> HIDE DEF At
<1>4. \A j \in DOMAIN r : r[j].of # o[k].of \/ r[j].of = "committed"
  BY <1>1, <1>2 DEF Placed
<1>5. Placed(r, tt)
  <2>1. ASSUME NEW s \in Sessions, tt[s].op = "backfill" PROVE \E i \in DOMAIN r : r[i].of = s
    <3>1. s # o[k].of
      BY <2>1
    <3>2. PICK i \in DOMAIN o : o[i].of = s
      BY <2>1, <3>1 DEF Placed
    <3>3. QED
      BY <1>1, <1>3, <3>1, <3>2
  <2>2. ASSUME NEW i \in DOMAIN r, r[i].of \in Sessions PROVE tt[r[i].of].op = "backfill"
    BY <1>1, <1>2, <1>4, <2>2, Strangers DEF Placed
  <2>3. ASSUME NEW i \in DOMAIN r, NEW j \in DOMAIN r, r[i].of = r[j].of, r[i].of # "committed"
        PROVE  i = j
    BY <1>1, <1>2, <2>3 DEF Placed
  <2>4. QED
    BY <2>1, <2>2, <2>3 DEF Placed
<1>6. (\A j \in DOMAIN r : r[j].of # "committed") => \A i \in DOMAIN o : o[i].of # "committed"
  BY <1>1, <1>3
<1>7. Dated(r, tt, v)
  <2>1. ASSUME NEW i \in DOMAIN r, r[i].of \in Sessions
        PROVE  r[i].of # o[k].of /\ tt[r[i].of] = ss[r[i].of]
    BY <1>4, <2>1, Strangers
  <2>2. QED
    BY <1>1, <1>2, <1>6, <2>1 DEF Dated
<1>8. Sequenced(o) => Sequenced(r)
  BY <1>1, <1>2 DEF Sequenced
<1>9. ASSUME Newest(o, v), NEW i \in DOMAIN r, r[i].of = "committed"
      PROVE  \E j \in DOMAIN r : r[j].of = "committed" /\ r[j].version = v
  <2>1. PICK j \in DOMAIN o : o[j].of = "committed" /\ o[j].version = v
    BY <1>1, <1>2, <1>9 DEF Newest
  <2>2. QED
    BY <1>1, <1>3, <2>1
<1>10. QED
  BY <1>5, <1>7, <1>8, <1>9 DEF r, Newest

\* A backfill queues nothing.
LEMMA RowSkipped ==
    ASSUME TypeOK, EventsInv, NEW s \in Sessions, SkipRow(s) PROVE EventsInv'
<1>1. Place(s) \in DOMAIN outbox /\ outbox[Place(s)].of = s
  BY PlaceIs DEF SkipRow, EventsInv, Placed
<1>2. /\ outbox' = RemoveAt(outbox, Place(s)) /\ UNCHANGED <<version, clashed>>
      /\ \A x \in Sessions : x # s => session'[x] = session[x]
      /\ session'[s].op # "backfill"
  BY DEF SkipRow, TypeOK, Idle
<1>3. /\ Placed(outbox', session') /\ Dated(outbox', session', version)
      /\ Sequenced(outbox) => Sequenced(outbox')
      /\ Newest(outbox, version) => Newest(outbox', version)
  BY <1>1, <1>2, TakenOut, Strangers DEF EventsInv, TypeOK
<1>4. QED
  BY <1>2, <1>3 DEF EventsInv

\* A backfill commits what it has queued.
LEMMA BackfillOver ==
    ASSUME TypeOK, EventsInv, NEW s \in Sessions, CommitBackfill(s) PROVE EventsInv'
<1> DEFINE k == Place(s)
<1>1. k \in DOMAIN outbox /\ outbox[k].of = s /\ outbox[k].version # 0
  BY PlaceIs DEF CommitBackfill, EventsInv, Placed
<1>2. /\ DOMAIN outbox' = DOMAIN outbox
      /\ \A j \in DOMAIN outbox : /\ outbox'[j].version = outbox[j].version
                                  /\ j # k => outbox'[j].of = outbox[j].of
      /\ outbox'[k].of = "committed"
  <2>1. outbox' = [outbox EXCEPT ![k].of = "committed"]
    BY DEF CommitBackfill
  <2>2. outbox[k] \in Event /\ outbox \in Seq(Event)
    BY <1>1 DEF TypeOK
  <2> HIDE DEF k
  <2>3. outbox'[k] = [outbox[k] EXCEPT !.of = "committed"]
    BY <1>1, <2>1, <2>2
  <2>4. outbox'[k].version = outbox[k].version /\ outbox'[k].of = "committed"
    BY <2>2, <2>3 DEF Event
  <2>5. QED
    BY <1>1, <2>1, <2>2, <2>4
<1>3. /\ UNCHANGED <<version, clashed>>
      /\ \A x \in Sessions : x # s => session'[x] = session[x]
      /\ session'[s].op # "backfill"
  BY DEF CommitBackfill, TypeOK, Idle
<1>4. /\ outbox[k].version = session[s].seen /\ session[s].seen \in 1..version
      /\ (\A j \in DOMAIN outbox : outbox[j].of # "committed") => session[s].seen = version
  BY <1>1 DEF EventsInv, Dated
<1>5. \A j \in DOMAIN outbox : j # k => outbox[j].of # s
  BY <1>1, Strangers DEF EventsInv, Placed
<1>6. \A i \in DOMAIN outbox : i \in Int /\ outbox[i].version \in Nat
  BY Numbers
<1> HIDE DEF k
<1>7. Placed(outbox', session')
  <2>1. ASSUME NEW x \in Sessions, session'[x].op = "backfill"
        PROVE  \E i \in DOMAIN outbox' : outbox'[i].of = x
    <3>1. x # s /\ session[x].op = "backfill"
      BY <1>3, <2>1
    <3>2. PICK i \in DOMAIN outbox : outbox[i].of = x
      BY <3>1 DEF EventsInv, Placed
    <3>3. QED
      BY <1>1, <1>2, <3>1, <3>2
  <2>2. \A i \in DOMAIN outbox' :
            outbox'[i].of \in Sessions => session'[outbox'[i].of].op = "backfill"
    BY <1>2, <1>3, <1>5, Strangers DEF EventsInv, Placed
  <2>3. \A i, j \in DOMAIN outbox' :
            outbox'[i].of = outbox'[j].of /\ outbox'[i].of # "committed" => i = j
    BY <1>2 DEF EventsInv, Placed
  <2>4. QED
    BY <2>1, <2>2, <2>3 DEF Placed
<1>8. Dated(outbox', session', version)
  <2>1. \A i \in DOMAIN outbox' : outbox'[i].of \in Writers =>
            /\ outbox'[i].version \in {0, version + 1}
            /\ outbox'[i].version # 0 =>
                  \A j \in DOMAIN outbox' :
                      outbox'[j].of \in Writers /\ outbox'[j].version # 0 => i = j
    <3>1. \A i \in DOMAIN outbox' : outbox'[i].of \in Writers =>
              outbox[i].of \in Writers /\ outbox'[i].version = outbox[i].version
      BY <1>2, Strangers
    <3>2. QED
      BY <1>2, <3>1 DEF EventsInv, Dated
  <2>2. \A i \in DOMAIN outbox' : outbox'[i].of = "committed" => outbox'[i].version \in 1..version
    BY <1>2, <1>4 DEF EventsInv, Dated
  <2>3. ASSUME NEW i \in DOMAIN outbox', outbox'[i].of \in Sessions
        PROVE  /\ outbox'[i].version \in {0, session'[outbox'[i].of].seen}
               /\ session'[outbox'[i].of].seen \in 1..version
    <3>1. i # k /\ outbox'[i] .of = outbox[i].of /\ session'[outbox[i].of] = session[outbox[i].of]
      BY <1>2, <1>3, <1>5, <2>3, Strangers
    <3>2. QED
      BY <1>2, <2>3, <3>1 DEF EventsInv, Dated
  <2>4. ~ \A j \in DOMAIN outbox' : outbox'[j].of # "committed"
    BY <1>1, <1>2
  <2>5. QED
    BY <2>1, <2>2, <2>3, <2>4 DEF Dated
<1>9. ASSUME "outbox" \notin clashed PROVE Sequenced(outbox') /\ Newest(outbox', version)
  <2>1. Sequenced(outbox) /\ Newest(outbox, version)
    BY <1>9 DEF EventsInv
  <2>2. \A i \in DOMAIN outbox : i # k => outbox[i].of \notin Sessions
    BY <1>1, <2>1 DEF Sequenced
  <2>3. Sequenced(outbox')
    BY <1>1, <1>2, <1>6, <2>1, <2>2, Strangers DEF Sequenced
  <2>4. Newest(outbox', version)
    <3>1. CASE \E i \in DOMAIN outbox : outbox[i].of = "committed"
      <4>1. PICK j \in DOMAIN outbox : outbox[j].of = "committed" /\ outbox[j].version = version
        BY <2>1, <3>1 DEF Newest
      <4>2. j # k
        BY <1>1, <4>1, Strangers
      <4>3. QED
        BY <1>2, <4>1, <4>2 DEF Newest
    <3>2. CASE \A i \in DOMAIN outbox : outbox[i].of # "committed"
      BY <1>1, <1>2, <1>4, <3>2 DEF Newest
    <3>3. QED
      BY <3>1, <3>2
  <2>5. QED
    BY <2>3, <2>4
<1>10. QED
  BY <1>3, <1>7, <1>8, <1>9 DEF EventsInv

\* A change commits the row and its event, or neither.
LEMMA ChangeOver ==
    ASSUME TypeOK, EventsInv, NEW c \in Writers, EndChange(c) PROVE EventsInv'
<1> DEFINE k == Place(c)
<1>1. k \in DOMAIN outbox /\ outbox[k].of = c
  BY PlaceIs DEF EndChange, Writing
<1>2. UNCHANGED <<session, clashed>>
  BY DEF EndChange
<1>3. CASE outbox' = RemoveAt(outbox, k) /\ UNCHANGED version
  <2>1. /\ Placed(outbox', session) /\ Dated(outbox', session, version)
        /\ Sequenced(outbox) => Sequenced(outbox')
        /\ Newest(outbox, version) => Newest(outbox', version)
    BY <1>1, <1>3, TakenOut, Strangers DEF EventsInv, TypeOK
  <2>2. QED
    BY <1>2, <1>3, <2>1 DEF EventsInv
<1>4. CASE /\ outbox[k].version # 0
           /\ outbox' = [outbox EXCEPT ![k].of = "committed"] /\ version' = version + 1
  <2>1. /\ DOMAIN outbox' = DOMAIN outbox
        /\ \A j \in DOMAIN outbox : /\ outbox'[j].version = outbox[j].version
                                    /\ j # k => outbox'[j].of = outbox[j].of
        /\ outbox'[k].of = "committed"
    <3>1. outbox[k] \in Event /\ outbox \in Seq(Event)
      BY <1>1 DEF TypeOK
    <3> HIDE DEF k
    <3>2. outbox'[k] = [outbox[k] EXCEPT !.of = "committed"]
      BY <1>1, <1>4, <3>1
    <3>3. outbox'[k].version = outbox[k].version /\ outbox'[k].of = "committed"
      BY <3>1, <3>2 DEF Event
    <3>4. QED
      BY <1>1, <1>4, <3>1, <3>3
  <2>2. outbox[k].version = version'
    BY <1>1, <1>4 DEF EventsInv, Dated
  <2>3. \A j \in DOMAIN outbox : j # k /\ outbox[j].of \in Writers => outbox[j].version = 0
    BY <1>1, <1>4 DEF EventsInv, Dated
  <2>4. /\ version \in Nat /\ version >= 1 /\ version' = version + 1
        /\ \A i \in DOMAIN outbox : i \in Int /\ outbox[i].version \in Nat
    BY <1>4, Numbers
  <2> HIDE DEF k
  <2>5. Placed(outbox', session)
    BY <1>1, <2>1, Strangers DEF EventsInv, Placed
  <2>6. Dated(outbox', session, version')
    <3>1. \A i \in DOMAIN outbox' : outbox'[i].of = "committed" => outbox'[i].version \in 1..version'
      BY <2>1, <2>2, <2>4 DEF EventsInv, Dated
    <3>2. \A i \in DOMAIN outbox' : outbox'[i].of \in Writers => outbox'[i].version = 0
      BY <2>1, <2>3, Strangers
    <3>3. ASSUME NEW i \in DOMAIN outbox', outbox'[i].of \in Sessions
          PROVE  /\ outbox'[i].version \in {0, session[outbox'[i].of].seen}
                 /\ session[outbox'[i].of].seen \in 1..version'
      <4>1. i # k
        BY <2>1, <3>3, Strangers
      <4>2. QED
        BY <2>1, <2>4, <3>3, <4>1 DEF EventsInv, Dated
    <3>4. ~ \A j \in DOMAIN outbox' : outbox'[j].of # "committed"
      BY <1>1, <2>1
    <3>5. QED
      BY <3>1, <3>2, <3>3, <3>4 DEF Dated
  <2>7. ASSUME "outbox" \notin clashed PROVE Sequenced(outbox') /\ Newest(outbox', version')
    <3>1. Sequenced(outbox)
      BY <2>7 DEF EventsInv
    <3>2. \A i \in DOMAIN outbox : outbox[i].of = "committed" => outbox[i].version < version'
      BY <2>4 DEF EventsInv, Dated
    <3>3. \A i \in DOMAIN outbox : outbox[i].of \in Sessions => outbox[i].version < version'
      BY <2>4 DEF EventsInv, Dated
    <3>4. Sequenced(outbox')
      BY <1>1, <2>1, <2>2, <2>3, <2>4, <3>1, <3>2, <3>3, Strangers DEF Sequenced
    <3>5. Newest(outbox', version')
      BY <1>1, <2>1, <2>2 DEF Newest
    <3>6. QED
      BY <3>4, <3>5
  <2>8. QED
    BY <1>2, <2>5, <2>6, <2>7 DEF EventsInv
<1>5. QED
  BY <1>3, <1>4 DEF EndChange

\* Session s goes on with something, and no other does.
Becomes(s) ==
    /\ \A x \in Sessions : x # s => session'[x] = session[x]
    /\ session'[s].op # "backfill"

\* What else a session does leaves the events and the backfills alone.
LEMMA EventsLeft ==
    ASSUME TypeOK, NEW s \in Sessions, Work(s) \/ \E p \in Proposals : Review(s, p)
    PROVE  /\ UNCHANGED rowVars /\ clashed \subseteq clashed'
           /\ \A x \in Sessions : session[x].op = "backfill" \/ session'[x].op = "backfill" =>
                 session'[x] = session[x]
<1> USE DEF rowVars, Becomes, TypeOK
<1>1. ASSUME session[s].op # "backfill", Becomes(s)
      PROVE  \A x \in Sessions : session[x].op = "backfill" \/ session'[x].op = "backfill" =>
                session'[x] = session[x]
  BY <1>1
<1>2. ASSUME NEW op, Begin(s, op) PROVE clashed \subseteq clashed' /\ session[s].op # "backfill"
  BY <1>2 DEF Begin, Idle
<1>3. Idle.op # "backfill"
  BY DEF Idle
<1>4. ASSUME NEW p \in Proposals, NEW answer \in Answers, Propose(s, p, answer)
      PROVE  UNCHANGED <<rowVars, session>> /\ clashed \subseteq clashed'
  BY <1>2, <1>4 DEF Propose, NewProposal
<1>5. ASSUME NEW p \in Proposals, NEW answer \in Answers, NEW unmet \in BOOLEAN,
             BulkPropose(s, p, answer, unmet)
      PROVE  /\ UNCHANGED <<rowVars, clashed>> /\ session[s].op # "backfill"
             /\ Becomes(s)
  BY <1>3, <1>5 DEF BulkPropose, NewProposal
<1>6. ASSUME NEW p \in Proposals, ApproveMapping(s, p)
      PROVE  UNCHANGED <<rowVars, session>> /\ clashed \subseteq clashed'
  BY <1>2, <1>6 DEF ApproveMapping
<1>7. ASSUME NEW p \in Proposals, Deploy(s, p)
      PROVE  /\ UNCHANGED rowVars /\ clashed \subseteq clashed' /\ session[s].op # "backfill"
             /\ Becomes(s)
  BY <1>2, <1>7 DEF Deploy
<1>8. ASSUME BulkStart(s) \/ Monitor(s) \/ Rebaseline(s)
      PROVE  /\ UNCHANGED rowVars /\ clashed \subseteq clashed' /\ session[s].op # "backfill"
             /\ Becomes(s)
  BY <1>2, <1>8 DEF BulkStart, Monitor, Rebaseline
<1>9. ASSUME BulkDeploy(s)
      PROVE  /\ UNCHANGED <<rowVars, clashed>> /\ session[s].op # "backfill"
             /\ Becomes(s)
  BY <1>3, <1>9 DEF BulkDeploy
<1>10. ASSUME CommitEdit(s) \/ CommitDeploy(s) \/ CommitPause(s) \/ CommitRebaseline(s)
       PROVE  /\ UNCHANGED <<rowVars, clashed>> /\ session[s].op # "backfill"
              /\ Becomes(s)
  BY <1>3, <1>10 DEF CommitEdit, CommitDeploy, CommitPause, CommitRebaseline
<1>11. ASSUME NEW p \in Proposals, NEW rows \in SUBSET Fields, NEW to \in Changes,
              Edit(s, p, rows, to)
       PROVE  /\ UNCHANGED rowVars /\ clashed \subseteq clashed' /\ session[s].op # "backfill"
              /\ Becomes(s)
  BY <1>2, <1>11 DEF Edit
<1>12. \/ \E p \in Proposals, answer \in Answers : Propose(s, p, answer)
       \/ \E p \in Proposals, answer \in Answers, unmet \in BOOLEAN :
             BulkPropose(s, p, answer, unmet)
       \/ \E p \in Proposals : ApproveMapping(s, p) \/ Deploy(s, p)
       \/ BulkStart(s) \/ Monitor(s) \/ Rebaseline(s) \/ BulkDeploy(s)
       \/ CommitEdit(s) \/ CommitDeploy(s) \/ CommitPause(s) \/ CommitRebaseline(s)
       \/ \E p \in Proposals, rows \in SUBSET Fields, to \in Changes : Edit(s, p, rows, to)
  BY ReviewEdits DEF Work
<1> HIDE DEF Becomes, TypeOK
<1>13. /\ UNCHANGED rowVars /\ clashed \subseteq clashed'
       /\ \/ UNCHANGED session
          \/ session[s].op # "backfill" /\ Becomes(s)
  BY <1>3, <1>4, <1>5, <1>6, <1>7, <1>8, <1>9, <1>10, <1>11, <1>12
<1>14. QED
  BY <1>1, <1>13 DEF rowVars

\* Where events, backfills and row are left alone, what is said of them stays.
LEMMA EventsStay ==
    ASSUME EventsInv, UNCHANGED rowVars, clashed \subseteq clashed',
           \A x \in Sessions : session[x].op = "backfill" \/ session'[x].op = "backfill" =>
              session'[x] = session[x]
    PROVE  EventsInv'
<1> USE DEF rowVars
<1>1. Placed(outbox, session')
  BY DEF EventsInv, Placed
<1>2. \A i \in DOMAIN outbox : outbox[i].of \in Sessions =>
         session'[outbox[i].of] = session[outbox[i].of]
  BY DEF EventsInv, Placed
<1>3. Dated(outbox, session', version)
  BY <1>2 DEF EventsInv, Dated
<1>4. QED
  BY <1>1, <1>3 DEF EventsInv

LEMMA EventsStep == TypeOK /\ EventsInv /\ [Next]_vars => EventsInv'
<1> SUFFICES ASSUME TypeOK, EventsInv, [Next]_vars PROVE EventsInv'
  OBVIOUS
<1>1. ASSUME NEW s \in Sessions, Work(s) \/ \E p \in Proposals : Review(s, p) PROVE EventsInv'
  BY <1>1, EventsLeft, EventsStay
<1>2. ASSUME NEW s \in Sessions,
             Backfill(s) \/ EnqueueRow(s) \/ SkipRow(s) \/ CommitBackfill(s)
      PROVE  EventsInv'
  BY <1>2, BackfillBegins, RowQueued, RowSkipped, BackfillOver
<1>3. ASSUME NEW c \in Writers, BeginChange(c) \/ ChangeRow(c) \/ EndChange(c) PROVE EventsInv'
  BY <1>3, ChangeBegins, RowChanges, ChangeOver
<1>4. ASSUME NEW side \in {"source", "target"}, ChangeSchema(side) PROVE EventsInv'
  BY <1>4, EventsStay DEF ChangeSchema
<1>5. CASE UNCHANGED vars
  BY <1>5, EventsStay DEF vars
<1>6. QED
  BY <1>1, <1>2, <1>3, <1>4, <1>5 DEF Next, Work

LEMMA EventsInit == Init => TypeOK /\ EventsInv
<1> SUFFICES ASSUME Init PROVE TypeOK /\ EventsInv
  OBVIOUS
<1>1. TypeOK
  <2>1. 1 \in Versions /\ 0 \in Fingerprint /\ 1 \in 1..MaxVersion /\ 0 \in 0..MaxWork
    BY OnboardingAssumption DEF Versions, Fingerprint
  <2>2. QED
    <3>1. baseline \in [source : Fingerprint, target : Fingerprint] /\ live \in Schemas
      BY <2>1 DEF Init, Schemas
    <3>2. session \in [Sessions -> Transaction] /\ outbox \in Seq(Event)
      <4>1. Idle \in Transaction
        BY Transactions
      <4>2. <<>> \in Seq(Event)
        OBVIOUS
      <4>3. QED
        BY <4>1, <4>2 DEF Init
    <3>3. /\ proposal \in [Proposals -> {"absent", "needs_review"} \cup Approved]
          /\ field \in [Proposals -> [Fields -> {"absent", "rejected"} \cup Pending \cup Decided]]
      BY DEF Init
    <3>4. QED
      BY <2>1, <3>1, <3>2, <3>3 DEF Init, TypeOK
<1>2. DOMAIN outbox = {} /\ \A s \in Sessions : session[s].op # "backfill"
  BY DEF Init, Idle
<1>3. QED
  BY <1>1, <1>2 DEF EventsInv, Placed, Dated, Sequenced, Newest

-----------------------------------------------------------------------------
(* The reviews *)

\* A new proposal that needs no review has no row to review.
LEMMA FreshIsReviewed ==
    ASSUME NEW answer \in Answers, FreshStatus(answer) \in Approved, NEW f \in Fields
    PROVE  RowOf(answer[f]) \notin Pending
<1>1. NeedsReview(answer) = {}
  BY DEF FreshStatus, Approved
<1>2. answer[f] \in Grades /\ answer[f] # "unsure"
  BY <1>1, AnswersType DEF NeedsReview
<1>3. QED
  BY <1>2 DEF RowOf, Grades, Pending

\* An edit that leaves nothing to review reopens nothing.
LEMMA ChangedIsReviewed ==
    ASSUME NEW row, NEW to \in Changes, to # "reopen" PROVE Changed(row, to) \notin Pending
BY DEF Changed, Changes, Pending

\* An edit or a deployment that begins where no clash is recorded is alone.
LEMMA AloneWithReviews ==
    ASSUME NEW s \in Sessions, NEW op, Begin(s, op), "review" \notin clashed'
    PROVE  /\ "review" \notin clashed
           /\ op = "edit" =>
                 \A x \in Sessions : x # s => session[x].op \notin {"edit", "deploy", "bulk deploy"}
           /\ op = "deploy" => \A x \in Sessions : x # s => session[x].op # "edit"
<1>1. "review" \in DOMAIN Clashes
      /\ Clashes["review"] = {{"edit"}, {"edit", "deploy"}, {"edit", "bulk deploy"}}
  BY DEF Clashes
<1>2. \A other \in Beside(s) : {op, other} \notin Clashes["review"]
  BY <1>1 DEF Begin
<1>3. \A x \in Sessions : x # s => session[x].op \in Beside(s)
  BY DEF Beside
<1>4. /\ {"edit", "edit"} = {"edit"} /\ {"deploy", "edit"} = {"edit", "deploy"}
  OBVIOUS
<1>5. QED
  BY <1>1, <1>2, <1>3, <1>4 DEF Begin

\* Session s goes on with r, and no other does.
Goes(s, r) == session' = [session EXCEPT ![s] = r]

\* Where proposals and rows stay as they are, the session that goes on has to be
\* looked at.
LEMMA ReviewsStay ==
    ASSUME TypeOK, ReviewsInv, NEW s \in Sessions, NEW r, Goes(s, r),
           UNCHANGED <<proposal, field>>, clashed \subseteq clashed',
           \A p \in Proposals : Edits(r, p) \/ Deploys(r, p) => proposal[p] # "absent",
           "review" \notin clashed' =>
              /\ Counts(r, field)
              /\ \A p \in Proposals, x \in Sessions : x # s =>
                    /\ ~(Edits(r, p) /\ (Edits(session[x], p) \/ Deploys(session[x], p)))
                    /\ ~(Deploys(r, p) /\ Edits(session[x], p))
              /\ \A p \in Proposals : ~(Edits(r, p) /\ Deploys(r, p))
    PROVE  ReviewsInv'
<1>1. session'[s] = r /\ \A x \in Sessions : x # s => session'[x] = session[x]
  BY DEF Goes, TypeOK
<1>2. ASSUME "review" \notin clashed' PROVE Apart(session')
  BY <1>1, <1>2 DEF ReviewsInv, Apart
<1>3. ASSUME "review" \notin clashed' PROVE \A x \in Sessions : Counts(session'[x], field)
  BY <1>1, <1>3 DEF ReviewsInv
<1>4. \A x \in Sessions, p \in Proposals :
         Edits(session'[x], p) \/ Deploys(session'[x], p) => proposal[p] # "absent"
  BY <1>1 DEF ReviewsInv
<1>5. QED
  BY <1>2, <1>3, <1>4 DEF ReviewsInv

\* It need not, when it neither edits nor deploys.
LEMMA ReviewsLeft ==
    ASSUME TypeOK, ReviewsInv, NEW s \in Sessions, NEW r, Goes(s, r),
           UNCHANGED <<proposal, field>>, clashed \subseteq clashed',
           r.op \notin {"edit", "deploy", "bulk deploy"}
    PROVE  ReviewsInv'
<1>1. \A p \in Proposals : ~Edits(r, p) /\ ~Deploys(r, p)
  BY DEF Edits, Deploys
<1>2. Counts(r, field)
  BY DEF Counts
<1>3. QED
  BY <1>1, <1>2, ReviewsStay

\* An edit begins.
LEMMA EditBegins ==
    ASSUME TypeOK, ReviewsInv, NEW s \in Sessions, NEW p \in Proposals,
           NEW rows \in SUBSET Fields, NEW to \in Changes, Edit(s, p, rows, to)
    PROVE  ReviewsInv'
<1> DEFINE r == [op |-> "edit", p |-> p, rows |-> rows, to |-> to,
                 status |-> StatusAfter(p, rows, to)]
<1>1. Goes(s, r) /\ UNCHANGED <<proposal, field>> /\ clashed \subseteq clashed'
  BY DEF Goes, Edit, entityVars, Begin
<1>2. /\ \A q \in Proposals : (Edits(r, q) => q = p) /\ ~Deploys(r, q)
      /\ proposal[p] # "absent"
  BY DEF Edits, Deploys, Edit
<1>3. Counts(r, field)
  BY DEF Counts, StatusAfter
<1>4. "review" \notin clashed' => \A q \in Proposals, x \in Sessions : x # s =>
         ~Edits(session[x], q) /\ ~Deploys(session[x], q)
  BY AloneWithReviews DEF Edit, Edits, Deploys
<1> HIDE DEF r
<1>5. QED
  BY <1>1, <1>2, <1>3, <1>4, ReviewsStay

\* A deployment begins: what it found approved has been reviewed.
LEMMA DeployBegins ==
    ASSUME TypeOK, ReviewsInv, NEW s \in Sessions, NEW p \in Proposals,
           Deploy(s, p) \/ (BulkDeploy(s) /\ p = session[s].p /\ Deployable(p))
    PROVE  ReviewsInv'
<1> DEFINE r == [op |-> "deploy", p |-> p]
<1>1. /\ Goes(s, r) /\ UNCHANGED <<proposal, field>> /\ clashed \subseteq clashed'
      /\ Deployable(p)
  BY DEF Goes, Deploy, BulkDeploy, entityVars, Begin
<1>2. /\ \A q \in Proposals : (Deploys(r, q) => q = p) /\ ~Edits(r, q)
      /\ proposal[p] \in Approved /\ proposal[p] # "absent"
  BY <1>1 DEF Edits, Deploys, Deployable, Approved
<1>3. ASSUME "review" \notin clashed' PROVE "review" \notin clashed
  BY <1>1, <1>3
<1>4. ASSUME "review" \notin clashed' PROVE Counts(r, field)
  BY <1>2, <1>3, <1>4 DEF Counts, ReviewsInv, Reviewed
<1>5. ASSUME "review" \notin clashed', NEW x \in Sessions, x # s PROVE ~Edits(session[x], p)
  <2>1. CASE Deploy(s, p)
    BY <1>5, <2>1, AloneWithReviews DEF Deploy, Edits
  <2>2. CASE BulkDeploy(s) /\ p = session[s].p
    <3>1. Deploys(session[s], p)
      BY <2>2 DEF BulkDeploy, Deploys
    <3>2. QED
      BY <1>3, <1>5, <3>1 DEF ReviewsInv, Apart
  <2>3. QED
    BY <2>1, <2>2
<1> HIDE DEF r
<1>6. QED
  BY <1>1, <1>2, <1>4, <1>5, ReviewsStay

\* A new proposal counts as approved only if it has nothing to review, and nobody
\* was at work on it.
LEMMA ProposalMade ==
    ASSUME TypeOK, ReviewsInv, NEW p \in Proposals, NEW answer \in Answers,
           NewProposal(p, answer), clashed \subseteq clashed',
           NEW s \in Sessions, NEW r, session' = session \/ Goes(s, r),
           \A q \in Proposals : Deploys(r, q) => q = p, r.op \notin {"edit", "deploy"}
    PROVE  ReviewsInv'
<1>1. /\ proposal[p] = "absent"
      /\ proposal' = [proposal EXCEPT ![p] = FreshStatus(answer)]
      /\ field' = [field EXCEPT ![p] = [f \in Fields |-> RowOf(answer[f])]]
  BY DEF NewProposal
<1>2. /\ proposal'[p] = FreshStatus(answer) /\ proposal'[p] # "absent"
      /\ \A f \in Fields : field'[p][f] = RowOf(answer[f])
      /\ \A q \in Proposals : q # p => proposal'[q] = proposal[q] /\ field'[q] = field[q]
  BY <1>1 DEF TypeOK, FreshStatus
<1>3. \A x \in Sessions : ~Edits(session[x], p) /\ ~Deploys(session[x], p)
  BY <1>1 DEF ReviewsInv
<1>4. \A q \in Proposals : ~Edits(r, q)
  BY DEF Edits
<1>5. \A x \in Sessions : session'[x] = session[x] \/ (x = s /\ session'[x] = r)
  <2>1. ASSUME Goes(s, r)
        PROVE  session'[s] = r /\ \A x \in Sessions : x # s => session'[x] = session[x]
    <3>1. session \in [Sessions -> Transaction]
      BY DEF TypeOK
    <3>2. QED
      BY <2>1, <3>1, Zenon DEF Goes
  <2>2. QED
    BY <2>1
<1>6. \A x \in Sessions, q \in Proposals :
         Edits(session'[x], q) \/ Deploys(session'[x], q) => proposal'[q] # "absent"
  BY <1>2, <1>5, <1>4 DEF ReviewsInv
<1>7. ASSUME "review" \notin clashed' PROVE Apart(session')
  <2>1. Apart(session)
    BY <1>7 DEF ReviewsInv
  <2>2. \A x \in Sessions, q \in Proposals : Edits(session'[x], q) =>
           Edits(session[x], q) /\ q # p
    BY <1>3, <1>5, <1>4
  <2>3. \A x \in Sessions, q \in Proposals : Deploys(session'[x], q) =>
           Deploys(session[x], q) \/ q = p
    BY <1>5
  <2>4. QED
    BY <2>1, <2>2, <2>3 DEF Apart
<1>8. ASSUME "review" \notin clashed', NEW x \in Sessions PROVE Counts(session'[x], field')
  <2>1. CASE session'[x] = session[x]
    <3>1. Counts(session[x], field)
      BY <1>8 DEF ReviewsInv
    <3>2. session[x].op \in {"edit", "deploy"} => session[x].p \in Proposals
      BY Carries DEF TypeOK
    <3>3. session[x].op \in {"edit", "deploy"} => session[x].p # p
      BY <1>3 DEF Edits, Deploys
    <3>4. QED
      BY <1>2, <2>1, <3>1, <3>2, <3>3 DEF Counts
  <2>2. CASE session'[x] = r
    BY <2>2 DEF Counts
  <2>3. QED
    BY <1>5, <2>1, <2>2
<1>9. ASSUME "review" \notin clashed' PROVE Reviewed(proposal', field')
  <2>1. Reviewed(proposal, field)
    BY <1>9 DEF ReviewsInv
  <2>2. QED
    BY <1>2, <2>1, FreshIsReviewed DEF Reviewed
<1>10. QED
  BY <1>6, <1>7, <1>8, <1>9 DEF ReviewsInv


\* An edit is committed: what it has counted is what it leaves.
LEMMA EditCommits ==
    ASSUME TypeOK, ReviewsInv, NEW s \in Sessions, CommitEdit(s) PROVE ReviewsInv'
<1> DEFINE tx == session[s]
           p  == tx.p
<1>1. /\ tx.op = "edit" /\ p \in Proposals /\ tx.to \in Changes
      /\ tx.status \in {"approved", "needs_review"}
  <2>1. tx \in Transaction /\ tx.op = "edit"
    BY DEF TypeOK, CommitEdit
  <2>2. QED
    BY <2>1, Carries
<1>2. /\ proposal'[p] = tx.status
      /\ \A f \in Fields : field'[p][f] = IF f \in tx.rows THEN Changed(field[p][f], tx.to)
                                          ELSE field[p][f]
      /\ \A q \in Proposals : q # p => proposal'[q] = proposal[q] /\ field'[q] = field[q]
  BY <1>1 DEF CommitEdit, TypeOK
<1>3. /\ \A x \in Sessions : x # s => session'[x] = session[x]
      /\ session'[s] = Idle /\ clashed' = clashed
  BY DEF CommitEdit, TypeOK
<1>4. Edits(tx, p)
  BY <1>1 DEF Edits
<1>5. /\ \A q \in Proposals : ~Edits(Idle, q) /\ ~Deploys(Idle, q)
      /\ Counts(Idle, field')
  BY DEF Idle, Edits, Deploys, Counts
<1> HIDE DEF tx, p
<1>6. \A x \in Sessions, q \in Proposals :
         Edits(session'[x], q) \/ Deploys(session'[x], q) => proposal'[q] # "absent"
  BY <1>1, <1>2, <1>3, <1>5 DEF ReviewsInv
<1>7. ASSUME "review" \notin clashed PROVE Apart(session')
  BY <1>3, <1>5, <1>7 DEF ReviewsInv, Apart
<1>8. ASSUME "review" \notin clashed, NEW x \in Sessions PROVE Counts(session'[x], field')
  <2>1. CASE x = s
    BY <1>3, <1>5, <2>1
  <2>2. CASE x # s
    <3>1. Counts(session[x], field)
      BY <1>8 DEF ReviewsInv
    <3>2. ~Edits(session[x], p) /\ ~Deploys(session[x], p)
      BY <1>1, <1>4, <1>8, <2>2 DEF ReviewsInv, Apart, tx
    <3>3. session[x].op \in {"edit", "deploy"} => session[x].p \in Proposals \ {p}
      BY <3>2, Carries DEF TypeOK, Edits, Deploys
    <3>4. QED
      BY <1>2, <1>3, <2>2, <3>1, <3>3 DEF Counts
  <2>3. QED
    BY <2>1, <2>2
<1>9. ASSUME "review" \notin clashed PROVE Reviewed(proposal', field')
  <2>1. Reviewed(proposal, field) /\ Counts(tx, field)
    BY <1>9 DEF ReviewsInv, tx
  <2>2. ASSUME tx.status = "approved", NEW f \in Fields PROVE field'[p][f] \notin Pending
    <3>1. tx.to # "reopen" /\ (f \notin tx.rows => field[p][f] \notin Pending)
      BY <1>1, <2>1, <2>2 DEF Counts, p
    <3>2. QED
      BY <1>1, <1>2, <3>1, ChangedIsReviewed
  <2>3. tx.status \in Approved => tx.status = "approved"
    BY <1>1 DEF Approved
  <2>4. QED
    BY <1>2, <2>1, <2>2, <2>3 DEF Reviewed
<1>10. QED
  BY <1>3, <1>6, <1>7, <1>8, <1>9 DEF ReviewsInv

\* A proposal is approved, by a person or by its deployment, and its rows are left
\* alone: they have been reviewed.
LEMMA ApprovedStays ==
    ASSUME TypeOK, ReviewsInv, NEW p \in Proposals,
           proposal' = [proposal EXCEPT ![p] = "approved"], UNCHANGED field,
           clashed \subseteq clashed',
           \A x \in Sessions : session'[x] = session[x] \/ session'[x] = Idle,
           "review" \notin clashed' => \A f \in Fields : field[p][f] \notin Pending
    PROVE  ReviewsInv'
<1>1. /\ proposal'[p] = "approved"
      /\ \A q \in Proposals : q # p => proposal'[q] = proposal[q]
  BY DEF TypeOK
<1>2. /\ \A q \in Proposals : ~Edits(Idle, q) /\ ~Deploys(Idle, q)
      /\ Counts(Idle, field)
  BY DEF Idle, Edits, Deploys, Counts
<1>3. \A x \in Sessions, q \in Proposals :
         Edits(session'[x], q) \/ Deploys(session'[x], q) => proposal'[q] # "absent"
  BY <1>1, <1>2 DEF ReviewsInv
<1>4. ASSUME "review" \notin clashed' PROVE Apart(session')
  BY <1>2, <1>4 DEF ReviewsInv, Apart
<1>5. ASSUME "review" \notin clashed' PROVE \A x \in Sessions : Counts(session'[x], field)
  BY <1>2, <1>5 DEF ReviewsInv
<1>6. ASSUME "review" \notin clashed' PROVE Reviewed(proposal', field)
  BY <1>1, <1>6 DEF ReviewsInv, Reviewed
<1>7. QED
  BY <1>3, <1>4, <1>5, <1>6 DEF ReviewsInv

\* A session that is done leaves proposals and rows alone.
LEMMA IdleLeaves ==
    ASSUME TypeOK, ReviewsInv, NEW s \in Sessions, Goes(s, Idle),
           UNCHANGED <<proposal, field, clashed>>
    PROVE  ReviewsInv'
<1>1. Idle.op \notin {"edit", "deploy", "bulk deploy"}
  BY DEF Idle
<1>2. QED
  BY <1>1, ReviewsLeft

LEMMA ReviewsStep == TypeOK /\ ReviewsInv /\ [Next]_vars => ReviewsInv'
<1> SUFFICES ASSUME TypeOK, ReviewsInv, [Next]_vars PROVE ReviewsInv'
  OBVIOUS
<1>1. ASSUME NEW s \in Sessions, Work(s) PROVE ReviewsInv'
  <2>1. ASSUME NEW p \in Proposals, NEW answer \in Answers, Propose(s, p, answer)
        PROVE  ReviewsInv'
    <3>1. /\ NewProposal(p, answer) /\ clashed \subseteq clashed' /\ session' = session
      BY <2>1 DEF Propose, Begin
    <3>2. (\A q \in Proposals : Deploys(Idle, q) => q = p) /\ Idle.op \notin {"edit", "deploy"}
      BY DEF Idle, Deploys
    <3>3. QED
      BY <3>1, <3>2, ProposalMade
  <2>2. ASSUME NEW p \in Proposals, NEW answer \in Answers, NEW unmet \in BOOLEAN,
               BulkPropose(s, p, answer, unmet)
        PROVE  ReviewsInv'
    <3> DEFINE r == IF FreshStatus(answer) = "auto_approved" /\ ~unmet
                    THEN [op |-> "bulk deploy", p |-> p] ELSE Idle
    <3>1. /\ NewProposal(p, answer) /\ clashed \subseteq clashed' /\ Goes(s, r)
      BY <2>2 DEF BulkPropose, Goes
    <3>2. (\A q \in Proposals : Deploys(r, q) => q = p) /\ r.op \notin {"edit", "deploy"}
      BY DEF Idle, Deploys
    <3> HIDE DEF r
    <3>3. QED
      BY <3>1, <3>2, ProposalMade
  <2>3. ASSUME NEW p \in Proposals, ApproveMapping(s, p) PROVE ReviewsInv'
    BY <2>3, ApprovedStays DEF ApproveMapping, Begin
  <2>4. ASSUME NEW p \in Proposals, Deploy(s, p) PROVE ReviewsInv'
    BY <2>4, DeployBegins
  <2>5. CASE BulkStart(s) \/ Monitor(s) \/ Rebaseline(s)
    <3>1. ASSUME NEW r, Goes(s, r), r.op \notin {"edit", "deploy", "bulk deploy"},
                 UNCHANGED <<proposal, field>>, clashed \subseteq clashed'
          PROVE  ReviewsInv'
      BY <3>1, ReviewsLeft
    <3>2. CASE BulkStart(s)
      <4>1. Goes(s, [op |-> "bulk"])
        BY <3>2 DEF BulkStart, Goes
      <4>2. UNCHANGED <<proposal, field>> /\ clashed \subseteq clashed'
        BY <3>2 DEF BulkStart, Begin, entityVars
      <4>3. QED
        BY <3>1, <4>1, <4>2
    <3>3. CASE Monitor(s)
      <4>1. Goes(s, [op |-> "pause"])
        BY <3>3 DEF Monitor, Goes
      <4>2. UNCHANGED <<proposal, field>> /\ clashed \subseteq clashed'
        BY <3>3 DEF Monitor, Begin, entityVars
      <4>3. QED
        BY <3>1, <4>1, <4>2
    <3>4. CASE Rebaseline(s)
      <4>1. Goes(s, [op |-> "rebaseline", seen |-> live])
        BY <3>4 DEF Rebaseline, Goes
      <4>2. UNCHANGED <<proposal, field>> /\ clashed \subseteq clashed'
        BY <3>4 DEF Rebaseline, Begin, entityVars
      <4>3. QED
        BY <3>1, <4>1, <4>2
    <3>5. QED
      BY <2>5, <3>2, <3>3, <3>4
  <2>6. CASE BulkDeploy(s)
    <3>1. CASE Deployable(session[s].p)
      <4>1. session[s].p \in Proposals
        BY <2>6, Carries DEF BulkDeploy, TypeOK
      <4>2. QED
        BY <2>6, <3>1, <4>1, DeployBegins
    <3>2. CASE ~Deployable(session[s].p)
      <4>1. Goes(s, Idle) /\ UNCHANGED <<proposal, field, clashed>>
        BY <2>6, <3>2 DEF BulkDeploy, Goes, entityVars
      <4>2. QED
        BY <4>1, IdleLeaves
    <3>3. QED
      BY <3>1, <3>2
  <2>7. CASE CommitEdit(s)
    BY <2>7, EditCommits
  <2>8. CASE CommitDeploy(s)
    <3>1. /\ session[s].op = "deploy" /\ session[s].p \in Proposals
          /\ proposal' = [proposal EXCEPT ![session[s].p] = "approved"]
          /\ UNCHANGED <<field, clashed>>
          /\ \A x \in Sessions : session'[x] = session[x] \/ session'[x] = Idle
      BY <2>8, Carries DEF CommitDeploy, TypeOK
    <3>2. "review" \notin clashed' => \A f \in Fields : field[session[s].p][f] \notin Pending
      BY <3>1 DEF ReviewsInv, Counts
    <3>3. QED
      BY <3>1, <3>2, ApprovedStays
  <2>9. CASE CommitPause(s) \/ CommitRebaseline(s)
    <3>1. Goes(s, Idle) /\ UNCHANGED <<proposal, field, clashed>>
      BY <2>9 DEF CommitPause, CommitRebaseline, Goes
    <3>2. QED
      BY <3>1, IdleLeaves
  <2>10. QED
    BY <1>1, <2>1, <2>2, <2>3, <2>4, <2>5, <2>6, <2>7, <2>8, <2>9 DEF Work
<1>2. ASSUME NEW s \in Sessions, NEW p \in Proposals, Review(s, p) PROVE ReviewsInv'
  BY <1>2, ReviewEdits, EditBegins
<1>3. ASSUME NEW s \in Sessions,
             Backfill(s) \/ EnqueueRow(s) \/ SkipRow(s) \/ CommitBackfill(s)
      PROVE  ReviewsInv'
  <2>1. CASE Backfill(s)
    <3> DEFINE r == [op |-> "backfill", seen |-> version]
    <3>1. /\ Goes(s, r) /\ UNCHANGED <<proposal, field>> /\ clashed \subseteq clashed'
          /\ r.op \notin {"edit", "deploy", "bulk deploy"}
      BY <2>1 DEF Backfill, Goes, Begin, entityVars
    <3> HIDE DEF r
    <3>2. QED
      BY <3>1, ReviewsLeft
  <2>2. CASE EnqueueRow(s)
    BY <2>2 DEF EnqueueRow, entityVars, ReviewsInv
  <2>3. CASE SkipRow(s) \/ CommitBackfill(s)
    <3>1. Goes(s, Idle) /\ UNCHANGED <<proposal, field, clashed>>
      BY <2>3 DEF SkipRow, CommitBackfill, Goes, entityVars
    <3>2. QED
      BY <3>1, IdleLeaves
  <2>4. QED
    BY <1>3, <2>1, <2>2, <2>3
<1>4. ASSUME NEW c \in Writers, BeginChange(c) \/ ChangeRow(c) \/ EndChange(c)
      PROVE  ReviewsInv'
  <2>1. UNCHANGED <<entityVars, session>> /\ clashed \subseteq clashed'
    BY <1>4 DEF BeginChange, ChangeRow, EndChange
  <2>2. QED
    BY <2>1 DEF entityVars, ReviewsInv
<1>5. ASSUME NEW side \in {"source", "target"}, ChangeSchema(side) PROVE ReviewsInv'
  BY <1>5 DEF ChangeSchema, ReviewsInv
<1>6. CASE UNCHANGED vars
  BY <1>6 DEF vars, entityVars, ReviewsInv
<1>7. QED
  BY <1>1, <1>2, <1>3, <1>4, <1>5, <1>6 DEF Next, Work

\* Nothing is proposed and nobody at work.
LEMMA ReviewsInit == Init => ReviewsInv
<1> SUFFICES ASSUME Init PROVE ReviewsInv
  OBVIOUS
<1>1. \A s \in Sessions : session[s] = Idle
  BY DEF Init
<1>2. /\ \A p \in Proposals : ~Edits(Idle, p) /\ ~Deploys(Idle, p)
      /\ Counts(Idle, field)
  BY DEF Idle, Edits, Deploys, Counts
<1>3. Reviewed(proposal, field)
  BY DEF Init, Reviewed, Approved
<1>4. Apart(session)
  BY <1>1, <1>2 DEF Apart
<1>5. QED
  BY <1>1, <1>2, <1>3, <1>4 DEF ReviewsInv

-----------------------------------------------------------------------------
(* Drift *)

\* A pause, or what may settle its verdict, that begins where no clash is recorded
\* is alone.
LEMMA AloneWithDrift ==
    ASSUME NEW s \in Sessions, NEW op, Begin(s, op), "drift" \notin clashed',
           NEW x \in Sessions, x # s
    PROVE  /\ op = "pause" => session[x].op \notin Settling
           /\ op \in {"deploy", "bulk", "rebaseline"} => session[x].op # "pause"
<1>1. "drift" \in DOMAIN Clashes
      /\ Clashes["drift"] = {{"pause", "deploy"}, {"pause", "bulk"}, {"pause", "bulk deploy"},
                             {"pause", "rebaseline"}}
  BY DEF Clashes
<1>2. {op, session[x].op} \notin Clashes["drift"]
  <2>1. session[x].op \in Beside(s)
    BY DEF Beside
  <2>2. QED
    BY <1>1, <2>1 DEF Begin
<1>3. op = "pause" => session[x].op \notin Settling
  BY <1>1, <1>2 DEF Settling
<1>4. \A o \in {"deploy", "bulk", "rebaseline"} : {o, "pause"} = {"pause", o}
  OBVIOUS
<1>5. op \in {"deploy", "bulk", "rebaseline"} => session[x].op # "pause"
  BY <1>1, <1>2, <1>4
<1>6. QED
  BY <1>3, <1>5

\* A second proposal is not the first.
LEMMA ProposedTwice ==
    ASSUME TypeOK, DriftInv, Begun(proposal), NEW p \in Proposals, NEW answer \in Answers,
           NewProposal(p, answer)
    PROVE  ~ProposedOnce'
<1>1. 1 \in Proposals /\ proposal[1] # "absent" /\ p \in Nat /\ p >= 1
  BY OnboardingAssumption DEF DriftInv, Begun, Proposals
<1>2. p > 1
  BY <1>1 DEF NewProposal
<1>3. proposal'[p] # "absent"
  BY DEF NewProposal, TypeOK, FreshStatus
<1>4. QED
  BY <1>2, <1>3 DEF ProposedOnce

\* Versions of schemas and proposals are numbers.
LEMMA VersionsAreNumbers ==
    /\ TypeOK => live.source \in Nat /\ live.target \in Nat
    /\ \A p \in Proposals : p \in Nat /\ p >= 1 /\ 1 \in Proposals
<1>1. TypeOK => live.source \in Nat /\ live.target \in Nat
  BY OnboardingAssumption DEF TypeOK, Schemas
<1>2. \A p \in Proposals : p \in Nat /\ p >= 1 /\ 1 \in Proposals
  BY OnboardingAssumption DEF Proposals
<1>3. QED
  BY <1>1, <1>2

\* Session x is not touched, or has proposed in bulk.
GoesOn(x) ==
    \/ session'[x] = session[x]
    \/ session[x].op = "bulk" /\ session'[x].op \in {"bulk deploy", "none"}

\* A proposal stores the fingerprints: the first one finds nothing deployed and no
\* pause, a later one is one too many.
LEMMA ProposalStores ==
    ASSUME TypeOK, DriftInv, NEW p \in Proposals, NEW answer \in Answers, NewProposal(p, answer),
           clashed \subseteq clashed',
           \A x \in Sessions : GoesOn(x)
    PROVE  DriftInv'
<1>1. /\ proposal'[p] # "absent" /\ \A q \in Proposals : q # p => proposal'[q] = proposal[q]
      /\ baseline'.source = live.source /\ baseline'.target = WholeContract
      /\ UNCHANGED <<entity, live>>
  BY DEF NewProposal, TypeOK, FreshStatus
<1>2. \A q \in Proposals : proposal'[q] # "absent" => proposal'[1] # "absent"
  <2>1. p \in Nat /\ p >= 1 /\ 1 \in Proposals
    BY VersionsAreNumbers
  <2>2. p # 1 => proposal[1] # "absent"
    BY <2>1 DEF NewProposal
  <2>3. QED
    BY <1>1, <2>1, <2>2
<1>3. Begun(proposal')
  BY <1>1 DEF Begun
<1>4. Behind(baseline', live, session')
  <2>1. live.source \in Nat
    BY VersionsAreNumbers
  <2>2. baseline'.source =< live.source
    BY <1>1, <2>1
  <2>3. \A x \in Sessions : session'[x].op = "rebaseline" => session'[x] = session[x]
    BY DEF GoesOn
  <2>4. \A x \in Sessions : session'[x].op = "rebaseline" =>
           session'[x].seen.source =< live.source /\ session'[x].seen.target =< live.target
    BY <2>3 DEF Behind, DriftInv
  <2>5. QED
    BY <1>1, <2>2, <2>4 DEF Behind
<1>5. "drift" \notin clashed' => Unsettled(session')
  BY DEF DriftInv, Unsettled, Settling, GoesOn
<1>6. ASSUME ProposedOnce' PROVE entity # "deployed" /\ \A s \in Sessions : session'[s].op # "pause"
  <2>1. ~Begun(proposal)
    BY <1>6, ProposedTwice
  <2>2. QED
    BY <2>1 DEF DriftInv, GoesOn
<1>7. QED
  BY <1>1, <1>2, <1>3, <1>4, <1>5, <1>6 DEF DriftInv

\* Where fingerprints and schemas stay as they are, the session that goes on has to
\* be looked at, and what becomes of the entity.
LEMMA DriftStays ==
    ASSUME TypeOK, DriftInv, NEW s \in Sessions, NEW r, Goes(s, r),
           UNCHANGED <<baseline, live>>, clashed \subseteq clashed',
           \A p \in Proposals : proposal'[p] # "absent" <=> proposal[p] # "absent",
           entity' = entity \/ (entity' # "deployed" /\ Begun(proposal)),
           r.op \in {"pause", "rebaseline"} => Begun(proposal),
           r.op = "rebaseline" => r.seen = live,
           "drift" \notin clashed' => \A x \in Sessions : x # s =>
              /\ r.op = "pause" => session[x].op \notin Settling
              /\ r.op \in Settling => session[x].op # "pause",
           ProposedOnce /\ r.op = "pause" => Verdict(baseline, live)
    PROVE  DriftInv'
<1>1. session'[s] = r /\ \A x \in Sessions : x # s => session'[x] = session[x]
  BY DEF Goes, TypeOK
<1>2. Begun(proposal) <=> Begun(proposal')
  BY DEF Begun
<1>3. ProposedOnce' => ProposedOnce
  BY DEF ProposedOnce
<1>4. live.source \in Nat /\ live.target \in Nat
  BY OnboardingAssumption DEF TypeOK, Schemas
<1>5. Behind(baseline, live, session')
  BY <1>1, <1>4 DEF DriftInv, Behind
<1>6. ASSUME "drift" \notin clashed' PROVE Unsettled(session')
  <2>1. r.op = "pause" => r.op \notin Settling
    BY DEF Settling
  <2>2. Unsettled(session)
    BY <1>6 DEF DriftInv
  <2>3. QED
    BY <1>1, <1>6, <2>1, <2>2 DEF Unsettled
<1>7. \A p \in Proposals : proposal'[p] # "absent" => proposal'[1] # "absent"
  <2>1. \A p \in Proposals : 1 \in Proposals
    BY OnboardingAssumption DEF Proposals
  <2>2. QED
    BY <2>1 DEF DriftInv
<1>8. entity' # "discovered" => Begun(proposal')
  BY <1>2 DEF DriftInv
<1>9. \A x \in Sessions : session'[x].op \in {"pause", "rebaseline"} => Begun(proposal')
  BY <1>1, <1>2 DEF DriftInv
<1>10. ProposedOnce' /\ entity' = "deployed" => baseline.target # WholeContract
  BY <1>3 DEF DriftInv
<1>11. ProposedOnce' /\ "drift" \notin clashed' =>
          \A x \in Sessions : session'[x].op = "pause" => Verdict(baseline, live)
  BY <1>1, <1>3 DEF DriftInv
<1>12. QED
  BY <1>5, <1>6, <1>7, <1>8, <1>9, <1>10, <1>11 DEF DriftInv

\* A deployment or a re-baseline stores what it has read, and no pause is waiting.
LEMMA FingerprintsStored ==
    ASSUME TypeOK, DriftInv, NEW s \in Sessions, Goes(s, Idle), session[s].op \in Settling,
           UNCHANGED <<live, clashed>>, entity' = "deployed", Begun(proposal),
           \A p \in Proposals : proposal'[p] # "absent" <=> proposal[p] # "absent",
           baseline'.source =< live.source, baseline'.target =< live.target
    PROVE  DriftInv'
<1>1. session'[s] = Idle /\ \A x \in Sessions : x # s => session'[x] = session[x]
  BY DEF Goes, TypeOK
<1>2. Begun(proposal')
  BY DEF Begun
<1>3. live.target \in 1..MaxVersion
  BY DEF TypeOK, Schemas
<1>4. Behind(baseline', live, session')
  BY <1>1 DEF DriftInv, Behind, Idle
<1>5. "drift" \notin clashed =>
         Unsettled(session') /\ \A x \in Sessions : session'[x].op # "pause"
  BY <1>1 DEF DriftInv, Unsettled, Idle
<1>6. \A p \in Proposals : proposal'[p] # "absent" => proposal'[1] # "absent"
  <2>1. \A p \in Proposals : 1 \in Proposals
    BY OnboardingAssumption DEF Proposals
  <2>2. QED
    BY <2>1 DEF DriftInv
<1>7. baseline'.target # WholeContract
  BY <1>3, OnboardingAssumption DEF WholeContract
<1>8. QED
  BY <1>2, <1>4, <1>5, <1>6, <1>7 DEF DriftInv

\* A session that neither pauses nor settles need not be looked at.
LEMMA DriftLeft ==
    ASSUME TypeOK, DriftInv, NEW s \in Sessions, NEW r, Goes(s, r),
           UNCHANGED <<baseline, live>>, clashed \subseteq clashed',
           \A p \in Proposals : proposal'[p] # "absent" <=> proposal[p] # "absent",
           entity' = entity \/ (entity' # "deployed" /\ Begun(proposal)),
           r.op \notin Settling \cup {"pause"}
    PROVE  DriftInv'
<1>1. r.op # "rebaseline" /\ r.op \notin {"pause", "rebaseline"} /\ r.op # "pause"
  BY DEF Settling
<1>2. QED
  BY <1>1, DriftStays

\* A schema changes: what was drifted still is.
LEMMA SchemaChanges ==
    ASSUME TypeOK, DriftInv, NEW side \in {"source", "target"}, ChangeSchema(side)
    PROVE  DriftInv'
<1>1. /\ live.source \in Nat /\ live.target \in Nat
      /\ live'.source \in Nat /\ live'.target \in Nat
      /\ live.source =< live'.source /\ live.target =< live'.target
  <2>1. live.source \in Nat /\ live.target \in Nat
    BY VersionsAreNumbers
  <2>2. live' = [live EXCEPT ![side] = @ + 1] /\ live \in [source : 1..MaxVersion, target : 1..MaxVersion]
    BY DEF ChangeSchema, TypeOK, Schemas
  <2>3. CASE side = "source"
    BY <2>1, <2>2, <2>3
  <2>4. CASE side = "target"
    BY <2>1, <2>2, <2>4
  <2>5. QED
    BY <2>3, <2>4
<1>2. UNCHANGED <<proposal, entity, baseline, session, clashed>>
  BY DEF ChangeSchema
<1>3. baseline.source \in Nat /\ baseline.target \in Nat
  BY OnboardingAssumption DEF TypeOK, Fingerprint
<1>4. \A x \in Sessions : session[x].op = "rebaseline" =>
         session[x].seen.source \in Nat /\ session[x].seen.target \in Nat
  <2>1. \A x \in Sessions : session[x].op = "rebaseline" => session[x].seen \in Schemas
    BY Carries DEF TypeOK
  <2>2. QED
    BY <2>1, OnboardingAssumption DEF Schemas
<1>5. Behind(baseline, live', session)
  BY <1>1, <1>3, <1>4 DEF DriftInv, Behind
<1>6. Verdict(baseline, live) => Verdict(baseline, live')
  BY <1>1, <1>3 DEF DriftInv, Behind, Verdict
<1>7. QED
  BY <1>2, <1>5, <1>6 DEF DriftInv, ProposedOnce, Begun

\* A session that is done neither pauses nor settles.
LEMMA IdleIsQuiet == Idle.op \notin Settling \cup {"pause"}
BY DEF Idle, Settling

\* Steps that change nothing drift is about.
LEMMA NothingDrifts ==
    ASSUME DriftInv, UNCHANGED <<proposal, entity, baseline, live, session>>,
           clashed \subseteq clashed'
    PROVE  DriftInv'
BY DEF DriftInv, ProposedOnce

LEMMA DriftStep == TypeOK /\ ReviewsInv /\ DriftInv /\ [Next]_vars => DriftInv'
<1> SUFFICES ASSUME TypeOK, ReviewsInv, DriftInv, [Next]_vars PROVE DriftInv'
  OBVIOUS
<1>1. ASSUME NEW s \in Sessions, Work(s) PROVE DriftInv'
  <2>1. ASSUME NEW p \in Proposals, NEW answer \in Answers, Propose(s, p, answer)
        PROVE  DriftInv'
    <3>1. NewProposal(p, answer) /\ clashed \subseteq clashed' /\ \A x \in Sessions : GoesOn(x)
      BY <2>1 DEF Propose, Begin, GoesOn
    <3>2. QED
      BY <3>1, ProposalStores
  <2>2. ASSUME NEW p \in Proposals, NEW answer \in Answers, NEW unmet \in BOOLEAN,
               BulkPropose(s, p, answer, unmet)
        PROVE  DriftInv'
    <3>1. NewProposal(p, answer) /\ clashed \subseteq clashed'
      BY <2>2 DEF BulkPropose
    <3>2. \A x \in Sessions : GoesOn(x)
      BY <2>2 DEF BulkPropose, GoesOn, Idle, TypeOK
    <3>3. QED
      BY <3>1, <3>2, ProposalStores
  <2>3. ASSUME NEW p \in Proposals, ApproveMapping(s, p) PROVE DriftInv'
    <3>1. session' = session /\ session[s] = Idle
      BY <2>3 DEF ApproveMapping, Begin
    <3>2. Goes(s, Idle)
      BY <3>1, Zenon DEF Goes, TypeOK
    <3>3. /\ UNCHANGED <<baseline, live>> /\ clashed \subseteq clashed'
          /\ proposal[p] # "absent" /\ proposal' = [proposal EXCEPT ![p] = "approved"]
          /\ entity' = IF entity = "deployed" THEN entity ELSE "reviewed"
      BY <2>3 DEF ApproveMapping, Begin
    <3>4. \A q \in Proposals : proposal'[q] # "absent" <=> proposal[q] # "absent"
      BY <3>3 DEF TypeOK
    <3>5. entity' = entity \/ (entity' # "deployed" /\ Begun(proposal))
      BY <3>3 DEF Begun
    <3>6. QED
      BY <3>2, <3>3, <3>4, <3>5, IdleIsQuiet, DriftLeft
  <2>4. ASSUME NEW p \in Proposals, Deploy(s, p) PROVE DriftInv'
    <3> DEFINE r == [op |-> "deploy", p |-> p]
    <3>1. /\ Goes(s, r) /\ UNCHANGED <<proposal, entity, baseline, live>>
          /\ clashed \subseteq clashed'
      BY <2>4 DEF Deploy, Goes, Begin, entityVars
    <3>2. "drift" \notin clashed' => \A x \in Sessions : x # s => session[x].op # "pause"
      BY <2>4, AloneWithDrift DEF Deploy
    <3>3. r.op \notin {"pause", "rebaseline"} /\ r.op # "pause" /\ r.op # "rebaseline"
      OBVIOUS
    <3> HIDE DEF r
    <3>4. QED
      BY <3>1, <3>2, <3>3, DriftStays
  <2>5. CASE BulkStart(s)
    <3> DEFINE r == [op |-> "bulk"]
    <3>1. /\ Goes(s, r) /\ UNCHANGED <<proposal, entity, baseline, live>>
          /\ clashed \subseteq clashed'
      BY <2>5 DEF BulkStart, Goes, Begin, entityVars
    <3>2. "drift" \notin clashed' => \A x \in Sessions : x # s => session[x].op # "pause"
      BY <2>5, AloneWithDrift DEF BulkStart
    <3>3. r.op \notin {"pause", "rebaseline"} /\ r.op # "pause" /\ r.op # "rebaseline"
      OBVIOUS
    <3> HIDE DEF r
    <3>4. QED
      BY <3>1, <3>2, <3>3, DriftStays
  <2>6. CASE BulkDeploy(s)
    <3> DEFINE r == IF Deployable(session[s].p) THEN [op |-> "deploy", p |-> session[s].p] ELSE Idle
    <3>1. /\ Goes(s, r) /\ UNCHANGED <<proposal, entity, baseline, live, clashed>>
          /\ session[s].op = "bulk deploy"
      BY <2>6 DEF BulkDeploy, Goes, entityVars
    <3>2. "drift" \notin clashed' => \A x \in Sessions : session[x].op # "pause"
      BY <3>1 DEF DriftInv, Unsettled, Settling
    <3>3. r.op \notin {"pause", "rebaseline"} /\ r.op # "pause" /\ r.op # "rebaseline"
      BY DEF Idle
    <3> HIDE DEF r
    <3>4. QED
      BY <3>1, <3>2, <3>3, DriftStays
  <2>7. CASE CommitEdit(s)
    <3>1. /\ session[s].op = "edit" /\ session[s].p \in Proposals
          /\ session[s].status \in {"approved", "needs_review"}
      BY <2>7, Carries DEF CommitEdit, TypeOK
    <3>2. proposal[session[s].p] # "absent"
      BY <3>1 DEF ReviewsInv, Edits
    <3>3. /\ Goes(s, Idle) /\ UNCHANGED <<entity, baseline, live, clashed>>
          /\ proposal' = [proposal EXCEPT ![session[s].p] = session[s].status]
      BY <2>7 DEF CommitEdit, Goes
    <3>4. \A q \in Proposals : proposal'[q] # "absent" <=> proposal[q] # "absent"
      BY <3>1, <3>2, <3>3 DEF TypeOK
    <3>5. QED
      BY <3>3, <3>4, IdleIsQuiet, DriftLeft
  <2>8. CASE CommitDeploy(s)
    <3>1. session[s].op = "deploy" /\ session[s].p \in Proposals
      BY <2>8, Carries DEF CommitDeploy, TypeOK
    <3>2. proposal[session[s].p] # "absent"
      BY <3>1 DEF ReviewsInv, Deploys
    <3>3. /\ Goes(s, Idle) /\ UNCHANGED <<live, clashed>> /\ entity' = "deployed"
          /\ proposal' = [proposal EXCEPT ![session[s].p] = "approved"]
          /\ baseline' = [baseline EXCEPT !.target = live.target]
      BY <2>8 DEF CommitDeploy, Goes
    <3>4. \A q \in Proposals : proposal'[q] # "absent" <=> proposal[q] # "absent"
      BY <3>1, <3>2, <3>3 DEF TypeOK
    <3>5. baseline'.source = baseline.source /\ baseline'.target = live.target
      BY <3>3 DEF TypeOK
    <3>6. baseline'.source =< live.source /\ baseline'.target =< live.target
      BY <3>5, VersionsAreNumbers DEF DriftInv, Behind
    <3>7. Begun(proposal) /\ session[s].op \in Settling
      BY <3>1, <3>2 DEF Begun, Settling
    <3>8. QED
      BY <3>3, <3>4, <3>6, <3>7, FingerprintsStored
  <2>9. CASE Monitor(s)
    <3> DEFINE r == [op |-> "pause"]
    <3>1. /\ Goes(s, r) /\ UNCHANGED <<proposal, entity, baseline, live>>
          /\ clashed \subseteq clashed' /\ entity = "deployed" /\ Drifted
      BY <2>9 DEF Monitor, Goes, Begin, entityVars
    <3>2. "drift" \notin clashed' => \A x \in Sessions : x # s => session[x].op \notin Settling
      BY <2>9, AloneWithDrift DEF Monitor
    <3>3. Begun(proposal)
      BY <3>1 DEF DriftInv
    <3>4. ProposedOnce => Verdict(baseline, live)
      BY <3>1 DEF DriftInv, Drifted, Verdict
    <3>5. r.op = "pause" /\ r.op \notin Settling
      BY DEF Settling
    <3> HIDE DEF r
    <3>6. QED
      BY <3>1, <3>2, <3>3, <3>4, <3>5, DriftStays
  <2>10. CASE CommitPause(s)
    <3>1. /\ Goes(s, Idle) /\ UNCHANGED <<proposal, baseline, live, clashed>>
          /\ session[s].op = "pause" /\ entity' = "paused"
      BY <2>10 DEF CommitPause, Goes
    <3>2. Begun(proposal)
      BY <3>1 DEF DriftInv
    <3>3. QED
      BY <3>1, <3>2, IdleIsQuiet, DriftLeft
  <2>11. CASE Rebaseline(s)
    <3> DEFINE r == [op |-> "rebaseline", seen |-> live]
    <3>1. /\ Goes(s, r) /\ UNCHANGED <<proposal, entity, baseline, live>>
          /\ clashed \subseteq clashed' /\ entity = "paused"
      BY <2>11 DEF Rebaseline, Goes, Begin, entityVars
    <3>2. "drift" \notin clashed' => \A x \in Sessions : x # s => session[x].op # "pause"
      BY <2>11, AloneWithDrift DEF Rebaseline
    <3>3. Begun(proposal)
      BY <3>1 DEF DriftInv
    <3>4. r.op = "rebaseline" /\ r.op # "pause" /\ r.seen = live
      OBVIOUS
    <3> HIDE DEF r
    <3>5. QED
      BY <3>1, <3>2, <3>3, <3>4, DriftStays
  <2>12. CASE CommitRebaseline(s)
    <3>1. /\ session[s].op = "rebaseline" /\ Goes(s, Idle) /\ UNCHANGED <<proposal, live, clashed>>
          /\ entity' = "deployed" /\ baseline' = session[s].seen
      BY <2>12 DEF CommitRebaseline, Goes
    <3>2. baseline'.source =< live.source /\ baseline'.target =< live.target
      BY <3>1 DEF DriftInv, Behind
    <3>3. Begun(proposal) /\ session[s].op \in Settling
      BY <3>1 DEF DriftInv, Settling
    <3>4. QED
      BY <3>1, <3>2, <3>3, FingerprintsStored
  <2>13. QED
    BY <1>1, <2>1, <2>2, <2>3, <2>4, <2>5, <2>6, <2>7, <2>8, <2>9, <2>10, <2>11, <2>12 DEF Work
<1>2. ASSUME NEW s \in Sessions, NEW p \in Proposals, Review(s, p) PROVE DriftInv'
  <2>1. PICK rows \in SUBSET Fields, to \in Changes : Edit(s, p, rows, to)
    BY <1>2, ReviewEdits
  <2> DEFINE r == [op |-> "edit", p |-> p, rows |-> rows, to |-> to,
                   status |-> StatusAfter(p, rows, to)]
  <2>2. /\ Goes(s, r) /\ UNCHANGED <<proposal, entity, baseline, live>>
        /\ clashed \subseteq clashed'
    BY <2>1 DEF Edit, Goes, Begin, entityVars
  <2>3. r.op \notin Settling \cup {"pause"}
    BY DEF Settling
  <2> HIDE DEF r
  <2>4. QED
    BY <2>2, <2>3, DriftLeft
<1>3. ASSUME NEW s \in Sessions,
             Backfill(s) \/ EnqueueRow(s) \/ SkipRow(s) \/ CommitBackfill(s)
      PROVE  DriftInv'
  <2>1. CASE Backfill(s)
    <3> DEFINE r == [op |-> "backfill", seen |-> version]
    <3>1. /\ Goes(s, r) /\ UNCHANGED <<proposal, entity, baseline, live>>
          /\ clashed \subseteq clashed'
      BY <2>1 DEF Backfill, Goes, Begin, entityVars
    <3>2. r.op \notin Settling \cup {"pause"}
      BY DEF Settling
    <3> HIDE DEF r
    <3>3. QED
      BY <3>1, <3>2, DriftLeft
  <2>2. CASE EnqueueRow(s)
    BY <2>2, NothingDrifts DEF EnqueueRow, entityVars
  <2>3. CASE SkipRow(s) \/ CommitBackfill(s)
    <3>1. Goes(s, Idle) /\ UNCHANGED <<proposal, entity, baseline, live, clashed>>
      BY <2>3 DEF SkipRow, CommitBackfill, Goes, entityVars
    <3>2. QED
      BY <3>1, IdleIsQuiet, DriftLeft
  <2>4. QED
    BY <1>3, <2>1, <2>2, <2>3
<1>4. ASSUME NEW c \in Writers, BeginChange(c) \/ ChangeRow(c) \/ EndChange(c) PROVE DriftInv'
  BY <1>4, NothingDrifts DEF BeginChange, ChangeRow, EndChange, entityVars
<1>5. ASSUME NEW side \in {"source", "target"}, ChangeSchema(side) PROVE DriftInv'
  BY <1>5, SchemaChanges
<1>6. CASE UNCHANGED vars
  BY <1>6, NothingDrifts DEF vars, entityVars
<1>7. QED
  BY <1>1, <1>2, <1>3, <1>4, <1>5, <1>6 DEF Next, Work

\* Nothing is proposed, and the entity is only known.
LEMMA DriftInit == Init => DriftInv
<1> SUFFICES ASSUME Init PROVE DriftInv
  OBVIOUS
<1>1. \A s \in Sessions : session[s].op = "none"
  BY DEF Init, Idle
<1>2. Behind(baseline, live, session)
  BY <1>1 DEF Init, Behind
<1>3. Unsettled(session)
  BY <1>1 DEF Unsettled
<1>4. QED
  BY <1>1, <1>2, <1>3 DEF Init, DriftInv

\* Only the monitor pauses an entity.
LEMMA OnlyPausesPause ==
    ASSUME Next, entity = "deployed", entity' = "paused"
    PROVE  \E s \in Sessions : CommitPause(s)
<1>1. ASSUME NEW s \in Sessions, Work(s), ~CommitPause(s) PROVE FALSE
  <2>1. ASSUME NEW p \in Proposals, NEW answer \in Answers, NewProposal(p, answer) PROVE FALSE
    BY <2>1 DEF NewProposal
  <2>2. ASSUME NEW p \in Proposals, ApproveMapping(s, p) \/ Deploy(s, p) PROVE FALSE
    BY <2>2 DEF ApproveMapping, Deploy, entityVars
  <2>3. CASE \/ BulkStart(s) \/ BulkDeploy(s) \/ CommitEdit(s) \/ CommitDeploy(s)
             \/ Monitor(s) \/ Rebaseline(s) \/ CommitRebaseline(s)
    BY <2>3 DEF BulkStart, BulkDeploy, CommitEdit, CommitDeploy, Monitor, Rebaseline,
                CommitRebaseline, entityVars
  <2>4. QED
    BY <1>1, <2>1, <2>2, <2>3 DEF Work, Propose, BulkPropose
<1>2. ASSUME NEW s \in Sessions, NEW p \in Proposals, Review(s, p) PROVE FALSE
  BY <1>2, ReviewEdits DEF Edit, entityVars
<1>3. ASSUME NEW s \in Sessions,
             Backfill(s) \/ EnqueueRow(s) \/ SkipRow(s) \/ CommitBackfill(s)
      PROVE  FALSE
  BY <1>3 DEF Backfill, EnqueueRow, SkipRow, CommitBackfill, entityVars
<1>4. ASSUME NEW c \in Writers, BeginChange(c) \/ ChangeRow(c) \/ EndChange(c) PROVE FALSE
  BY <1>4 DEF BeginChange, ChangeRow, EndChange, entityVars
<1>5. ASSUME NEW side \in {"source", "target"}, ChangeSchema(side) PROVE FALSE
  BY <1>5 DEF ChangeSchema
<1>6. QED
  BY <1>1, <1>2, <1>3, <1>4, <1>5 DEF Next, Work

-----------------------------------------------------------------------------
(* Theorems *)

\* Every variable keeps its type; the place of a transaction is in the order as
\* long as it is open (backfill, the capture trigger).
THEOREM TypeCorrect == Spec => [](TypeOK /\ EventsInv)
<1>1. TypeOK /\ EventsInv /\ [Next]_vars => (TypeOK /\ EventsInv)'
  BY TypeStep, EventsStep
<1>2. QED
  BY <1>1, EventsInit, PTL DEF Spec

\* For any number of sessions, source transactions and changes: where no change is
\* overtaken by one of a later transaction, and no backfill begins beside another or
\* an open change, the events of a row come one for each version, and the last one
\* carries the row as it is.
THEOREM NewestComesLast == Spec => []NewestEventLast
<1>1. ASSUME TypeOK, EventsInv PROVE NewestEventLast
  <2> DEFINE events == {i \in DOMAIN outbox : outbox[i].of = "committed"}
  <2>1. \A i \in DOMAIN outbox : i \in Int /\ outbox[i].version \in Nat
    BY <1>1, Numbers
  <2>2. version \in Nat
    BY <1>1, Numbers
  <2>3. ASSUME "outbox" \notin clashed, NEW i \in events, \A j \in events : j =< i
        PROVE  outbox[i].version = version
    <3>1. PICK j \in events : outbox[j].version = version
      BY <1>1, <2>3 DEF EventsInv, Newest
    <3>2. j =< i /\ (j < i => outbox[j].version < outbox[i].version)
      BY <1>1, <2>3 DEF EventsInv, Sequenced
    <3>3. outbox[i].version =< version
      BY <1>1, <2>1, <2>2 DEF EventsInv, Dated
    <3>4. QED
      BY <2>1, <2>2, <3>1, <3>2, <3>3
  <2>4. ASSUME "outbox" \notin clashed, NEW i \in events, NEW j \in events, i < j
        PROVE  outbox[i].version < outbox[j].version
    BY <1>1, <2>4 DEF EventsInv, Sequenced
  <2>5. QED
    BY <2>3, <2>4 DEF NewestEventLast
<1>2. QED
  BY <1>1, TypeCorrect, PTL

\* For any sessions, fields, proposals and answers: where no edit overlaps another
\* edit or a deployment, what counts as approved has no row left to review.
THEOREM ApprovedWasReviewed == Spec => []ApprovedMeansReviewed
<1>1. ReviewsInv => ApprovedMeansReviewed
  BY DEF ReviewsInv, Reviewed, ApprovedMeansReviewed
<1>2. TypeOK /\ ReviewsInv /\ [Next]_vars => ReviewsInv'
  BY ReviewsStep
<1>3. QED
  BY <1>1, <1>2, ReviewsInit, TypeCorrect, PTL DEF Spec

\* For any sessions, versions and operations: while an entity has been proposed once
\* and nothing settled the verdict meanwhile, monitor pauses it only for a schema
\* that changed since it was proposed and deployed.
THEOREM PausesHaveReasons == Spec => NoSpuriousPause
<1> DEFINE Reason == \/ baseline.source # live.source
                     \/ baseline.target \notin {live.target, WholeContract}
           Pause  == ProposedOnce /\ "drift" \notin clashed /\ entity = "deployed"
                        /\ entity' = "paused"
<1>1. TypeOK /\ ReviewsInv /\ DriftInv /\ [Next]_vars => [Pause => Reason]_vars
  <2>1. SUFFICES ASSUME DriftInv, Next, Pause PROVE Reason
    OBVIOUS
  <2>2. PICK s \in Sessions : CommitPause(s)
    BY <2>1, OnlyPausesPause
  <2>3. Verdict(baseline, live)
    BY <2>1, <2>2 DEF CommitPause, DriftInv
  <2>4. QED
    BY <2>3 DEF Verdict
<1>2. TypeOK /\ ReviewsInv /\ DriftInv /\ [Next]_vars => (ReviewsInv /\ DriftInv)'
  BY ReviewsStep, DriftStep
<1>3. QED
  BY <1>1, <1>2, ReviewsInit, DriftInit, TypeCorrect, PTL DEF Spec, NoSpuriousPause
=============================================================================
