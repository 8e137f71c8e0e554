-------------------------- MODULE SourceSwapProofs --------------------------
(***************************************************************************)
(* Proofs about the source side of the schema swap, for any number of      *)
(* entities, sessions, changes and operations of people, and any set of    *)
(* structures: what a swap would leave alone is still mapped, and no drift *)
(* goes unseen.                                                            *)
(*                                                                         *)
(* Neither is inductive.  They hold of an entity when its document and its *)
(* fingerprint are of the table its mapping was made for (Agreed).  A      *)
(* capture makes them so because the mapping is still in force that the    *)
(* swap has committed (Persisted), and a new mapping comes into force at   *)
(* once because ids only grow (Numbered).                                  *)
(***************************************************************************)
EXTENDS SourceSwap, SequenceTheorems, WellFoundedInduction, TLAPS

USE SwapAssumption

-----------------------------------------------------------------------------
(* The invariant *)

Phases  == {"idle", "read", "persist", "deploy", "capture"}
Session == [phase : Phases, new : [Entities -> Structures],
            todo : SUBSET Entities, done : SUBSET Entities, at : Nat]

Typed == TypeOK /\ session \in [Sessions -> Session]

\* What a session has in hand at each of its statements: nothing before the gate
\* has decided, and nothing left to deploy when it captures.
StageOf(r) ==
    /\ r.phase \in {"idle", "read"} => r.todo = {} /\ r.done = {}
    /\ r.phase \in {"persist", "deploy"} => r.todo # {}
    /\ r.phase = "capture" => r.todo = {}
    /\ \A e \in r.todo \cup r.done : r.new[e] # Missing

Stages == \A s \in Sessions : StageOf(session[s])

\* Ids are below the next one; a row that maps is accepted; propose has its place.
Numbered ==
    \A e \in Entities :
        /\ \A i \in DOMAIN proposals[e] :
              /\ proposals[e][i].id =< issued[e]
              /\ proposals[e][i].mapped \subseteq proposals[e][i].accepted
              /\ proposals[e][i].accepted \subseteq DOMAIN proposals[e][i].made
        /\ hand[e].op = "propose" => hand[e].at \in DOMAIN proposals[e]
        /\ hand[e].op # "propose" => hand[e].at = 0

\* What a swap has committed is in force, if nothing is flagged.
Persisted ==
    \A s \in Sessions, e \in Entities, part \in {"contract", "fingerprint"} :
        HasPersisted(s, e) /\ <<e, part>> \notin astray =>
            Within(Mapping(e), session[s].new[e])

\* The mapping was made for the table of the latest document and for the table of
\* the stored fingerprint.
OnContract(e)    == docs[e] # <<>> => Within(Mapping(e), docs[e][Len(docs[e])])
OnFingerprint(e) == baseline[e] # Missing /\ Within(Mapping(e), baseline[e])

Agreed ==
    \A e \in Entities : /\ Straight(e, "contract") => OnContract(e)
                        /\ Straight(e, "fingerprint") => OnFingerprint(e)

SwapInv == Typed /\ Stages /\ Numbered /\ Persisted /\ Agreed

-----------------------------------------------------------------------------
(* The operators *)

Less == {ss \in Nat \X Nat : ss[1] < ss[2]}

\* A set of entities has a least one, which FirstOf picks.
LEMMA FirstOfIn == ASSUME NEW S \in SUBSET Entities, S # {} PROVE FirstOf(S) \in S
<1>1. S \subseteq Nat
  BY DEF Entities
<1>2. IsWellFoundedOn(Less, Nat)
  BY NatLessThanWellFounded, Zenon DEF OpToRel, Less
<1>3. PICK x \in S : \A y \in S : ~(<<y, x>> \in Less)
  BY <1>1, <1>2, WFMin
<1>4. ASSUME NEW y \in S PROVE x =< y
  <2>1. y \in Nat /\ x \in Nat
    BY <1>1
  <2>2. <<y, x>> \in Nat \X Nat /\ <<y, x>>[1] = y /\ <<y, x>>[2] = x
    BY <2>1
  <2>3. QED
    BY <1>3, <2>1, <2>2 DEF Less
<1>5. QED
  BY <1>4 DEF FirstOf

\* Capturing a document that is not superseded makes it the latest.
LEMMA CapturedIsLast ==
    ASSUME NEW D, NEW q \in Seq(D), NEW d \in D, ~Superseded(q, d)
    PROVE  /\ Captured(q, d) \in Seq(D)
           /\ Captured(q, d) # <<>>
           /\ Captured(q, d)[Len(Captured(q, d))] = d
<1>1. CASE \E i \in 1..Len(q) : q[i] = d
  <2>1. PICK i \in 1..Len(q) : q[i] = d
    BY <1>1
  <2>2. i = Len(q) /\ Len(q) \in Nat /\ Len(q) # 0
    BY <2>1 DEF Superseded
  <2>3. QED
    BY <1>1, <2>1, <2>2 DEF Captured
<1>2. CASE ~\E i \in 1..Len(q) : q[i] = d
  <2>1. Captured(q, d) = Append(q, d)
    BY <1>2 DEF Captured
  <2>2. Append(q, d) \in Seq(D) /\ Len(Append(q, d)) = Len(q) + 1 /\ Len(q) \in Nat
    OBVIOUS
  <2>3. Append(q, d)[Len(q) + 1] = d
    OBVIOUS
  <2>4. QED
    BY <2>1, <2>2, <2>3
<1>3. QED
  BY <1>1, <1>2

\* Capturing keeps a sequence of documents one.
LEMMA CapturedType ==
    ASSUME NEW D, NEW q \in Seq(D), NEW d \in D PROVE Captured(q, d) \in Seq(D)
BY DEF Captured

\* A structure that no difference was found to is within the other, as far as
\* the names go.
LEMMA NotDiffers ==
    ASSUME NEW f, NEW g, ~Differs(f, g) PROVE Within(f, g)
BY DEF Differs, Within

LEMMA IdleType == Idle \in Session /\ StageOf(Idle)
BY DEF Idle, Session, Phases, StageOf

LEMMA Reflexive == ASSUME NEW f PROVE Within(f, f)
BY DEF Within

\* Some of the columns of a structure are within it.
LEMMA PartOf ==
    ASSUME NEW f, NEW S \in SUBSET DOMAIN f
    PROVE  DOMAIN OnColumns(f, S) = S /\ Within(OnColumns(f, S), f)
BY DEF OnColumns, Within

LEMMA BlankType == Blank \in Proposal
<1>1. Missing \in Parts
  <2>1. OnColumns(Missing, {}) = Missing
    BY DEF OnColumns, Missing
  <2>2. QED
    BY <2>1 DEF Parts
<1>2. QED
  BY <1>1 DEF Blank, Proposal

\* What a proposal is made of when it is made from a structure.
LEMMA PartType ==
    ASSUME NEW f \in Structures, NEW S \in SUBSET DOMAIN f
    PROVE  /\ OnColumns(f, S) \in Parts
           /\ S \in SUBSET UNION {DOMAIN g : g \in Structures}
BY DEF Parts

LEMMA MadeOf ==
    ASSUME NEW m \in Parts PROVE DOMAIN m \in SUBSET UNION {DOMAIN g : g \in Structures}
<1>1. PICK f \in Structures : \E S \in SUBSET DOMAIN f : m = OnColumns(f, S)
  BY DEF Parts
<1>2. DOMAIN m \subseteq DOMAIN f
  BY <1>1 DEF OnColumns
<1>3. QED
  BY <1>2

\* A mapping in force is one of those delivery chooses from.
LEMMA InForceIn ==
    ASSUME Typed, Numbered, NEW e \in Entities, Candidates(e) # {}
    PROVE  /\ InForce(e) \in Candidates(e)
           /\ \A j \in Candidates(e) : proposals[e][j].id =< proposals[e][InForce(e)].id
<1>1. proposals[e] \in Seq(Proposal) /\ issued[e] \in Nat
  BY DEF Typed, TypeOK
<1>2. \A i \in Candidates(e) : i \in DOMAIN proposals[e] /\ proposals[e][i] \in Proposal
  BY <1>1 DEF Candidates, Approved
<1>3. \A i \in Candidates(e) : proposals[e][i].id \in Nat /\ proposals[e][i].id =< issued[e]
  BY <1>2 DEF Proposal, Numbered
<1> DEFINE Gap(i) == issued[e] - proposals[e][i].id
           Gaps   == {Gap(i) : i \in Candidates(e)}
<1>4. Gaps \subseteq Nat /\ Gaps # {}
  BY <1>1, <1>3
<1>5. IsWellFoundedOn(Less, Nat)
  BY NatLessThanWellFounded, Zenon DEF OpToRel, Less
<1>6. PICK g \in Gaps : \A h \in Gaps : ~(<<h, g>> \in Less)
  BY <1>4, <1>5, WFMin
<1>7. \A h \in Gaps : g =< h
  <2> SUFFICES ASSUME NEW h \in Gaps PROVE g =< h
    OBVIOUS
  <2>1. h \in Nat /\ g \in Nat
    BY <1>4
  <2>2. <<h, g>> \in Nat \X Nat /\ <<h, g>>[1] = h /\ <<h, g>>[2] = g
    BY <2>1
  <2>3. QED
    BY <1>6, <2>1, <2>2 DEF Less
<1>8. PICK i \in Candidates(e) : g = Gap(i)
  OBVIOUS
<1>9. \A j \in Candidates(e) : proposals[e][j].id =< proposals[e][i].id
  <2> SUFFICES ASSUME NEW j \in Candidates(e) PROVE proposals[e][j].id =< proposals[e][i].id
    OBVIOUS
  <2>1. Gap(i) =< Gap(j)
    BY <1>7, <1>8
  <2>2. QED
    BY <1>1, <1>3, <2>1
<1>10. QED
  BY <1>8, <1>9 DEF InForce

\* Delivery's mapping depends on the approved proposals that are committed.
LEMMA SameMapping ==
    ASSUME Typed, Numbered, NEW e \in Entities, Approved(e)' = Approved(e),
           \A i \in Approved(e) : proposals'[e][i] = proposals[e][i]
    PROVE  Mapping(e)' = Mapping(e)
<1>1. Candidates(e)' = Candidates(e) /\ Candidates(e) \subseteq Approved(e)
  BY DEF Candidates
<1>2. InForce(e)' = InForce(e)
  <2>1. \A i : (i \in Candidates(e)' /\ \A j \in Candidates(e)' :
                                           proposals'[e][j].id =< proposals'[e][i].id)
            <=> (i \in Candidates(e) /\ \A j \in Candidates(e) :
                                           proposals[e][j].id =< proposals[e][i].id)
    BY <1>1
  <2>2. QED
    BY <2>1 DEF InForce
<1>3. CASE Candidates(e) = {}
  BY <1>1, <1>3 DEF Mapping
<1>4. CASE Candidates(e) # {}
  <2>1. InForce(e) \in Approved(e)
    BY <1>1, <1>4, InForceIn
  <2>2. QED
    BY <1>1, <1>2, <1>4, <2>1 DEF Mapping
<1>5. QED
  BY <1>3, <1>4

\* Nobody has touched the proposals.
LEMMA Untouched ==
    ASSUME Typed, Numbered, NEW e \in Entities,
           proposals'[e] = proposals[e], hand'[e].at = hand[e].at
    PROVE  Mapping(e)' = Mapping(e)
<1>1. Approved(e)' = Approved(e)
  BY DEF Approved
<1>2. QED
  BY <1>1, SameMapping

\* Every entity has been deployed from its table, and nobody swaps.
LEMMA Initially == Init => SwapInv
<1> SUFFICES ASSUME Init PROVE SwapInv
  OBVIOUS
<1> DEFINE First(e) == [id |-> 1, made |-> live[e], accepted |-> DOMAIN live[e],
                        mapped |-> DOMAIN live[e], approved |-> TRUE]
<1>1. live \in [Entities -> Structures \ {Missing}]
  BY DEF Init
<1>2. session = [s \in Sessions |-> Idle] /\ \A s \in Sessions : session[s] = Idle
  BY DEF Init
<1>3. /\ \A e \in Entities : proposals[e] = <<First(e)>> /\ issued[e] = 1 /\ hand[e] = AtRest
      /\ proposals = [e \in Entities |-> <<First(e)>>]
  BY DEF Init
<1>4. Typed
  <2>1. ASSUME NEW e \in Entities PROVE First(e) \in Proposal
    <3>1. live[e] \in Structures /\ OnColumns(live[e], DOMAIN live[e]) \in Parts
          /\ DOMAIN live[e] \in SUBSET UNION {DOMAIN g : g \in Structures}
      BY <1>1, PartType
    <3>2. OnColumns(live[e], DOMAIN live[e]) = live[e]
      <4>1. live[e] \in Structures
        BY <1>1
      <4>2. QED
        BY <4>1
    <3>3. QED
      BY <3>1, <3>2 DEF Proposal
  <2>2. proposals \in [Entities -> Seq(Proposal)]
    BY <1>3, <2>1
  <2>3. docs \in [Entities -> Seq(Structures \ {Missing})]
    <3>1. \A e \in Entities : <<>> \in Seq(Structures \ {Missing})
                              /\ <<live[e]>> \in Seq(Structures \ {Missing})
      BY <1>1
    <3>2. QED
      BY <3>1 DEF Init
  <2>4. session \in [Sessions -> Session]
    BY <1>2, IdleType
  <2>5. \A s \in Sessions :
           /\ session[s].phase \in {"idle", "read", "persist", "deploy", "capture"}
           /\ session[s].new \in [Entities -> Structures]
           /\ session[s].todo \subseteq Entities
           /\ session[s].done \subseteq Entities \ session[s].todo
           /\ session[s].at \in Nat
    BY <1>2 DEF Idle
  <2>6. AtRest \in Hand
    BY DEF AtRest, Hand
  <2>7. hand \in [Entities -> Hand]
    BY <2>6 DEF Init
  <2>8. QED
    BY <1>1, <2>2, <2>3, <2>4, <2>5, <2>7 DEF Init, TypeOK, Typed
<1>5. Stages
  BY <1>2, IdleType DEF Stages
<1>6. Numbered
  BY <1>3 DEF Numbered, AtRest
<1>7. \A s \in Sessions, e \in Entities : ~HasPersisted(s, e)
  BY <1>2 DEF HasPersisted, Idle
<1>8. Persisted
  BY <1>7 DEF Persisted
<1>9. ASSUME NEW e \in Entities PROVE OnContract(e) /\ OnFingerprint(e)
  <2>1. Within(Mapping(e), live[e])
    <3>1. CASE Candidates(e) = {}
      BY <3>1 DEF Mapping, Within, Missing
    <3>2. CASE Candidates(e) # {}
      <4>1. Candidates(e) \subseteq {1}
        BY <1>3 DEF Candidates, Approved
      <4>2. InForce(e) = 1
        BY <1>4, <1>6, <3>2, <4>1, InForceIn
      <4>3. Mapping(e) = OnColumns(live[e], DOMAIN live[e])
        BY <1>3, <3>2, <4>2 DEF Mapping
      <4>4. QED
        BY <4>3, PartOf
    <3>3. QED
      BY <3>1, <3>2
  <2>2. docs[e] # <<>> => docs[e] = <<live[e]>>
    BY DEF Init
  <2>3. baseline[e] = live[e] /\ live[e] # Missing
    BY <1>1 DEF Init
  <2>4. QED
    BY <2>1, <2>2, <2>3 DEF OnContract, OnFingerprint
<1>10. Agreed
  BY <1>9 DEF Agreed
<1>11. QED
  BY <1>4, <1>5, <1>6, <1>8, <1>10 DEF SwapInv

-----------------------------------------------------------------------------
(* Types and stages *)

\* A session's step leaves the others alone.
LEMMA SetSession ==
    ASSUME session \in [Sessions -> Session], Stages,
           NEW s \in Sessions, NEW r \in Session, StageOf(r),
           session' = [session EXCEPT ![s] = r],
           r.done \cap r.todo = {},
           \A x \in Sessions : session[x].done \subseteq Entities \ session[x].todo
    PROVE  /\ session' \in [Sessions -> Session]
           /\ Stages'
           /\ \A x \in Sessions :
                 /\ session'[x].phase \in Phases
                 /\ session'[x].new \in [Entities -> Structures]
                 /\ session'[x].todo \subseteq Entities
                 /\ session'[x].done \subseteq Entities \ session'[x].todo
                 /\ session'[x].at \in Nat
<1>1. session' \in [Sessions -> Session]
  OBVIOUS
<1>2. \A x \in Sessions : session'[x] = IF x = s THEN r ELSE session[x]
  OBVIOUS
<1>3. Stages'
  BY <1>2 DEF Stages, StageOf
<1>4. ASSUME NEW x \in Sessions PROVE session'[x].done \subseteq Entities \ session'[x].todo
  BY <1>2, <1>4 DEF Session
<1>5. \A x \in Sessions : session'[x] \in Session
  BY <1>1
<1>6. QED
  BY <1>1, <1>3, <1>4, <1>5 DEF Session

\* What is flagged are parts of entities.
LEMMA FlagsType ==
    ASSUME NEW e \in Entities
    PROVE  Both(e) \subseteq Entities \X {"contract", "fingerprint"}
BY DEF Both

\* What people do keeps the types.
LEMMA PeopleType ==
    ASSUME Typed, Stages, Numbered, NEW e \in Entities, People(e)
    PROVE  /\ live' \in [Entities -> Structures]
           /\ docs' \in [Entities -> Seq(Structures \ {Missing})]
           /\ proposals' \in [Entities -> Seq(Proposal)]
           /\ issued' \in [Entities -> Nat]
           /\ baseline' \in [Entities -> Structures]
           /\ paused' \subseteq Entities
           /\ hand' \in [Entities -> Hand]
           /\ astray' \subseteq Entities \X {"contract", "fingerprint"}
           /\ swaps' \in 0..MaxSwaps /\ work' \in 0..MaxWork /\ crashes' \in 0..MaxCrashes
           /\ session' = session
<1> DEFINE Kept ==
      /\ live' \in [Entities -> Structures]
      /\ docs' \in [Entities -> Seq(Structures \ {Missing})]
      /\ proposals' \in [Entities -> Seq(Proposal)]
      /\ issued' \in [Entities -> Nat]
      /\ baseline' \in [Entities -> Structures]
      /\ paused' \subseteq Entities
      /\ hand' \in [Entities -> Hand]
      /\ astray' \subseteq Entities \X {"contract", "fingerprint"}
      /\ swaps' \in 0..MaxSwaps /\ work' \in 0..MaxWork /\ crashes' \in 0..MaxCrashes
      /\ session' = session
<1>1. /\ live \in [Entities -> Structures] /\ baseline \in [Entities -> Structures]
      /\ proposals \in [Entities -> Seq(Proposal)] /\ hand \in [Entities -> Hand]
      /\ issued \in [Entities -> Nat] /\ paused \subseteq Entities
      /\ docs \in [Entities -> Seq(Structures \ {Missing})]
      /\ astray \subseteq Entities \X {"contract", "fingerprint"}
      /\ swaps \in 0..MaxSwaps /\ work \in 0..MaxWork /\ crashes \in 0..MaxCrashes
  BY DEF Typed, TypeOK
<1>2. hand[e] \in Hand /\ hand[e].seen \in Structures /\ AtRest \in Hand
  BY <1>1 DEF Hand, AtRest
<1>3. Left(e) => astray' \subseteq Entities \X {"contract", "fingerprint"}
  BY <1>1, FlagsType DEF Left, Both
<1>4. ASSUME ProposeBegin(e) PROVE Kept
  <2>1. Append(proposals[e], Blank) \in Seq(Proposal) /\ Len(proposals[e]) \in Nat
    BY <1>1, BlankType
  <2>2. [op |-> "propose", seen |-> live[e], at |-> Len(proposals[e]) + 1] \in Hand
    BY <1>1, <2>1 DEF Hand
  <2>3. QED
    BY <1>1, <1>4, <2>1, <2>2 DEF ProposeBegin, Work
<1>5. ASSUME ProposeEnd(e) PROVE Kept
  BY <1>1, <1>2, <1>3, <1>5 DEF ProposeEnd, boundVars
<1>6. ASSUME Deploy(e) PROVE Kept
  BY <1>1, <1>6 DEF Deploy, boundVars
<1>7. ASSUME AcceptEnd(e) PROVE Kept
  BY <1>1, <1>2, <1>3, <1>7 DEF AcceptEnd, boundVars
<1>8. ASSUME GiveUp(e) PROVE Kept
  <2>1. proposals[e] \in Seq(Proposal)
    BY <1>1
  <2> DEFINE q == [i \in DOMAIN proposals[e] |-> IF i = hand[e].at THEN Blank ELSE proposals[e][i]]
  <2>2. q \in Seq(Proposal)
    BY <2>1, BlankType
  <2>3. proposals' = [proposals EXCEPT ![e] = q]
    BY <1>8 DEF GiveUp
  <2> HIDE DEF q
  <2>4. proposals' \in [Entities -> Seq(Proposal)]
    BY <1>1, <2>2, <2>3
  <2>5. QED
    BY <1>1, <1>2, <1>8, <2>4 DEF GiveUp, boundVars
<1>9. ASSUME NEW rows \in SUBSET DOMAIN hand[e].seen, NEW accepted \in SUBSET rows,
             NEW mapped \in SUBSET accepted, NEW approved \in BOOLEAN,
             ProposeInsert(e, rows, accepted, mapped, approved)
      PROVE  Kept
  <2> DEFINE p == [id |-> issued[e] + 1, made |-> OnColumns(hand[e].seen, rows),
                   accepted |-> accepted, mapped |-> mapped, approved |-> approved]
  <2>1. p \in Proposal
    <3>1. OnColumns(hand[e].seen, rows) \in Parts
          /\ rows \in SUBSET UNION {DOMAIN g : g \in Structures}
      BY <1>2, PartType
    <3>2. accepted \in SUBSET UNION {DOMAIN g : g \in Structures}
          /\ mapped \in SUBSET UNION {DOMAIN g : g \in Structures}
      BY <3>1
    <3>3. issued[e] + 1 \in Nat
      BY <1>1
    <3>4. QED
      BY <3>1, <3>2, <3>3 DEF Proposal
  <2>2. proposals' = [proposals EXCEPT ![e][hand[e].at] = p]
    BY <1>9 DEF ProposeInsert
  <2> HIDE DEF p
  <2>3. proposals' = [proposals EXCEPT ![e] = [proposals[e] EXCEPT ![hand[e].at] = p]]
    BY <1>1, <2>2
  <2>4. [proposals[e] EXCEPT ![hand[e].at] = p] \in Seq(Proposal)
    <3>1. proposals[e] \in Seq(Proposal)
      BY <1>1
    <3>2. hand[e].at \in DOMAIN proposals[e]
      BY <1>9 DEF ProposeInsert, Numbered
    <3>3. QED
      BY <2>1, <3>1, <3>2
  <2>5. issued' \in [Entities -> Nat]
    BY <1>1, <1>9 DEF ProposeInsert
  <2>6. proposals' \in [Entities -> Seq(Proposal)]
    BY <1>1, <2>3, <2>4
  <2>7. QED
    BY <1>1, <1>9, <2>5, <2>6 DEF ProposeInsert, boundVars
<1>10. ASSUME NEW i \in DOMAIN proposals[e], NEW accepted \in SUBSET DOMAIN proposals[e][i].made,
              NEW mapped \in SUBSET accepted, NEW approved \in BOOLEAN,
              Review(e, i, accepted, mapped, approved)
       PROVE  Kept
  <2> DEFINE p == [proposals[e][i] EXCEPT !.accepted = accepted, !.mapped = mapped,
                                          !.approved = approved]
  <2>1. proposals[e] \in Seq(Proposal) /\ proposals[e][i] \in Proposal
    BY <1>1
  <2>2. p \in Proposal
    <3>1. DOMAIN proposals[e][i].made \in SUBSET UNION {DOMAIN g : g \in Structures}
      BY <2>1, MadeOf DEF Proposal
    <3>2. accepted \in SUBSET UNION {DOMAIN g : g \in Structures}
          /\ mapped \in SUBSET UNION {DOMAIN g : g \in Structures}
      BY <3>1
    <3>3. QED
      BY <2>1, <3>2 DEF Proposal
  <2>3. proposals' = [proposals EXCEPT ![e] = [proposals[e] EXCEPT ![i] = p]]
    BY <1>1, <1>10, <2>1 DEF Review
  <2> HIDE DEF p
  <2>4. [proposals[e] EXCEPT ![i] = p] \in Seq(Proposal)
    BY <2>1, <2>2
  <2>5. proposals' \in [Entities -> Seq(Proposal)]
    BY <1>1, <2>3, <2>4
  <2>6. work' \in 0..MaxWork
    BY <1>1, <1>10 DEF Review, Work
  <2>7. QED
    BY <1>1, <1>3, <1>10, <2>5, <2>6 DEF Review, Work
<1>11. ASSUME NEW op \in {"rebaseline", "resolve", "reset"}, AcceptBegin(e, op) PROVE Kept
  <2>1. hand' \in [Entities -> Hand]
    BY <1>1, <1>11 DEF AcceptBegin, Hand
  <2>2. work' \in 0..MaxWork
    BY <1>1, <1>11 DEF AcceptBegin, Work
  <2>3. QED
    BY <1>1, <1>11, <2>1, <2>2 DEF AcceptBegin, Work
<1> HIDE DEF Kept
<1>12. Kept
  BY <1>4, <1>5, <1>6, <1>7, <1>8, <1>9, <1>10, <1>11 DEF People
<1>13. QED
  BY <1>12 DEF Kept

\* What a swap has mapped and will not capture is flagged, entity by entity.
LEMMA AbandonedType ==
    ASSUME NEW s \in Sessions
    PROVE  /\ Abandoned(s) \subseteq Entities \X {"contract", "fingerprint"}
           /\ \A e \in Entities : HasPersisted(s, e) => Both(e) \subseteq Abandoned(s)
BY DEF Abandoned, Both

\* Every step keeps the types, and what a session has in hand is what its
\* statement allows.
LEMMA TypeStep == Typed /\ Stages /\ Numbered /\ [Next]_vars => (Typed /\ Stages)'
<1> SUFFICES ASSUME Typed, Stages, Numbered, [Next]_vars PROVE (Typed /\ Stages)'
  OBVIOUS
<1> DEFINE Rows == /\ live' \in [Entities -> Structures]
                   /\ docs' \in [Entities -> Seq(Structures \ {Missing})]
                   /\ proposals' \in [Entities -> Seq(Proposal)]
                   /\ issued' \in [Entities -> Nat]
                   /\ baseline' \in [Entities -> Structures]
                   /\ paused' \subseteq Entities
                   /\ hand' \in [Entities -> Hand]
                   /\ astray' \subseteq Entities \X {"contract", "fingerprint"}
                   /\ swaps' \in 0..MaxSwaps
                   /\ work' \in 0..MaxWork
                   /\ crashes' \in 0..MaxCrashes
<1>1. /\ session \in [Sessions -> Session]
      /\ \A x \in Sessions : session[x].done \subseteq Entities \ session[x].todo
  BY DEF Typed, TypeOK
<1>2. \A x \in Sessions : session[x] \in Session /\ StageOf(session[x])
  BY <1>1 DEF Stages
<1>3. ASSUME NEW s \in Sessions, NEW r \in Session, StageOf(r), r.done \cap r.todo = {},
             session' = [session EXCEPT ![s] = r], Rows
      PROVE  (Typed /\ Stages)'
  BY <1>1, <1>3, SetSession, Zenon DEF Typed, TypeOK, Phases
<1>4. ASSUME Rows, session' = session PROVE (Typed /\ Stages)'
  BY <1>4 DEF Typed, TypeOK, Stages, StageOf
<1>5. ASSUME NEW e \in Entities, NEW t \in Structures, ChangeSource(e, t)
      PROVE  (Typed /\ Stages)'
  BY <1>4, <1>5 DEF ChangeSource, rowVars, Typed, TypeOK
<1>6. ASSUME NEW e \in Entities, People(e) PROVE (Typed /\ Stages)'
  <2>1. Rows /\ session' = session
    BY <1>6, PeopleType
  <2> HIDE DEF Rows
  <2>2. QED
    BY <1>4, <2>1
<1>7. CASE Monitor
  BY <1>4, <1>7 DEF Monitor, boundVars, Typed, TypeOK
<1>8. CASE UNCHANGED vars
  BY <1>4, <1>8 DEF vars, rowVars, boundVars, Typed, TypeOK
<1>9. ASSUME NEW s \in Sessions, SwapDiscover(s) PROVE (Typed /\ Stages)'
  <2> DEFINE r == [session[s] EXCEPT !.phase = "read", !.new = live]
  <2>1. r \in Session /\ StageOf(r) /\ r.done \cap r.todo = {}
    BY <1>2, <1>9 DEF SwapDiscover, Session, Phases, StageOf, Typed, TypeOK
  <2>2. session' = [session EXCEPT ![s] = r]
    BY <1>1, <1>9 DEF SwapDiscover
  <2>3. Rows
    BY <1>9 DEF SwapDiscover, rowVars, Typed, TypeOK
  <2>4. QED
    BY <1>3, <2>1, <2>2, <2>3
<1>10. ASSUME NEW s \in Sessions, NEW sure \in SUBSET Entities, NEW force \in BOOLEAN,
              SwapRead(s, sure, force)
       PROVE  (Typed /\ Stages)'
  <2>1. Rows
    BY <1>10 DEF SwapRead, rowVars, boundVars, Typed, TypeOK
  <2>2. CASE session' = [session EXCEPT ![s] = Idle]
    BY <1>3, <2>1, <2>2, IdleType DEF Idle
  <2>3. CASE /\ sure # {}
             /\ session' = [session EXCEPT ![s] = [@ EXCEPT !.phase = "persist", !.todo = sure]]
    <3> DEFINE r == [session[s] EXCEPT !.phase = "persist", !.todo = sure]
    <3>1. session[s].phase = "read" /\ \A e \in sure : session[s].new[e] # Missing
      BY <1>10 DEF SwapRead
    <3>2. r \in Session /\ StageOf(r) /\ r.done \cap r.todo = {}
      BY <1>2, <2>3, <3>1 DEF Session, Phases, StageOf
    <3>3. QED
      BY <1>3, <2>1, <2>3, <3>2
  <2>4. QED
    BY <1>10, <2>2, <2>3 DEF SwapRead
<1>11. ASSUME NEW s \in Sessions, NEW C, SwapPersist(s, C) PROVE (Typed /\ Stages)'
  <2> DEFINE e == FirstOf(session[s].todo)
             r == [session[s] EXCEPT !.phase = "deploy", !.at = issued[e] + 1]
             p == [id |-> issued[e] + 1, made |-> OnColumns(session[s].new[e], C),
                   accepted |-> C, mapped |-> C, approved |-> TRUE]
  <2>1. session[s].phase = "persist" /\ session[s].todo \in SUBSET Entities
    BY <1>2, <1>11 DEF SwapPersist, Session
  <2>2. e \in session[s].todo /\ e \in Entities
    BY <1>2, <2>1, FirstOfIn DEF StageOf
  <2> HIDE DEF e
  <2>3. issued[e] + 1 \in Nat /\ session[s].new[e] \in Structures
    BY <1>2, <2>2 DEF Typed, TypeOK, Session
  <2>4. r \in Session /\ StageOf(r) /\ r.done \cap r.todo = {}
    BY <1>1, <1>2, <2>1, <2>3 DEF Session, Phases, StageOf
  <2>5. session' = [session EXCEPT ![s] = r]
    BY <1>1, <1>11 DEF SwapPersist, e
  <2>6. C \subseteq DOMAIN session[s].new[e]
    BY <1>11 DEF SwapPersist, e
  <2>7. p \in Proposal
    <3>1. /\ OnColumns(session[s].new[e], C) \in Parts
          /\ C \in SUBSET UNION {DOMAIN g : g \in Structures}
      BY <2>3, <2>6, PartType
    <3>2. QED
      BY <2>3, <3>1 DEF Proposal
  <2>8. /\ proposals' = [proposals EXCEPT ![e] = Append(@, p)]
        /\ issued' = [issued EXCEPT ![e] = @ + 1]
    BY <1>11 DEF SwapPersist, e
  <2> HIDE DEF p
  <2>9. proposals' \in [Entities -> Seq(Proposal)] /\ issued' \in [Entities -> Nat]
    BY <2>2, <2>7, <2>8 DEF Typed, TypeOK
  <2>10. astray' \subseteq Entities \X {"contract", "fingerprint"}
    <3>1. astray' \subseteq astray \cup Both(e)
      BY <1>11 DEF SwapPersist, e
    <3>2. QED
      BY <2>2, <3>1, FlagsType DEF Typed, TypeOK
  <2>11. Rows
    BY <1>11, <2>9, <2>10 DEF SwapPersist, boundVars, Typed, TypeOK
  <2>12. QED
    BY <1>3, <2>4, <2>5, <2>11
<1>12. ASSUME NEW s \in Sessions, SwapDeploy(s) PROVE (Typed /\ Stages)'
  <2> DEFINE e    == FirstOf(session[s].todo)
             rest == session[s].todo \ {e}
             r    == [session[s] EXCEPT !.todo = rest, !.done = @ \cup {e}, !.at = 0,
                                        !.phase = IF rest = {} THEN "capture" ELSE "persist"]
  <2>1. session[s].phase = "deploy" /\ session[s].todo \in SUBSET Entities
    BY <1>2, <1>12 DEF SwapDeploy, Session
  <2>2. e \in session[s].todo
    BY <1>2, <2>1, FirstOfIn DEF StageOf
  <2>3. session' = [session EXCEPT ![s] = r]
    BY <1>1, <1>12 DEF SwapDeploy
  <2>4. r \in Session /\ StageOf(r) /\ r.done \cap r.todo = {}
    <3> HIDE DEF e
    <3>1. /\ r.todo = rest /\ r.done = session[s].done \cup {e}
          /\ r.new = session[s].new
          /\ r.phase = IF rest = {} THEN "capture" ELSE "persist"
      BY <1>2 DEF Session
    <3>2. r \in Session
      BY <1>2, <2>1, <2>2 DEF Session, Phases
    <3>3. StageOf(r)
      BY <1>2, <2>2, <3>1 DEF StageOf
    <3>4. QED
      BY <1>1, <3>1, <3>2, <3>3
  <2>5. Rows
    BY <1>12 DEF SwapDeploy, boundVars, Typed, TypeOK
  <2>6. QED
    BY <1>3, <2>3, <2>4, <2>5
<1>13. ASSUME NEW s \in Sessions, DeployFails(s) \/ Crash(s) PROVE (Typed /\ Stages)'
  <2>1. session' = [session EXCEPT ![s] = Idle] /\ astray' = astray \cup Abandoned(s)
    BY <1>13 DEF DeployFails, Crash
  <2>2. Rows
    BY <1>13, <2>1, AbandonedType DEF DeployFails, Crash, rowVars, boundVars, Typed, TypeOK
  <2>3. QED
    BY <1>3, <2>1, <2>2, IdleType DEF Idle
<1>14. ASSUME NEW s \in Sessions, SwapCapture(s) PROVE (Typed /\ Stages)'
  <2>1. session' = [session EXCEPT ![s] = Idle]
    BY <1>14 DEF SwapCapture
  <2>2. \A e \in session[s].done : session[s].new[e] \in Structures \ {Missing}
    BY <1>2 DEF Session, StageOf
  <2>3. docs' \in [Entities -> Seq(Structures \ {Missing})]
    <3>1. \A e \in Entities : docs[e] \in Seq(Structures \ {Missing})
      BY DEF Typed, TypeOK
    <3>2. \A e \in session[s].done :
             Captured(docs[e], session[s].new[e]) \in Seq(Structures \ {Missing})
      BY <1>2, <2>2, <3>1, CapturedType DEF Session
    <3>3. QED
      BY <1>14, <3>1, <3>2 DEF SwapCapture
  <2>4. session[s].done \subseteq Entities
    BY <1>2 DEF Session
  <2>5. astray' \subseteq Entities \X {"contract", "fingerprint"}
    BY <1>14, <2>4 DEF SwapCapture, Amiss, Typed, TypeOK
  <2>6. Rows
    BY <1>14, <2>3, <2>4, <2>5 DEF SwapCapture, boundVars, Typed, TypeOK
  <2>7. QED
    BY <1>3, <2>1, <2>6, IdleType DEF Idle
<1>15. QED
  BY <1>5, <1>6, <1>7, <1>8, <1>9, <1>10, <1>11, <1>12, <1>13, <1>14 DEF Next, Swap

-----------------------------------------------------------------------------
(* The proposals *)

\* What people do to the proposals of one entity: nothing, a place taken, an answer
\* put there, a place left blank, or a review.
LEMMA PeopleNumber ==
    ASSUME Typed, Numbered, NEW e \in Entities, People(e)
    PROVE  Numbered'
<1> DEFINE N(x) ==
       /\ \A i \in DOMAIN proposals[x] :
             /\ proposals[x][i].id =< issued[x]
             /\ proposals[x][i].mapped \subseteq proposals[x][i].accepted
             /\ proposals[x][i].accepted \subseteq DOMAIN proposals[x][i].made
       /\ hand[x].op = "propose" => hand[x].at \in DOMAIN proposals[x]
       /\ hand[x].op # "propose" => hand[x].at = 0
<1>1. \A x \in Entities : N(x)
  BY DEF Numbered
<1>2. /\ proposals \in [Entities -> Seq(Proposal)] /\ hand \in [Entities -> Hand]
      /\ issued \in [Entities -> Nat] /\ proposals[e] \in Seq(Proposal) /\ issued[e] \in Nat
  BY DEF Typed, TypeOK
<1>3. ASSUME \A x \in Entities : x # e => /\ proposals'[x] = proposals[x]
                                          /\ hand'[x] = hand[x] /\ issued'[x] = issued[x],
             N(e)'
      PROVE  Numbered'
  BY <1>1, <1>3 DEF Numbered
<1>4. ASSUME UNCHANGED <<proposals, issued>>, \A x \in Entities : x # e => hand'[x] = hand[x],
             hand'[e].op # "propose", hand'[e].at = 0
      PROVE  Numbered'
  BY <1>1, <1>3, <1>4
<1>5. ASSUME UNCHANGED <<proposals, issued, hand>> PROVE Numbered'
  BY <1>5 DEF Numbered
<1>6. ASSUME ProposeBegin(e) PROVE Numbered'
  <2>1. /\ proposals' = [proposals EXCEPT ![e] = Append(@, Blank)] /\ issued' = issued
        /\ hand' = [hand EXCEPT ![e] =
              [op |-> "propose", seen |-> live[e], at |-> Len(proposals[e]) + 1]]
    BY <1>6 DEF ProposeBegin
  <2>2. /\ DOMAIN proposals'[e] = 1..(Len(proposals[e]) + 1)
        /\ \A i \in DOMAIN proposals'[e] : \/ i \in DOMAIN proposals[e]
                                              /\ proposals'[e][i] = proposals[e][i]
                                           \/ proposals'[e][i] = Blank
    BY <1>2, <2>1, BlankType
  <2>3. hand'[e].op = "propose" /\ hand'[e].at \in DOMAIN proposals'[e]
    BY <1>2, <2>1, <2>2
  <2>4. /\ Blank.id =< issued[e] /\ Blank.mapped \subseteq Blank.accepted
        /\ Blank.accepted \subseteq DOMAIN Blank.made
    BY <1>2 DEF Blank
  <2>5. N(e)'
    BY <1>1, <2>1, <2>2, <2>3, <2>4
  <2>6. QED
    BY <1>2, <1>3, <2>1, <2>5
<1>7. ASSUME NEW rows \in SUBSET DOMAIN hand[e].seen, NEW accepted \in SUBSET rows,
             NEW mapped \in SUBSET accepted, NEW approved \in BOOLEAN,
             ProposeInsert(e, rows, accepted, mapped, approved)
      PROVE  Numbered'
  <2> DEFINE p == [id |-> issued[e] + 1, made |-> OnColumns(hand[e].seen, rows),
                   accepted |-> accepted, mapped |-> mapped, approved |-> approved]
  <2>1. /\ proposals' = [proposals EXCEPT ![e] = [proposals[e] EXCEPT ![hand[e].at] = p]]
        /\ issued' = [issued EXCEPT ![e] = @ + 1] /\ hand' = hand
    BY <1>2, <1>7 DEF ProposeInsert
  <2>2. p.id = issued[e] + 1 /\ p.mapped \subseteq p.accepted /\ p.accepted \subseteq DOMAIN p.made
    BY DEF OnColumns
  <2> HIDE DEF p
  <2>3. /\ DOMAIN proposals'[e] = DOMAIN proposals[e]
        /\ \A i \in DOMAIN proposals'[e] : proposals'[e][i] \in {p, proposals[e][i]}
        /\ issued'[e] = issued[e] + 1
    BY <1>2, <2>1
  <2>4. \A i \in DOMAIN proposals[e] : proposals[e][i].id \in Nat
    <3>1. \A i \in DOMAIN proposals[e] : proposals[e][i] \in Proposal
      BY <1>2
    <3>2. QED
      BY <3>1 DEF Proposal
  <2>5. N(e)'
    BY <1>1, <1>2, <2>1, <2>2, <2>3, <2>4
  <2>6. QED
    BY <1>2, <1>3, <2>1, <2>5
<1>8. ASSUME NEW i \in DOMAIN proposals[e], NEW accepted \in SUBSET DOMAIN proposals[e][i].made,
             NEW mapped \in SUBSET accepted, NEW approved \in BOOLEAN,
             Review(e, i, accepted, mapped, approved)
      PROVE  Numbered'
  <2> DEFINE p == [proposals[e][i] EXCEPT !.accepted = accepted, !.mapped = mapped,
                                          !.approved = approved]
  <2>1. proposals[e][i] \in Proposal
    BY <1>2
  <2>2. /\ proposals' = [proposals EXCEPT ![e] = [proposals[e] EXCEPT ![i] = p]]
        /\ issued' = issued /\ hand' = hand
    BY <1>2, <1>8, <2>1 DEF Review
  <2>3. p.id =< issued[e] /\ p.mapped \subseteq p.accepted /\ p.accepted \subseteq DOMAIN p.made
    BY <1>1, <2>1 DEF Proposal
  <2> HIDE DEF p
  <2>4. /\ DOMAIN proposals'[e] = DOMAIN proposals[e]
        /\ \A j \in DOMAIN proposals'[e] : proposals'[e][j] \in {p, proposals[e][j]}
    BY <1>2, <2>2
  <2>5. N(e)'
    BY <1>1, <2>2, <2>3, <2>4
  <2>6. QED
    BY <1>2, <1>3, <2>2, <2>5
<1>9. ASSUME GiveUp(e) PROVE Numbered'
  <2>1. /\ proposals' = [proposals EXCEPT ![e] =
              [i \in DOMAIN proposals[e] |-> IF i = hand[e].at THEN Blank ELSE proposals[e][i]]]
        /\ hand' = [hand EXCEPT ![e] = AtRest] /\ issued' = issued
    BY <1>9 DEF GiveUp
  <2>2. /\ DOMAIN proposals'[e] = DOMAIN proposals[e]
        /\ \A i \in DOMAIN proposals'[e] : proposals'[e][i] \in {Blank, proposals[e][i]}
    BY <1>2, <2>1
  <2>3. /\ Blank.id =< issued[e] /\ Blank.mapped \subseteq Blank.accepted
        /\ Blank.accepted \subseteq DOMAIN Blank.made
    BY <1>2 DEF Blank
  <2>4. hand'[e].op # "propose" /\ hand'[e].at = 0
    BY <1>2, <2>1 DEF AtRest
  <2>5. N(e)'
    BY <1>1, <2>1, <2>2, <2>3, <2>4
  <2>6. QED
    BY <1>2, <1>3, <2>1, <2>5
<1>10. ASSUME ProposeEnd(e) \/ AcceptEnd(e) PROVE Numbered'
  BY <1>2, <1>4, <1>10 DEF ProposeEnd, AcceptEnd, AtRest
<1>11. ASSUME NEW op \in {"rebaseline", "resolve", "reset"}, AcceptBegin(e, op) PROVE Numbered'
  BY <1>2, <1>4, <1>11 DEF AcceptBegin
<1>12. ASSUME Deploy(e) PROVE Numbered'
  BY <1>5, <1>12 DEF Deploy
<1>13. QED
  BY <1>6, <1>7, <1>8, <1>9, <1>10, <1>11, <1>12 DEF People

\* A swap's proposal gets the next id.
LEMMA NumberedStep == Typed /\ Stages /\ Numbered /\ [Next]_vars => Numbered'
<1> SUFFICES ASSUME Typed, Stages, Numbered, [Next]_vars PROVE Numbered'
  OBVIOUS
<1>1. ASSUME UNCHANGED <<proposals, issued, hand>> PROVE Numbered'
  BY <1>1 DEF Numbered
<1>2. ASSUME NEW s \in Sessions, NEW C, SwapPersist(s, C) PROVE Numbered'
  <2> DEFINE e == FirstOf(session[s].todo)
             p == [id |-> issued[e] + 1, made |-> OnColumns(session[s].new[e], C),
                   accepted |-> C, mapped |-> C, approved |-> TRUE]
  <2>1. e \in Entities
    <3>1. session[s].phase = "persist" /\ session[s].todo \in SUBSET Entities
      BY <1>2 DEF SwapPersist, Typed, TypeOK
    <3>2. session[s].todo # {}
      BY <3>1 DEF Stages, StageOf
    <3>3. QED
      BY <3>1, <3>2, FirstOfIn
  <2>2. /\ proposals' = [proposals EXCEPT ![e] = Append(@, p)]
        /\ issued' = [issued EXCEPT ![e] = @ + 1] /\ hand' = hand
    BY <1>2 DEF SwapPersist
  <2>3. p.id = issued[e] + 1 /\ p.mapped \subseteq p.accepted /\ p.accepted \subseteq DOMAIN p.made
    BY DEF OnColumns
  <2> HIDE DEF e, p
  <2>4. proposals[e] \in Seq(Proposal) /\ issued[e] \in Nat /\ Len(proposals[e]) \in Nat
        /\ proposals \in [Entities -> Seq(Proposal)] /\ issued \in [Entities -> Nat]
    BY <2>1 DEF Typed, TypeOK
  <2>5. /\ issued'[e] = issued[e] + 1 /\ proposals'[e] = Append(proposals[e], p)
        /\ \A x \in Entities : x # e => proposals'[x] = proposals[x] /\ issued'[x] = issued[x]
    BY <2>1, <2>2, <2>4
  <2>6. /\ DOMAIN proposals'[e] = 1..(Len(proposals[e]) + 1)
        /\ \A i \in DOMAIN proposals'[e] : \/ i \in DOMAIN proposals[e]
                                              /\ proposals'[e][i] = proposals[e][i]
                                           \/ proposals'[e][i] = p
    BY <2>4, <2>5
  <2>7. \A i \in DOMAIN proposals[e] : proposals[e][i].id \in Nat
    <3>1. \A i \in DOMAIN proposals[e] : proposals[e][i] \in Proposal
      BY <2>4
    <3>2. QED
      BY <3>1 DEF Proposal
  <2>8. \A i \in DOMAIN proposals'[e] :
           /\ proposals'[e][i].id =< issued'[e]
           /\ proposals'[e][i].mapped \subseteq proposals'[e][i].accepted
           /\ proposals'[e][i].accepted \subseteq DOMAIN proposals'[e][i].made
    BY <2>1, <2>3, <2>4, <2>5, <2>6, <2>7 DEF Numbered
  <2>9. hand'[e].op = "propose" => hand'[e].at \in DOMAIN proposals'[e]
    BY <2>1, <2>2, <2>4, <2>6 DEF Numbered
  <2>10. QED
    BY <2>2, <2>5, <2>8, <2>9 DEF Numbered
<1>3. ASSUME NEW s \in Sessions, \A C : ~SwapPersist(s, C), Swap(s) PROVE Numbered'
  BY <1>1, <1>3 DEF Swap, SwapDiscover, SwapRead, SwapDeploy, DeployFails, SwapCapture, Crash,
                    rowVars
<1>4. ASSUME NEW e \in Entities, NEW t \in Structures, ChangeSource(e, t) PROVE Numbered'
  BY <1>1, <1>4 DEF ChangeSource, rowVars
<1>5. CASE Monitor
  BY <1>1, <1>5 DEF Monitor
<1>6. CASE UNCHANGED vars
  BY <1>1, <1>6 DEF vars, rowVars
<1>7. QED
  BY <1>2, <1>3, <1>4, <1>5, <1>6, PeopleNumber DEF Next

-----------------------------------------------------------------------------
(* The mapping in force *)

\* People capture nothing.
LEMMA PeopleDocs == ASSUME NEW e \in Entities, People(e) PROVE docs' = docs
<1>1. CASE ProposeBegin(e) \/ ProposeEnd(e) \/ Deploy(e) \/ AcceptEnd(e) \/ GiveUp(e)
  BY <1>1 DEF ProposeBegin, ProposeEnd, Deploy, AcceptEnd, GiveUp, Work
<1>2. ASSUME NEW rows, NEW accepted, NEW mapped, NEW approved,
             ProposeInsert(e, rows, accepted, mapped, approved)
      PROVE  docs' = docs
  BY <1>2 DEF ProposeInsert
<1>3. ASSUME NEW i, NEW accepted, NEW mapped, NEW approved,
             Review(e, i, accepted, mapped, approved)
      PROVE  docs' = docs
  BY <1>3 DEF Review, Work
<1>4. ASSUME NEW op, AcceptBegin(e, op) PROVE docs' = docs
  BY <1>4 DEF AcceptBegin, Work
<1>5. QED
  BY <1>1, <1>2, <1>3, <1>4 DEF People

\* What people do to an entity leaves the mappings of the others alone, and its own
\* unless Left says what has become of it.
LEMMA PeopleMapping ==
    ASSUME Typed, Numbered, NEW e \in Entities, People(e)
    PROVE  /\ docs' = docs
           /\ \A x \in Entities : x # e => Mapping(x)' = Mapping(x) /\ baseline'[x] = baseline[x]
           /\ \/ UNCHANGED <<astray, baseline>> /\ Mapping(e)' = Mapping(e)
              \/ Left(e)
<1>1. /\ proposals \in [Entities -> Seq(Proposal)] /\ hand \in [Entities -> Hand]
      /\ baseline \in [Entities -> Structures] /\ proposals[e] \in Seq(Proposal)
  BY DEF Typed, TypeOK
<1>2. ASSUME \A x \in Entities : x # e => proposals'[x] = proposals[x] /\ hand'[x] = hand[x]
      PROVE  \A x \in Entities : x # e => Mapping(x)' = Mapping(x)
  BY <1>2, Untouched
<1>3. \A x \in Entities : x # e =>
         proposals'[x] = proposals[x] /\ hand'[x] = hand[x] /\ baseline'[x] = baseline[x]
  <2>1. CASE ProposeBegin(e) \/ ProposeEnd(e) \/ Deploy(e) \/ AcceptEnd(e) \/ GiveUp(e)
    BY <1>1, <2>1 DEF ProposeBegin, ProposeEnd, Deploy, AcceptEnd, GiveUp
  <2>2. ASSUME NEW rows, NEW accepted, NEW mapped, NEW approved,
               ProposeInsert(e, rows, accepted, mapped, approved)
        PROVE  \A x \in Entities : x # e =>
         proposals'[x] = proposals[x] /\ hand'[x] = hand[x] /\ baseline'[x] = baseline[x]
    BY <1>1, <2>2 DEF ProposeInsert
  <2>3. ASSUME NEW i, NEW accepted, NEW mapped, NEW approved,
               Review(e, i, accepted, mapped, approved)
        PROVE  \A x \in Entities : x # e =>
         proposals'[x] = proposals[x] /\ hand'[x] = hand[x] /\ baseline'[x] = baseline[x]
    BY <1>1, <2>3 DEF Review
  <2>4. ASSUME NEW op, AcceptBegin(e, op)
        PROVE  \A x \in Entities : x # e =>
         proposals'[x] = proposals[x] /\ hand'[x] = hand[x] /\ baseline'[x] = baseline[x]
    BY <1>1, <2>4 DEF AcceptBegin
  <2>5. QED
    BY <2>1, <2>2, <2>3, <2>4 DEF People
<1>4. docs' = docs
  BY PeopleDocs
<1>5. ASSUME ProposeBegin(e) PROVE UNCHANGED <<astray, baseline>> /\ Mapping(e)' = Mapping(e)
  <2>1. /\ proposals'[e] = Append(proposals[e], Blank) /\ hand'[e].at = Len(proposals[e]) + 1
        /\ hand[e].at = 0
    BY <1>1, <1>5 DEF ProposeBegin, AtRest
  <2>2. /\ DOMAIN proposals'[e] = 1..(Len(proposals[e]) + 1)
        /\ DOMAIN proposals[e] = 1..Len(proposals[e]) /\ Len(proposals[e]) \in Nat
        /\ \A i \in DOMAIN proposals[e] : proposals'[e][i] = proposals[e][i]
    BY <1>1, <2>1, BlankType
  <2>3. Approved(e)' = Approved(e)
    BY <2>1, <2>2 DEF Approved
  <2>4. \A i \in Approved(e) : proposals'[e][i] = proposals[e][i]
    BY <2>2 DEF Approved
  <2>5. QED
    BY <1>5, <2>3, <2>4, SameMapping DEF ProposeBegin
<1>6. ASSUME NEW rows, NEW accepted, NEW mapped, NEW approved,
             ProposeInsert(e, rows, accepted, mapped, approved)
      PROVE  UNCHANGED <<astray, baseline>> /\ Mapping(e)' = Mapping(e)
  <2>1. /\ DOMAIN proposals'[e] = DOMAIN proposals[e]
        /\ \A i \in DOMAIN proposals[e] : i # hand[e].at => proposals'[e][i] = proposals[e][i]
        /\ hand' = hand
    BY <1>1, <1>6 DEF ProposeInsert
  <2>2. Approved(e)' = Approved(e) /\ \A i \in Approved(e) : proposals'[e][i] = proposals[e][i]
    BY <2>1 DEF Approved
  <2>3. QED
    BY <1>6, <2>2, SameMapping DEF ProposeInsert
<1>7. ASSUME GiveUp(e) PROVE UNCHANGED <<astray, baseline>> /\ Mapping(e)' = Mapping(e)
  <2>1. /\ DOMAIN proposals'[e] = DOMAIN proposals[e]
        /\ \A i \in DOMAIN proposals[e] :
              proposals'[e][i] = IF i = hand[e].at THEN Blank ELSE proposals[e][i]
        /\ hand'[e].at = 0
    BY <1>1, <1>7 DEF GiveUp, AtRest
  <2>2. \A i \in DOMAIN proposals[e] : i # 0
    BY <1>1
  <2>3. Approved(e)' = Approved(e)
    BY <2>1, <2>2 DEF Approved, Blank
  <2>4. \A i \in Approved(e) : proposals'[e][i] = proposals[e][i]
    BY <2>1 DEF Approved
  <2>5. QED
    BY <1>7, <2>3, <2>4, SameMapping DEF GiveUp
<1>8. ASSUME NEW op, AcceptBegin(e, op)
      PROVE  UNCHANGED <<astray, baseline>> /\ Mapping(e)' = Mapping(e)
  BY <1>1, <1>8, Untouched DEF AcceptBegin, AtRest
<1>9. ASSUME Deploy(e) PROVE UNCHANGED <<astray, baseline>> /\ Mapping(e)' = Mapping(e)
  BY <1>9, Untouched DEF Deploy
<1>10. \/ UNCHANGED <<astray, baseline>> /\ Mapping(e)' = Mapping(e)
       \/ Left(e)
  <2>1. CASE ProposeEnd(e) \/ AcceptEnd(e)
    BY <2>1 DEF ProposeEnd, AcceptEnd
  <2>2. ASSUME NEW i, NEW accepted, NEW mapped, NEW approved,
               Review(e, i, accepted, mapped, approved)
        PROVE  Left(e)
    BY <2>2 DEF Review
  <2>3. QED
    BY <1>5, <1>6, <1>7, <1>8, <1>9, <2>1, <2>2 DEF People
<1>11. QED
  BY <1>2, <1>3, <1>4, <1>10

\* A swap's proposal that maps something is in force at once.
LEMMA NewMapping ==
    ASSUME Typed, Numbered, NEW e \in Entities, NEW p, p.approved, p.mapped # {},
           p.id = issued[e] + 1, hand' = hand,
           proposals' = [proposals EXCEPT ![e] = Append(@, p)]
    PROVE  Mapping(e)' = OnColumns(p.made, p.mapped)
<1> DEFINE n == Len(proposals[e])
<1>1. proposals[e] \in Seq(Proposal) /\ n \in Nat /\ issued[e] \in Nat
      /\ proposals'[e] = Append(proposals[e], p)
      /\ hand[e] \in Hand
  BY DEF Typed, TypeOK
<1>2. /\ DOMAIN proposals'[e] = 1..(n + 1) /\ DOMAIN proposals[e] = 1..n
      /\ proposals'[e][n + 1] = p
      /\ \A i \in 1..n : proposals'[e][i] = proposals[e][i]
  BY <1>1
<1>3. \A i \in 1..n : proposals[e][i].id \in Nat /\ proposals[e][i].id =< issued[e]
  <2>1. \A i \in 1..n : proposals[e][i] \in Proposal
    BY <1>1
  <2>2. QED
    BY <1>2, <2>1 DEF Proposal, Numbered
<1>4. hand[e].at # n + 1
  <2>1. hand[e].op = "propose" => hand[e].at \in 1..n
    BY <1>2 DEF Numbered
  <2>2. hand[e].op # "propose" => hand[e].at = 0
    BY DEF Numbered
  <2>3. QED
    BY <1>1, <2>1, <2>2
<1>5. n + 1 \in Candidates(e)' /\ Candidates(e)' \subseteq 1..(n + 1)
  BY <1>1, <1>2, <1>4 DEF Candidates, Approved
<1> HIDE DEF n
<1>6. \A i \in Candidates(e)' : proposals'[e][i].id =< issued[e] + 1
                                /\ (i # n + 1 => proposals'[e][i].id < issued[e] + 1)
  <2> SUFFICES ASSUME NEW i \in Candidates(e)'
               PROVE  proposals'[e][i].id =< issued[e] + 1
                      /\ (i # n + 1 => proposals'[e][i].id < issued[e] + 1)
    OBVIOUS
  <2>1. CASE i = n + 1
    BY <1>1, <1>2, <2>1
  <2>2. CASE i # n + 1
    <3>1. i \in 1..n
      BY <1>1, <1>5, <2>2
    <3>2. QED
      BY <1>1, <1>2, <1>3, <3>1
  <2>3. QED
    BY <2>1, <2>2
<1>7. \A j \in Candidates(e)' : proposals'[e][j].id =< proposals'[e][n + 1].id
  BY <1>2, <1>6
<1>8. /\ InForce(e)' \in Candidates(e)'
      /\ \A j \in Candidates(e)' : proposals'[e][j].id =< proposals'[e][InForce(e)'].id
  BY <1>5, <1>7 DEF InForce
<1>9. InForce(e)' = n + 1
  <2>1. issued[e] + 1 =< proposals'[e][InForce(e)'].id
    BY <1>2, <1>5, <1>8
  <2>2. SUFFICES ASSUME InForce(e)' # n + 1 PROVE FALSE
    OBVIOUS
  <2>3. proposals'[e][InForce(e)'].id < issued[e] + 1
    BY <1>6, <1>8, <2>2
  <2>4. InForce(e)' \in 1..n
    BY <1>1, <1>5, <1>8, <2>2
  <2>5. proposals'[e][InForce(e)'].id \in Nat
    BY <1>2, <1>3, <2>4
  <2>6. ASSUME NEW a \in Nat, NEW b \in Nat, b + 1 =< a, a < b + 1 PROVE FALSE
    BY <2>6
  <2>7. QED
    BY <1>1, <2>1, <2>3, <2>5, <2>6
<1>10. QED
  BY <1>2, <1>5, <1>9 DEF Mapping

-----------------------------------------------------------------------------
(* Documents and fingerprints *)

\* A step after which every entity has the mapping, the document, the fingerprint and
\* the swaps under way that it had.
LEMMA Quiet ==
    ASSUME Persisted, Agreed, UNCHANGED <<docs, baseline, astray>>,
           \A e \in Entities : Mapping(e)' = Mapping(e),
           \A s \in Sessions, e \in Entities : HasPersisted(s, e)' <=> HasPersisted(s, e),
           \A s \in Sessions, e \in Entities :
              HasPersisted(s, e) => session'[s].new[e] = session[s].new[e]
    PROVE  (Persisted /\ Agreed)'
<1>1. Persisted'
  BY DEF Persisted
<1>2. \A e \in Entities : Held(e)' <=> Held(e)
  BY DEF Held
<1>3. \A e \in Entities, part \in {"contract", "fingerprint"} :
         Straight(e, part)' <=> Straight(e, part)
  BY <1>2 DEF Straight
<1>4. \A e \in Entities : /\ OnContract(e)' <=> OnContract(e)
                          /\ OnFingerprint(e)' <=> OnFingerprint(e)
  BY DEF OnContract, OnFingerprint
<1>5. Agreed'
  BY <1>3, <1>4 DEF Agreed
<1>6. QED
  BY <1>1, <1>5

\* What people leave at odds is flagged.
LEMMA PeopleAgree ==
    ASSUME SwapInv, NEW e \in Entities, People(e)
    PROVE  (Persisted /\ Agreed)'
<1>1. Typed /\ Stages /\ Numbered /\ Persisted /\ Agreed
  BY DEF SwapInv
<1>2. session' = session /\ \A s \in Sessions, x \in Entities :
                               /\ HasPersisted(s, x)' <=> HasPersisted(s, x)
                               /\ session'[s].new[x] = session[s].new[x]
  <2>1. session' = session
    BY <1>1, PeopleType
  <2>2. QED
    BY <2>1 DEF HasPersisted
<1>3. \A x \in Entities : Held(x)' <=> Held(x)
  BY <1>2 DEF Held
<1>4. /\ docs' = docs
      /\ \A x \in Entities : x # e => Mapping(x)' = Mapping(x) /\ baseline'[x] = baseline[x]
      /\ \/ UNCHANGED <<astray, baseline>> /\ Mapping(e)' = Mapping(e)
         \/ Left(e)
  BY <1>1, PeopleMapping
<1>5. CASE UNCHANGED <<astray, baseline>> /\ Mapping(e)' = Mapping(e)
  BY <1>1, <1>2, <1>4, <1>5, Quiet
<1>6. CASE Left(e)
  <2> DEFINE changed == Mapping(e)' # Mapping(e)
             misfit  == baseline'[e] = Missing \/ ~Within(Mapping(e)', baseline'[e])
  <2>1. /\ Held(e) => astray' = astray \cup (IF changed THEN Both(e) ELSE {})
        /\ ~Held(e) => astray' = (astray \ {<<e, "fingerprint">>})
                          \cup (IF misfit THEN {<<e, "fingerprint">>} ELSE {})
                          \cup (IF changed /\ docs[e] # <<>> THEN {<<e, "contract">>} ELSE {})
    BY <1>6 DEF Left
  <2> HIDE DEF changed, misfit
  <2>2. ASSUME NEW x \in Entities, x # e, NEW part
        PROVE  <<x, part>> \in astray' <=> <<x, part>> \in astray
    BY <2>1, <2>2 DEF Both
  <2>3. ASSUME NEW part \in {"contract", "fingerprint"}, Held(e), <<e, part>> \notin astray'
        PROVE  <<e, part>> \notin astray /\ Mapping(e)' = Mapping(e)
    BY <2>1, <2>3 DEF Both, changed
  <2>4. ASSUME NEW s \in Sessions, NEW x \in Entities, NEW part \in {"contract", "fingerprint"},
               HasPersisted(s, x)', <<x, part>> \notin astray'
        PROVE  Within(Mapping(x)', session'[s].new[x])
    <3>1. HasPersisted(s, x) /\ session'[s].new[x] = session[s].new[x]
      BY <1>2, <2>4
    <3>2. <<x, part>> \notin astray /\ Mapping(x)' = Mapping(x)
      BY <1>4, <2>2, <2>3, <2>4, <3>1 DEF Held
    <3>3. QED
      BY <1>1, <3>1, <3>2 DEF Persisted
  <2>5. Persisted'
    BY <2>4 DEF Persisted
  <2>6. ASSUME NEW x \in Entities, x # e
        PROVE  /\ Straight(x, "contract")' => OnContract(x)'
               /\ Straight(x, "fingerprint")' => OnFingerprint(x)'
    <3>1. \A part \in {"contract", "fingerprint"} : Straight(x, part)' => Straight(x, part)
      BY <1>3, <2>2, <2>6 DEF Straight
    <3>2. Mapping(x)' = Mapping(x) /\ baseline'[x] = baseline[x] /\ docs' = docs
      BY <1>4, <2>6
    <3>3. QED
      BY <1>1, <3>1, <3>2 DEF Agreed, OnContract, OnFingerprint
  <2>7. ASSUME Straight(e, "contract")' PROVE OnContract(e)'
    <3>1. ~Held(e) /\ <<e, "contract">> \notin astray'
      BY <1>3, <2>7 DEF Straight
    <3>2. <<e, "contract">> \notin astray /\ (docs[e] # <<>> => Mapping(e)' = Mapping(e))
      BY <2>1, <3>1 DEF changed
    <3>3. OnContract(e)
      BY <1>1, <3>1, <3>2 DEF Agreed, Straight
    <3>4. QED
      BY <1>4, <3>2, <3>3 DEF OnContract
  <2>8. ASSUME Straight(e, "fingerprint")' PROVE OnFingerprint(e)'
    <3>1. ~Held(e) /\ <<e, "fingerprint">> \notin astray'
      BY <1>3, <2>8 DEF Straight
    <3>2. ~misfit
      BY <2>1, <3>1
    <3>3. QED
      BY <3>2 DEF OnFingerprint, misfit
  <2>9. QED
    BY <2>5, <2>6, <2>7, <2>8 DEF Agreed
<1>7. QED
  BY <1>4, <1>5, <1>6

\* A swap's mapping is in force or flagged, and its entity held, until it captures.
LEMMA PersistAgree ==
    ASSUME SwapInv, NEW s \in Sessions, NEW C, SwapPersist(s, C)
    PROVE  (Persisted /\ Agreed)'
<1>1. Typed /\ Stages /\ Numbered /\ Persisted /\ Agreed
  BY DEF SwapInv
<1>2. /\ session \in [Sessions -> Session] /\ session[s] \in Session
      /\ session[s].phase = "persist"
      /\ \A x \in Sessions : session[x].done \subseteq Entities \ session[x].todo
  BY <1>1 DEF SwapPersist, Typed, TypeOK
<1>3. PICK e \in Entities : /\ e = FirstOf(session[s].todo)
                            /\ e \in session[s].todo /\ e \notin session[s].done
  <2>1. session[s].todo \in SUBSET Entities /\ session[s].todo # {}
    BY <1>1, <1>2 DEF Session, Stages, StageOf
  <2>2. QED
    BY <1>2, <2>1, FirstOfIn
<1> DEFINE p == [id |-> issued[e] + 1, made |-> OnColumns(session[s].new[e], C),
                 accepted |-> C, mapped |-> C, approved |-> TRUE]
           alone == C # {} /\ \A x \in Sessions : ~HasPersisted(x, e)
<1>4. /\ C \subseteq DOMAIN session[s].new[e]
      /\ proposals' = [proposals EXCEPT ![e] = Append(@, p)]
      /\ session' = [session EXCEPT ![s].phase = "deploy", ![s].at = issued[e] + 1]
      /\ astray' = IF alone THEN astray \ Both(e) ELSE astray \cup Both(e)
      /\ docs' = docs /\ baseline' = baseline /\ hand' = hand
  BY <1>3 DEF SwapPersist
<1>5. /\ session'[s].new = session[s].new /\ session'[s].todo = session[s].todo
      /\ session'[s].done = session[s].done /\ session'[s].phase = "deploy"
      /\ \A x \in Sessions : x # s => session'[x] = session[x]
  BY <1>2, <1>4 DEF Session
<1>6. /\ HasPersisted(s, e)' /\ Held(e)'
      /\ \A x \in Sessions, y \in Entities :
            x # s \/ y # e => (HasPersisted(x, y)' <=> HasPersisted(x, y))
  <2>1. \A y \in Entities : HasPersisted(s, y)' <=> y \in session[s].done \/ y = e
    BY <1>3, <1>5 DEF HasPersisted
  <2>2. \A y \in Entities : HasPersisted(s, y) <=> y \in session[s].done
    BY <1>2 DEF HasPersisted
  <2>3. \A x \in Sessions, y \in Entities : x # s => (HasPersisted(x, y)' <=> HasPersisted(x, y))
    BY <1>5 DEF HasPersisted
  <2>4. QED
    BY <1>3, <2>1, <2>2, <2>3 DEF Held
<1>7. \A x \in Entities : x # e => (Held(x)' <=> Held(x))
  BY <1>6 DEF Held
<1>8. C # {} => Mapping(e)' = OnColumns(session[s].new[e], C)
  <2>1. p.approved /\ p.mapped = C /\ p.id = issued[e] + 1
        /\ p.made = OnColumns(session[s].new[e], C)
    OBVIOUS
  <2> HIDE DEF p
  <2>2. C # {} => Mapping(e)' = OnColumns(p.made, p.mapped)
    BY <1>1, <1>3, <1>4, <2>1, NewMapping
  <2>3. OnColumns(OnColumns(session[s].new[e], C), C) = OnColumns(session[s].new[e], C)
    BY DEF OnColumns
  <2>4. QED
    BY <2>1, <2>2, <2>3
<1> HIDE DEF p, alone
<1>9. \A x \in Entities : x # e => Mapping(x)' = Mapping(x)
  <2>1. \A x \in Entities : x # e => proposals'[x] = proposals[x]
    BY <1>1, <1>4 DEF Typed, TypeOK
  <2>2. QED
    BY <1>1, <1>4, <2>1, Untouched
<1>10. \A x \in Entities, part \in {"contract", "fingerprint"} :
         x # e => (<<x, part>> \in astray' <=> <<x, part>> \in astray)
  BY <1>4 DEF Both
<1>11. ASSUME NEW x \in Sessions, NEW y \in Entities, NEW part \in {"contract", "fingerprint"},
              HasPersisted(x, y)', <<y, part>> \notin astray'
       PROVE  Within(Mapping(y)', session'[x].new[y])
  <2>1. session'[x].new = session[x].new
    BY <1>5
  <2>2. CASE y # e
    BY <1>1, <1>6, <1>9, <1>10, <1>11, <2>1, <2>2 DEF Persisted
  <2>3. CASE y = e
    <3>1. <<e, part>> \in Both(e)
      BY DEF Both
    <3>2. alone
      BY <1>4, <1>11, <2>3, <3>1
    <3>3. x = s
      BY <1>6, <1>11, <2>3, <3>2 DEF alone
    <3>4. Mapping(e)' = OnColumns(session[s].new[e], C)
      BY <1>8, <3>2 DEF alone
    <3>5. QED
      BY <1>4, <2>1, <2>3, <3>3, <3>4, PartOf
  <2>4. QED
    BY <2>2, <2>3
<1>12. ASSUME NEW x \in Entities
       PROVE  /\ Straight(x, "contract")' => OnContract(x)'
              /\ Straight(x, "fingerprint")' => OnFingerprint(x)'
  <2>1. CASE x = e
    BY <1>6, <2>1 DEF Straight
  <2>2. CASE x # e
    <3>1. \A part \in {"contract", "fingerprint"} : Straight(x, part)' => Straight(x, part)
      BY <1>7, <1>10, <2>2 DEF Straight
    <3>2. QED
      BY <1>1, <1>4, <1>9, <2>2, <3>1 DEF Agreed, OnContract, OnFingerprint
  <2>3. QED
    BY <2>1, <2>2
<1>13. Persisted'
  BY <1>11 DEF Persisted
<1>14. Agreed'
  BY <1>12 DEF Agreed
<1>15. QED
  BY <1>13, <1>14

\* A swap that ends without a capture flags what it has mapped.
LEMMA AbandonAgree ==
    ASSUME SwapInv, NEW s \in Sessions, DeployFails(s) \/ Crash(s)
    PROVE  (Persisted /\ Agreed)'
<1>1. Typed /\ Stages /\ Numbered /\ Persisted /\ Agreed
  BY DEF SwapInv
<1>2. /\ session' = [session EXCEPT ![s] = Idle] /\ astray' = astray \cup Abandoned(s)
      /\ UNCHANGED <<live, rowVars, hand>>
  BY DEF DeployFails, Crash
<1>3. session \in [Sessions -> Session] /\ session'[s] = Idle
      /\ \A x \in Sessions : x # s => session'[x] = session[x]
  BY <1>1, <1>2 DEF Typed
<1>4. \A x \in Sessions, e \in Entities :
         HasPersisted(x, e)' <=> x # s /\ HasPersisted(x, e)
  BY <1>3 DEF HasPersisted, Idle
<1>5. \A e \in Entities : Mapping(e)' = Mapping(e)
  BY <1>1, <1>2, Untouched DEF rowVars
<1>6. ASSUME NEW e \in Entities, NEW part \in {"contract", "fingerprint"}, Straight(e, part)'
      PROVE  Straight(e, part)
  <2>1. <<e, part>> \notin astray /\ <<e, part>> \notin Abandoned(s)
    BY <1>2, <1>6 DEF Straight
  <2>2. ~HasPersisted(s, e)
    BY <2>1, AbandonedType DEF Both
  <2>3. QED
    BY <1>4, <1>6, <2>1, <2>2 DEF Straight, Held
<1>7. Agreed'
  BY <1>1, <1>2, <1>5, <1>6 DEF Agreed, OnContract, OnFingerprint, rowVars
<1>8. Persisted'
  BY <1>1, <1>2, <1>3, <1>4, <1>5 DEF Persisted
<1>9. QED
  BY <1>7, <1>8

\* A capture puts the document and the fingerprint on the table the mapping is of.
LEMMA CaptureAgree ==
    ASSUME SwapInv, NEW s \in Sessions, SwapCapture(s)
    PROVE  (Persisted /\ Agreed)'
<1> DEFINE new == session[s].new
           done == session[s].done
<1>1. Typed /\ Stages /\ Numbered /\ Persisted /\ Agreed
  BY DEF SwapInv
<1>2. /\ session[s].phase = "capture" /\ session' = [session EXCEPT ![s] = Idle]
      /\ docs' = [e \in Entities |-> IF e \in done THEN Captured(docs[e], new[e]) ELSE docs[e]]
      /\ baseline' = [e \in Entities |->
            IF e \in done /\ live[e] # Missing THEN live[e] ELSE baseline[e]]
      /\ astray' = astray \cup Amiss(s)
      /\ UNCHANGED <<proposals, hand>>
  BY DEF SwapCapture
<1>3. /\ session \in [Sessions -> Session] /\ session[s] \in Session /\ session'[s] = Idle
      /\ \A x \in Sessions : x # s => session'[x] = session[x]
  BY <1>1, <1>2 DEF Typed
<1>4. \A e \in done : new[e] \in Structures \ {Missing}
  BY <1>1, <1>3 DEF Session, Stages, StageOf
<1>5. /\ \A e \in Entities : HasPersisted(s, e) <=> e \in done
      /\ \A x \in Sessions, e \in Entities :
            HasPersisted(x, e)' <=> x # s /\ HasPersisted(x, e)
  BY <1>2, <1>3 DEF HasPersisted, Idle
<1> HIDE DEF done, new
<1>6. \A e \in Entities : Mapping(e)' = Mapping(e)
  BY <1>1, <1>2, Untouched
<1>7. Persisted'
  <2>1. \A e \in Entities, part \in {"contract", "fingerprint"} :
           <<e, part>> \notin astray' => <<e, part>> \notin astray
    BY <1>2
  <2>2. QED
    BY <1>1, <1>3, <1>5, <1>6, <2>1 DEF Persisted
<1>8. ASSUME NEW e \in Entities, e \notin done
      PROVE  /\ Straight(e, "contract")' => OnContract(e)'
             /\ Straight(e, "fingerprint")' => OnFingerprint(e)'
  <2>1. \A part \in {"contract", "fingerprint"} : Straight(e, part)' => Straight(e, part)
    BY <1>2, <1>5, <1>8 DEF Straight, Held
  <2>2. docs'[e] = docs[e] /\ baseline'[e] = baseline[e]
    BY <1>2, <1>8
  <2>3. QED
    BY <1>1, <1>6, <2>1, <2>2 DEF Agreed, OnContract, OnFingerprint
<1>9. ASSUME NEW e \in Entities, e \in done, Straight(e, "contract")'
      PROVE  OnContract(e)'
  <2>1. <<e, "contract">> \notin astray /\ <<e, "contract">> \notin Amiss(s)
    BY <1>2, <1>9 DEF Straight
  <2>2. ~Superseded(docs[e], new[e])
    BY <1>9, <2>1 DEF Amiss, done, new
  <2>3. docs[e] \in Seq(Structures \ {Missing})
    BY <1>1 DEF Typed, TypeOK
  <2>4. docs'[e] = Captured(docs[e], new[e])
    BY <1>2, <1>9
  <2>5. docs'[e][Len(docs'[e])] = new[e]
    BY <1>4, <1>9, <2>2, <2>3, <2>4, CapturedIsLast
  <2>6. Within(Mapping(e), new[e])
    BY <1>1, <1>5, <1>9, <2>1 DEF Persisted, new
  <2>7. QED
    BY <1>6, <2>5, <2>6 DEF OnContract
<1>10. ASSUME NEW e \in Entities, e \in done, Straight(e, "fingerprint")'
       PROVE  OnFingerprint(e)'
  <2>1. <<e, "fingerprint">> \notin astray /\ <<e, "fingerprint">> \notin Amiss(s)
    BY <1>2, <1>10 DEF Straight
  <2>2. live[e] = new[e]
    BY <1>10, <2>1 DEF Amiss, done, new
  <2>3. baseline'[e] = new[e] /\ new[e] # Missing
    BY <1>2, <1>4, <1>10, <2>2
  <2>4. Within(Mapping(e), new[e])
    BY <1>1, <1>5, <1>10, <2>1 DEF Persisted, new
  <2>5. QED
    BY <1>6, <2>3, <2>4 DEF OnFingerprint
<1>11. Agreed'
  BY <1>8, <1>9, <1>10 DEF Agreed
<1>12. QED
  BY <1>7, <1>11

\* Every step keeps what a swap has committed in force, and documents and fingerprints
\* on their tables, or flags the entity.
LEMMA AgreedStep == SwapInv /\ [Next]_vars => (Persisted /\ Agreed)'
<1> SUFFICES ASSUME SwapInv, [Next]_vars PROVE (Persisted /\ Agreed)'
  OBVIOUS
<1>1. Typed /\ Stages /\ Numbered /\ Persisted /\ Agreed
  BY DEF SwapInv
<1>2. ASSUME UNCHANGED <<docs, proposals, baseline, hand, astray>>,
             \A s \in Sessions, e \in Entities :
                /\ HasPersisted(s, e)' <=> HasPersisted(s, e)
                /\ HasPersisted(s, e) => session'[s].new[e] = session[s].new[e]
      PROVE  (Persisted /\ Agreed)'
  <2>1. \A e \in Entities : Mapping(e)' = Mapping(e)
    BY <1>1, <1>2, Untouched
  <2>2. QED
    BY <1>1, <1>2, <2>1, Quiet
<1>3. ASSUME UNCHANGED <<docs, proposals, baseline, hand, astray, session>>
      PROVE  (Persisted /\ Agreed)'
  <2>1. \A s \in Sessions, e \in Entities : HasPersisted(s, e)' <=> HasPersisted(s, e)
    BY <1>3 DEF HasPersisted
  <2>2. QED
    BY <1>2, <1>3, <2>1
<1>4. ASSUME NEW e \in Entities, NEW t \in Structures, ChangeSource(e, t)
      PROVE  (Persisted /\ Agreed)'
  BY <1>3, <1>4 DEF ChangeSource, rowVars
<1>5. CASE Monitor
  BY <1>3, <1>5 DEF Monitor
<1>6. CASE UNCHANGED vars
  BY <1>3, <1>6 DEF vars, rowVars
<1>7. session \in [Sessions -> Session]
  BY <1>1 DEF Typed
<1>8. ASSUME NEW s \in Sessions, NEW r, session' = [session EXCEPT ![s] = r],
             UNCHANGED <<docs, proposals, baseline, hand, astray>>,
             session[s].phase \in {"idle", "read"}, r.phase # "deploy", r.done = {}
      PROVE  (Persisted /\ Agreed)'
  <2>1. session[s].done = {}
    BY <1>1, <1>8 DEF Stages, StageOf
  <2>2. session'[s] = r /\ \A x \in Sessions : x # s => session'[x] = session[x]
    BY <1>7, <1>8
  <2>3. \A e \in Entities : ~HasPersisted(s, e) /\ ~HasPersisted(s, e)'
    BY <1>8, <2>1, <2>2 DEF HasPersisted
  <2>4. \A x \in Sessions, e \in Entities : x # s => (HasPersisted(x, e)' <=> HasPersisted(x, e))
    BY <2>2 DEF HasPersisted
  <2>5. QED
    BY <1>2, <1>8, <2>2, <2>3, <2>4
<1>9. ASSUME NEW s \in Sessions, SwapDiscover(s) PROVE (Persisted /\ Agreed)'
  <2> DEFINE r == [session[s] EXCEPT !.phase = "read", !.new = live]
  <2>1. session' = [session EXCEPT ![s] = r]
    BY <1>7, <1>9 DEF SwapDiscover
  <2>2. session[s].done = {}
    BY <1>1, <1>9 DEF SwapDiscover, Stages, StageOf
  <2>3. session[s] \in Session
    BY <1>7
  <2>4. r.phase = "read" /\ r.done = {}
    BY <2>2, <2>3 DEF Session
  <2> HIDE DEF r
  <2>5. QED
    BY <1>8, <1>9, <2>1, <2>4 DEF SwapDiscover, rowVars
<1>10. ASSUME NEW s \in Sessions, NEW sure \in SUBSET Entities, NEW force \in BOOLEAN,
              SwapRead(s, sure, force)
       PROVE  (Persisted /\ Agreed)'
  <2>1. /\ session[s].phase = "read" /\ session[s] \in Session
        /\ UNCHANGED <<docs, proposals, baseline, hand, astray>>
    BY <1>7, <1>10 DEF SwapRead, rowVars
  <2>2. CASE session' = [session EXCEPT ![s] = Idle]
    <3>1. Idle.phase # "deploy" /\ Idle.done = {}
      BY DEF Idle
    <3>2. QED
      BY <1>8, <2>1, <2>2, <3>1
  <2>3. CASE session' = [session EXCEPT ![s] = [@ EXCEPT !.phase = "persist", !.todo = sure]]
    <3> DEFINE r == [session[s] EXCEPT !.phase = "persist", !.todo = sure]
    <3>1. session' = [session EXCEPT ![s] = r]
      BY <1>7, <2>3
    <3>2. session[s].done = {}
      BY <1>1, <2>1 DEF Stages, StageOf
    <3>3. r.phase = "persist" /\ r.done = {}
      BY <2>1, <3>2 DEF Session
    <3> HIDE DEF r
    <3>4. QED
      BY <1>8, <2>1, <3>1, <3>3
  <2>4. QED
    BY <1>10, <2>2, <2>3 DEF SwapRead
<1>11. ASSUME NEW s \in Sessions, SwapDeploy(s) PROVE (Persisted /\ Agreed)'
  <2> DEFINE e    == FirstOf(session[s].todo)
             rest == session[s].todo \ {e}
             r    == [session[s] EXCEPT !.todo = rest, !.done = @ \cup {e}, !.at = 0,
                                        !.phase = IF rest = {} THEN "capture" ELSE "persist"]
  <2>1. /\ session[s].phase = "deploy" /\ session[s] \in Session
        /\ session' = [session EXCEPT ![s] = r]
        /\ UNCHANGED <<docs, proposals, baseline, hand, astray>>
    BY <1>7, <1>11 DEF SwapDeploy
  <2>2. r.phase # "deploy" /\ r.done = session[s].done \cup {e} /\ r.new = session[s].new
    BY <2>1 DEF Session
  <2>3. \A x \in Entities : HasPersisted(s, x) <=> x \in session[s].done \/ x = e
    BY <2>1 DEF HasPersisted
  <2> HIDE DEF e, r
  <2>4. session'[s] = r /\ \A x \in Sessions : x # s => session'[x] = session[x]
    BY <1>7, <2>1
  <2>5. \A x \in Entities : HasPersisted(s, x)' <=> x \in session[s].done \/ x = e
    BY <2>2, <2>4 DEF HasPersisted
  <2>6. \A y \in Sessions, x \in Entities : y # s => (HasPersisted(y, x)' <=> HasPersisted(y, x))
    BY <2>4 DEF HasPersisted
  <2>7. QED
    BY <1>2, <2>1, <2>2, <2>3, <2>4, <2>5, <2>6
<1>12. ASSUME NEW s \in Sessions, Swap(s) PROVE (Persisted /\ Agreed)'
  BY <1>9, <1>10, <1>11, <1>12, PersistAgree, AbandonAgree, CaptureAgree DEF Swap
<1>13. QED
  BY <1>4, <1>5, <1>6, <1>12, PeopleAgree DEF Next

LEMMA Invariant == Spec => []SwapInv
<1>1. SwapInv /\ [Next]_vars => SwapInv'
  BY TypeStep, NumberedStep, AgreedStep DEF SwapInv
<1>2. QED
  BY <1>1, Initially, PTL DEF Spec

-----------------------------------------------------------------------------
(* The theorems *)

\* Every variable keeps its type, through every order of swaps, changes of the source,
\* operations of people and crashes.
THEOREM TypeCorrect == Spec => []TypeOK
<1>1. SwapInv => TypeOK
  BY DEF SwapInv, Typed
<1>2. QED
  BY <1>1, Invariant, PTL

\* For any number of sessions, entities and operations of people: what a swap would
\* leave alone is still mapped onto columns that are there, on the conditions
\* LeftAloneStillMapped states (affected_source_entities against load_entity_mappings).
THEOREM LeftAloneIsMapped == Spec => []LeftAloneStillMapped
<1>1. ASSUME SwapInv, NEW e \in Entities, Straight(e, "contract"),
             docs[e] # <<>> \/ Candidates(e) = {} \/ Latest(e) = InForce(e),
             ~Affected(e, live[e])
      PROVE  /\ DOMAIN Mapping(e) \subseteq DOMAIN live[e]
             /\ docs[e] # <<>> => Within(Mapping(e), live[e])
  <2>1. Typed /\ Numbered /\ OnContract(e)
    BY <1>1 DEF SwapInv, Agreed
  <2>2. Within(Contract(e, live[e]), live[e])
    BY <1>1, NotDiffers DEF Affected
  <2>3. CASE docs[e] # <<>>
    <3>1. Within(Mapping(e), Contract(e, live[e]))
      BY <2>1, <2>3 DEF OnContract, Contract
    <3>2. QED
      BY <2>2, <3>1 DEF Within
  <2>4. CASE docs[e] = <<>> /\ Candidates(e) = {}
    BY <2>4 DEF Mapping, Missing
  <2>5. CASE docs[e] = <<>> /\ Candidates(e) # {}
    <3>1. Latest(e) = InForce(e) /\ InForce(e) \in Candidates(e)
      BY <1>1, <2>1, <2>5, InForceIn
    <3>2. InForce(e) \in Approved(e) /\ InForce(e) \in DOMAIN proposals[e]
      BY <3>1 DEF Candidates, Approved
    <3>3. AcceptedColumns(e) = proposals[e][InForce(e)].accepted
      BY <3>1, <3>2 DEF AcceptedColumns
    <3>4. DOMAIN Mapping(e) = proposals[e][InForce(e)].mapped
      BY <2>5 DEF Mapping, OnColumns
    <3>5. proposals[e][InForce(e)].mapped \subseteq proposals[e][InForce(e)].accepted
      BY <2>1, <3>2 DEF Numbered
    <3>6. DOMAIN Contract(e, live[e]) = AcceptedColumns(e)
      BY <2>5 DEF Contract
    <3>7. QED
      BY <2>2, <2>5, <3>3, <3>4, <3>5, <3>6 DEF Within
  <2>6. QED
    BY <2>3, <2>4, <2>5
<1>2. SwapInv => LeftAloneStillMapped
  BY <1>1 DEF LeftAloneStillMapped
<1>3. QED
  BY <1>2, Invariant, PTL

\* For any number of sessions, entities and operations of people: where the monitor
\* sees no drift the mapping in force is of the table as it is, on the conditions
\* NoDriftUnseen states (_default_persist_source, monitor).
THEOREM DriftIsSeen == Spec => []NoDriftUnseen
<1>1. ASSUME SwapInv, NEW e \in Entities, Straight(e, "fingerprint"), ~Drifted(e)
      PROVE  Within(Mapping(e), live[e])
  BY <1>1 DEF SwapInv, Agreed, OnFingerprint, Drifted
<1>2. SwapInv => NoDriftUnseen
  BY <1>1 DEF NoDriftUnseen
<1>3. QED
  BY <1>2, Invariant, PTL
=============================================================================
