---------------------------- MODULE EventStream ----------------------------
(***************************************************************************)
(* The event log of the jobs and the SSE streams that tail it.  JobContext *)
(* emits rows of admin_job_event, whose ids come from a sequence when the  *)
(* INSERT runs and show when it commits; a stream polls for ids above the  *)
(* last it sent; a client that lost its connection resumes with the last   *)
(* id it received.                                                         *)
(***************************************************************************)
EXTENDS Naturals, Sequences, FiniteSets

CONSTANTS
    MaxEvents,      \* bound: rows ever inserted
    MaxEmitters,    \* threads inside emit at the same time
    Limit,          \* rows one poll returns at most
    MaxDrops,       \* bound: connections that break
    Routes          \* "job": /jobs/{id}/events; "tail": /events

ASSUME StreamAssumption ==
    /\ MaxEvents \in Nat
    /\ MaxEmitters \in Nat \ {0}
    /\ Limit \in Nat \ {0}
    /\ MaxDrops \in Nat
    /\ Routes \subseteq {"job", "tail"}

VARIABLES
    nextId,     \* the last id the sequence handed out
    open,       \* ids inserted and not yet committed
    log,        \* committed ids
    conn,       \* the client's connection: "new", "up" or "down"
    route,      \* the stream it asked for
    lastId,     \* last_id of the stream that serves it
    batch,      \* ids of the last poll that are not sent yet
    start,      \* where the client's first stream started
    received,   \* ids the client received, in order
    drops

streamVars == <<nextId, open, log, conn, route, lastId, batch, start, received, drops>>
logVars == <<nextId, open, log>>

Ids == 1..MaxEvents

StreamTypeOK ==
    /\ nextId \in 0..MaxEvents
    /\ open \subseteq Ids
    /\ log \subseteq Ids
    /\ conn \in {"new", "up", "down"}
    /\ route \in {"none", "job", "tail"}
    /\ lastId \in 0..MaxEvents
    /\ batch \subseteq Ids
    /\ start \in 0..MaxEvents
    /\ received \in Seq(Ids)
    /\ drops \in 0..MaxDrops

StreamInit ==
    /\ nextId = 0 /\ open = {} /\ log = {}
    /\ conn = "new" /\ route = "none" /\ lastId = 0 /\ batch = {} /\ start = 0 /\ received = <<>>
    /\ drops = 0

-----------------------------------------------------------------------------
(* JobContext.emit *)

\* The INSERT draws the next id.
Emit ==
    /\ nextId < MaxEvents
    /\ Cardinality(open) < MaxEmitters
    /\ nextId' = nextId + 1
    /\ open' = open \cup {nextId + 1}
    /\ UNCHANGED <<log, conn, route, lastId, batch, start, received, drops>>

\* conn.commit(): the row becomes visible, in any order of the ids.
CommitEmit(i) ==
    /\ i \in open
    /\ open' = open \ {i}
    /\ log' = log \cup {i}
    /\ UNCHANGED <<nextId, conn, route, lastId, batch, start, received, drops>>

\* The transaction fails; its id is never used again.
AbortEmit(i) ==
    /\ i \in open
    /\ open' = open \ {i}
    /\ UNCHANGED <<nextId, log, conn, route, lastId, batch, start, received, drops>>

-----------------------------------------------------------------------------
(* The streams *)

Newest(S) == CHOOSE i \in S : \A j \in S : j =< i

\* latest_event_id
LatestId == IF log = {} THEN 0 ELSE Newest(log)

\* Where a stream without a Last-Event-ID starts: the whole history of one job,
\* or the live tail.
StartAfter(r) == IF r = "job" THEN 0 ELSE LatestId

Connect(r) ==
    /\ conn = "new"
    /\ conn' = "up"
    /\ route' = r
    /\ lastId' = StartAfter(r)
    /\ start' = StartAfter(r)
    /\ UNCHANGED <<logVars, batch, received, drops>>

\* Mutation: the header is ignored.
Reconnect_Tail ==
    /\ conn = "down"
    /\ conn' = "up"
    /\ lastId' = LatestId
    /\ UNCHANGED <<logVars, route, batch, start, received, drops>>

\* A client that received something sends its last id.
Reconnect ==
    /\ conn = "down"
    /\ conn' = "up"
    /\ lastId' = IF received = <<>> THEN StartAfter(route) ELSE received[Len(received)]
    /\ UNCHANGED <<logVars, route, batch, start, received, drops>>

\* Mutation: rows with the last id are selected again.
After_Inclusive(id) == {i \in log : i >= id}

After(id) == {i \in log : i > id}

\* job_events_after: the rows above last_id, by id, at most Limit of them.
Page(id) == {i \in After(id) : Cardinality({j \in After(id) : j < i}) < Limit}

Poll ==
    /\ conn = "up"
    /\ batch = {}
    /\ batch' = Page(lastId)
    /\ batch' # {}
    /\ UNCHANGED <<logVars, conn, route, lastId, start, received, drops>>

\* One row goes out.
Send ==
    /\ conn = "up"
    /\ \E i \in batch :
          /\ \A j \in batch : i =< j
          /\ lastId' = i
          /\ received' = Append(received, i)
          /\ batch' = batch \ {i}
    /\ UNCHANGED <<logVars, conn, route, start, drops>>

\* The connection breaks, with what was on its way.
Drop ==
    /\ drops < MaxDrops
    /\ conn = "up"
    /\ conn' = "down"
    /\ drops' = drops + 1
    /\ batch' = {}
    /\ UNCHANGED <<logVars, route, lastId, start, received>>

-----------------------------------------------------------------------------

StreamNext ==
    \/ Emit
    \/ \E i \in Ids : CommitEmit(i) \/ AbortEmit(i)
    \/ \E r \in Routes : Connect(r)
    \/ Reconnect \/ Poll \/ Send \/ Drop

StreamSpec == StreamInit /\ [][StreamNext]_streamVars

\* The stream polls and sends for ever, and an EventSource reconnects by itself.
StreamFairness ==
    /\ WF_streamVars(Reconnect)
    /\ WF_streamVars(Poll)
    /\ WF_streamVars(Send)

FairStreamSpec == StreamSpec /\ StreamFairness

-----------------------------------------------------------------------------
(* Properties *)

\* Whatever breaks, the client gets no event twice and none after a later one
\* (_event_stream, _resume_from).
InOrder == \A m, n \in DOMAIN received : m < n => received[m] < received[n]

\* The id up to which rows have been asked for.
Cursor == IF batch = {} THEN lastId ELSE Newest(batch)

\* An event that is visible while the cursor is below its id arrives, however
\* many threads emit and however often the connection breaks; only a live tail
\* that has received nothing yet forgets its place (_event_stream, _resume_from,
\* job_events_after).
Arrives ==
    \A i \in Ids :
        (i \in log /\ conn = "up" /\ Cursor < i /\ (route = "job" \/ received # <<>>))
            ~> \E n \in DOMAIN received : received[n] = i
=============================================================================
