----------------------------- MODULE AgentChat ------------------------------
(***************************************************************************)
(* The chat assistant: a request loads its conversation, answers, asks for *)
(* a confirmation or runs a tool, appends the turn to the conversation and *)
(* streams it, writing the audit row as it does.  The work of a request is *)
(* several transactions; the conversation may change, or be deleted,       *)
(* between any two of them.                                                *)
(*                                                                         *)
(* A turn is numbered when its request arrives.  A call is known by the    *)
(* turn that asked to have it confirmed, or by its own turn where no turn  *)
(* of its conversation did.  What a message says is left out; what the     *)
(* loop reads back from it is not.                                         *)
(***************************************************************************)
EXTENDS Integers, Sequences, FiniteSets

CONSTANTS
    Requests,       \* connections that can carry a chat request at one time
    Users,
    Conversations,  \* the ids gen_random_uuid will give
    MaxMessages,    \* MAX_MESSAGES
    KeepRecent,     \* KEEP_RECENT_MESSAGES
    Retention,      \* MAX_CONVERSATIONS_PER_USER
    MaxTurns,       \* bound: turns of all conversations
    MaxDrops,       \* bound: streams whose client leaves
    MaxAborts,      \* bound: turns ended by an unexpected error
    MaxDeletes      \* bound: uses of the delete routes

ASSUME ChatAssumption ==
    /\ MaxMessages \in Nat \ {0}
    /\ KeepRecent \in Nat \ {0}
    /\ Retention \in Nat \ {0}
    /\ MaxTurns \in Nat
    /\ MaxDrops \in Nat
    /\ MaxAborts \in Nat
    /\ MaxDeletes \in Nat

NoUser == "nobody"
ASSUME NoUserAssumption == NoUser \notin Users \cup Conversations

Turns    == 1..MaxTurns
Autonomy == {"auto_safe", "propose_only", "destructive"}

VARIABLES
    \* committed: the conversations, least recently updated first in recency
    owner, messages, recency,
    \* what tools did and what was audited
    runs, audited,
    \* each request
    pc, user, conv, turn, seen, reply, gone,
    \* history: the conversation of each turn, the tool it asked to have confirmed,
    \* and the conversations whose turns overlapped, or one of whose turns broke off
    turnConv, asked, disturbed,
    \* how much of each bound is used
    turns, drops, aborts, deletes

rowVars   == <<owner, messages, recency>>
reqVars   == <<user, conv, turn>>
histVars  == <<turnConv, asked, disturbed>>
boundVars == <<turns, drops, aborts, deletes>>
vars == <<rowVars, runs, audited, pc, reqVars, seen, reply, gone, histVars, boundVars>>

-----------------------------------------------------------------------------
(* The state *)

\* "ask" carries requires_confirmation, "result" carries tool_results, "failed"
\* a tool call with neither, "text" no tool call.  An "ask" names its tool; its
\* turn names the call.
Kinds   == {"user", "text", "ask", "failed", "result", "summary"}
Message == [kind : Kinds, turn : 0..MaxTurns, tool : Autonomy \cup {"none"}]
\* how: without confirmation, by one the request brings, or by a typed one.
Run     == [turn : Turns, call : Turns, tool : Autonomy, how : {"auto", "button", "word"}]

Msg(k, t, tool) == [kind |-> k, turn |-> t, tool |-> tool]
Summary == Msg("summary", 0, "none")

TypeOK ==
    /\ owner \in [Conversations -> Users \cup {NoUser}]
    /\ messages \in [Conversations -> Seq(Message)]
    /\ recency \in Seq(Conversations)
    /\ runs \subseteq Run
    /\ audited \subseteq Turns
    /\ pc \in [Requests -> {"idle", "tier", "loaded", "append", "update", "stream"}]
    /\ user \in [Requests -> Users \cup {NoUser}]
    /\ conv \in [Requests -> Conversations \cup {NoUser}]
    /\ turn \in [Requests -> 0..MaxTurns]
    /\ seen \in [Requests -> Seq(Message)]
    /\ reply \in [Requests -> Message]
    /\ gone \in [Requests -> BOOLEAN]
    /\ turnConv \in [Turns -> Conversations \cup {NoUser}]
    /\ asked \in [Turns -> Autonomy \cup {"none"}]
    /\ disturbed \subseteq Conversations
    /\ turns \in 0..MaxTurns
    /\ drops \in 0..MaxDrops
    /\ aborts \in 0..MaxAborts
    /\ deletes \in 0..MaxDeletes

Init ==
    /\ owner = [c \in Conversations |-> NoUser]
    /\ messages = [c \in Conversations |-> <<>>]
    /\ recency = <<>>
    /\ runs = {}
    /\ audited = {}
    /\ pc = [r \in Requests |-> "idle"]
    /\ user = [r \in Requests |-> NoUser]
    /\ conv = [r \in Requests |-> NoUser]
    /\ turn = [r \in Requests |-> 0]
    /\ seen = [r \in Requests |-> <<>>]
    /\ reply = [r \in Requests |-> Summary]
    /\ gone = [r \in Requests |-> FALSE]
    /\ turnConv = [t \in Turns |-> NoUser]
    /\ asked = [t \in Turns |-> "none"]
    /\ disturbed = {}
    /\ turns = 0 /\ drops = 0 /\ aborts = 0 /\ deletes = 0

Live == {c \in Conversations : owner[c] # NoUser}

\* updated_at = now()
Touch(order, c) == Append(SelectSeq(order, LAMBDA d : d # c), c)

\* The rows own and order describe, those outside S deleted.
Keep(own, order, S) ==
    /\ owner' = [c \in Conversations |-> IF c \in S THEN own[c] ELSE NoUser]
    /\ messages' = [c \in Conversations |-> IF c \in S THEN messages[c] ELSE <<>>]
    /\ recency' = SelectSeq(order, LAMBDA c : c \in S)

\* The request is over.
End(r) ==
    /\ pc' = [pc EXCEPT ![r] = "idle"]
    /\ user' = [user EXCEPT ![r] = NoUser]
    /\ conv' = [conv EXCEPT ![r] = NoUser]
    /\ turn' = [turn EXCEPT ![r] = 0]
    /\ seen' = [seen EXCEPT ![r] = <<>>]
    /\ reply' = [reply EXCEPT ![r] = Summary]
    /\ gone' = [gone EXCEPT ![r] = FALSE]

-----------------------------------------------------------------------------
(* A turn begins *)

Start(r, u, c, phase) ==
    /\ pc[r] = "idle"
    /\ turns < MaxTurns
    /\ turns' = turns + 1
    /\ pc' = [pc EXCEPT ![r] = phase]
    /\ user' = [user EXCEPT ![r] = u]
    /\ conv' = [conv EXCEPT ![r] = c]
    /\ turn' = [turn EXCEPT ![r] = turns + 1]
    /\ turnConv' = [turnConv EXCEPT ![turns + 1] = c]
    /\ seen' = [seen EXCEPT ![r] = IF owner[c] = u THEN messages[c] ELSE <<>>]
    /\ disturbed' = IF \E x \in Requests : pc[x] # "idle" /\ conv[x] = c
                    THEN disturbed \cup {c} ELSE disturbed
    /\ UNCHANGED <<runs, audited, reply, gone, asked, drops, aborts, deletes>>

\* The conversations of u beyond its newest Retention.
Pruned(u, own, order) ==
    LET mine == SelectSeq(order, LAMBDA c : own[c] = u)
    IN  {mine[i] : i \in 1..(Len(mine) - Retention)}

\* A request without a conversation id: create inserts the row and deletes the
\* user's oldest conversations beyond the limit.
NewConversation(r, u, c) ==
    LET own   == [owner EXCEPT ![c] = u]
        order == Append(recency, c)
    IN  /\ \A t \in Turns : turnConv[t] # c
        /\ Start(r, u, c, "loaded")
        /\ Keep(own, order, Conversations \ Pruned(u, own, order))

\* A request with a conversation id: load finds only the user's own, and
\* another tier is saved by a transaction of its own.
OpenConversation(r, u, c, phase) ==
    /\ owner[c] = u
    /\ phase \in {"tier", "loaded"}
    /\ Start(r, u, c, phase)
    /\ UNCHANGED rowVars

\* set_tier: no row, no error.
SetTier(r) ==
    /\ pc[r] = "tier"
    /\ pc' = [pc EXCEPT ![r] = "loaded"]
    /\ recency' = IF owner[conv[r]] = user[r] THEN Touch(recency, conv[r]) ELSE recency
    /\ UNCHANGED <<owner, messages, runs, audited, reqVars, seen, reply, gone,
                   histVars, boundVars>>

-----------------------------------------------------------------------------
(* What the turn does *)

\* Mutation: a result does not end the search.
Pending_SkipsResults(msgs) ==
    LET asks == {i \in 1..Len(msgs) : msgs[i].kind = "ask"}
    IN  {msgs[i] : i \in {j \in asks : \A k \in asks : k =< j}}

\* _pending_confirmation: the last call still to be confirmed, unless a tool
\* has given a result since.
Pending(msgs) ==
    LET stops == {i \in 1..Len(msgs) : msgs[i].kind \in {"ask", "result"}}
    IN  {msgs[i] : i \in {j \in stops : msgs[j].kind = "ask" /\ \A k \in stops : k =< j}}

\* classify: the provider or, failing it, the keyword table names any tool of the
\* registry, with a confidence on either side of AUTO_SAFE_CONFIDENCE.
Intents == [tool : Autonomy, confident : BOOLEAN]

\* Mutation: a tier that executes whatever was classified with confidence.
NeedsConfirmation_ByConfidence(tool, confident, confirmed) ==
    ~confirmed /\ (tool = "destructive" \/ ~confident)

\* The gate of ToolDispatcher.dispatch; the conversation's tier has no part in it.
NeedsConfirmation(tool, confident, confirmed) ==
    ~confirmed /\ (tool = "auto_safe" => ~confident)

Reply(r, m) ==
    /\ reply' = [reply EXCEPT ![r] = m]
    /\ pc' = [pc EXCEPT ![r] = "append"]

\* Help, a deferral, the workflow's state, a request for clarification, or
\* parameters that do not validate.
Answer(r, k) ==
    /\ pc[r] = "loaded"
    /\ k \in {"text", "failed"}
    /\ Reply(r, Msg(k, turn[r], "none"))
    /\ UNCHANGED <<rowVars, runs, audited, reqVars, seen, gone, histVars, boundVars>>

\* The tool is gated: the assistant asks.
Ask(r, tool, confident) ==
    /\ pc[r] = "loaded"
    /\ NeedsConfirmation(tool, confident, FALSE)
    /\ Reply(r, Msg("ask", turn[r], tool))
    /\ asked' = [asked EXCEPT ![turn[r]] = tool]
    /\ UNCHANGED <<rowVars, runs, audited, reqVars, seen, gone, turnConv, disturbed, boundVars>>

\* The handler runs: it succeeds, it refuses, or it raises an error nobody
\* catches, with its work done, which ends the request.
RunTool(r, call, tool, how) ==
    LET done == runs \cup {[turn |-> turn[r], call |-> call, tool |-> tool, how |-> how]}
    IN  /\ pc[r] = "loaded"
        /\ \/ /\ runs' = done
              /\ Reply(r, Msg("result", turn[r], "none"))
              /\ UNCHANGED <<reqVars, seen, gone, disturbed, aborts>>
           \/ /\ Reply(r, Msg("failed", turn[r], "none"))
              /\ UNCHANGED <<runs, reqVars, seen, gone, disturbed, aborts>>
           \/ /\ aborts < MaxAborts
              /\ aborts' = aborts + 1
              /\ runs' = done
              /\ disturbed' = disturbed \cup {conv[r]}
              /\ End(r)
        /\ UNCHANGED <<rowVars, audited, turnConv, asked, turns, drops, deletes>>

RunUnasked(r, tool, confident) ==
    /\ ~NeedsConfirmation(tool, confident, FALSE)
    /\ RunTool(r, turn[r], tool, "auto")

\* The request brings a confirm payload, which goes before what its message says and is
\* taken as it is: a call the conversation asked about, in its history still or not, or
\* one that nobody asked about.
RunByButton(r, call, tool) ==
    /\ call # turn[r] => turnConv[call] = conv[r] /\ asked[call] = tool
    /\ RunTool(r, call, tool, "button")

\* "yes", "ok", "done": the pending call, as it was when the turn was loaded.
RunByWord(r) ==
    \E m \in Pending(seen[r]) : RunTool(r, m.turn, m.tool, "word")

-----------------------------------------------------------------------------
(* The turn is recorded *)

\* append_messages, first transaction: the conversation is loaded again.
AppendLoad(r) ==
    /\ pc[r] = "append"
    /\ owner[conv[r]] = user[r]
    /\ seen' = [seen EXCEPT ![r] = messages[conv[r]]]
    /\ pc' = [pc EXCEPT ![r] = "update"]
    /\ UNCHANGED <<rowVars, runs, audited, reqVars, reply, gone, histVars, boundVars>>

\* It is gone: the stream is an error and nothing is audited.
AppendNotFound(r) ==
    /\ pc[r] = "append"
    /\ owner[conv[r]] # user[r]
    /\ End(r)
    /\ UNCHANGED <<rowVars, runs, audited, histVars, boundVars>>

\* Mutation: the first messages are the ones kept.
CapMessages_KeepsOldest(msgs) ==
    IF Len(msgs) =< MaxMessages THEN msgs
    ELSE SubSeq(msgs, 1, KeepRecent) \o <<Summary>>

\* _cap_messages: all but the recent ones become one summary entry.  A list no
\* longer than KeepRecent loses nothing and still gains the summary.
CapMessages(msgs) ==
    LET n == Len(msgs)
    IN  IF n =< MaxMessages THEN msgs
        ELSE <<Summary>> \o SubSeq(msgs, IF n > KeepRecent THEN n - KeepRecent + 1 ELSE 1, n)

\* append_messages, second transaction: the UPDATE replaces what is there, and
\* finding no row is no error.
AppendUpdate(r) ==
    LET c == conv[r] IN
    /\ pc[r] = "update"
    /\ pc' = [pc EXCEPT ![r] = "stream"]
    /\ seen' = [seen EXCEPT ![r] = <<>>]
    /\ IF owner[c] = user[r]
       THEN /\ messages' = [messages EXCEPT ![c] =
                  CapMessages(seen[r] \o <<Msg("user", turn[r], "none"), reply[r]>>)]
            /\ recency' = Touch(recency, c)
       ELSE UNCHANGED <<messages, recency>>
    /\ UNCHANGED <<owner, runs, audited, reqVars, reply, gone, histVars, boundVars>>

\* Mutation: only a confirmed call is audited.
Stream_AuditsConfirmed(r) ==
    /\ pc[r] = "stream"
    /\ ~gone[r]
    /\ audited' = audited \cup {t \in {turn[r]} : \E x \in runs : x.turn = t /\ x.call # t}
    /\ End(r)
    /\ UNCHANGED <<rowVars, runs, histVars, boundVars>>

\* The events are streamed; an executed call is audited on its way out.
Stream(r) ==
    /\ pc[r] = "stream"
    /\ ~gone[r]
    /\ audited' = audited \cup {t \in {turn[r]} : reply[r].kind = "result"}
    /\ End(r)
    /\ UNCHANGED <<rowVars, runs, histVars, boundVars>>

\* The client leaves: the thread finishes the turn, the stream is cancelled
\* before the event of the call is reached.
Disconnect(r) ==
    /\ pc[r] # "idle"
    /\ ~gone[r]
    /\ drops < MaxDrops
    /\ drops' = drops + 1
    /\ gone' = [gone EXCEPT ![r] = TRUE]
    /\ UNCHANGED <<rowVars, runs, audited, pc, reqVars, seen, reply, histVars,
                   turns, aborts, deletes>>

StreamCancelled(r) ==
    /\ pc[r] = "stream"
    /\ gone[r]
    /\ End(r)
    /\ UNCHANGED <<rowVars, runs, audited, histVars, boundVars>>

\* The process dies, or a transaction of the turn fails.
Abort(r) ==
    /\ pc[r] # "idle"
    /\ aborts < MaxAborts
    /\ aborts' = aborts + 1
    /\ End(r)
    /\ disturbed' = disturbed \cup {conv[r]}
    /\ UNCHANGED <<rowVars, runs, audited, turnConv, asked, turns, drops, deletes>>

\* delete and bulk_delete: ids of other users are ignored.
DeleteConversations(u, S) ==
    /\ deletes < MaxDeletes
    /\ deletes' = deletes + 1
    /\ Keep(owner, recency, {c \in Conversations : c \notin S \/ owner[c] # u})
    /\ UNCHANGED <<runs, audited, pc, reqVars, seen, reply, gone, histVars,
                   turns, drops, aborts>>

-----------------------------------------------------------------------------
(* The specification *)

Turn(r) ==
    \/ \E u \in Users, c \in Conversations : NewConversation(r, u, c)
    \/ \E u \in Users, c \in Conversations, p \in {"tier", "loaded"} :
          OpenConversation(r, u, c, p)
    \/ SetTier(r)
    \/ \E k \in {"text", "failed"} : Answer(r, k)
    \/ \E i \in Intents : Ask(r, i.tool, i.confident) \/ RunUnasked(r, i.tool, i.confident)
    \/ \E call \in 1..turn[r], tool \in Autonomy : RunByButton(r, call, tool)
    \/ RunByWord(r)
    \/ AppendLoad(r)
    \/ AppendNotFound(r)
    \/ AppendUpdate(r)
    \/ Stream(r)
    \/ StreamCancelled(r)

Next ==
    \/ \E r \in Requests : Turn(r) \/ Disconnect(r) \/ Abort(r)
    \/ \E u \in Users, S \in SUBSET Conversations : DeleteConversations(u, S)

Spec == Init /\ [][Next]_vars

-----------------------------------------------------------------------------
(* Properties *)

\* Where the request brings no confirmation, nothing that changes state runs, whatever
\* the tier, the confidence and the other requests, but the call a typed "yes" answers:
\* an earlier turn of the same conversation asked about that tool.  A confirmation the
\* request brings is not compared with what was asked (AgentSession.process_message,
\* ToolDispatcher.dispatch, _pending_confirmation).
GateHolds ==
    \A x \in runs :
        \/ x.tool = "auto_safe"
        \/ x.how = "button"
        \/ /\ x.how = "word"
           /\ x.call < x.turn
           /\ turnConv[x.call] = turnConv[x.turn]
           /\ asked[x.call] = x.tool

\* A typed "yes" does not run a call that has already run, as long as the turns
\* of the conversation do not overlap and none breaks off
\* (_pending_confirmation, append_messages).
TypedYesRunsOnce ==
    \A x, y \in runs :
        x.how = "word" /\ x.call = y.call /\ y.turn < x.turn
            => turnConv[x.turn] \in disturbed

\* Between turns that did not overlap, a conversation ends with its latest turn,
\* and its turns are in order (append_messages, _cap_messages).
HistoryInOrder ==
    \A c \in Live \ disturbed :
        LET n    == Len(messages[c])
            mine == {t \in Turns : turnConv[t] = c}
        IN  /\ \A i \in 1..(n - 1) : messages[c][i].turn =< messages[c][i + 1].turn
            /\ (\A r \in Requests : pc[r] # "idle" => conv[r] # c)
                  => n > 0 /\ \A t \in mine : t =< messages[c][n].turn

\* A call that ran in a conversation that still exists is audited once its
\* request is over, unless the client left or the turn broke off (chat).
RunsAudited ==
    drops = 0 /\ aborts = 0 =>
        \A x \in runs :
            \/ x.turn \in audited
            \/ \E r \in Requests : pc[r] # "idle" /\ turn[r] = x.turn
            \/ turnConv[x.turn] \notin Live
=============================================================================
