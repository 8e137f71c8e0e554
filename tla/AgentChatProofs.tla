--------------------------- MODULE AgentChatProofs ---------------------------
(***************************************************************************)
(* Proofs about the chat assistant, for any number of requests, users,     *)
(* conversations and turns, and any limits of the history.                 *)
(*                                                                         *)
(* A message knows the turn it belongs to (KnownTurns), and a turn asks    *)
(* once (AskedOnce), so that the call a typed "yes" takes from the history *)
(* was asked for earlier in the same conversation; one the request brings  *)
(* is compared with nothing.  A conversation that is not disturbed has one *)
(* turn at a time (Alone), which finds there what the turns before it      *)
(* left.                                                                   *)
(***************************************************************************)
EXTENDS AgentChat, TLAPS

-----------------------------------------------------------------------------
(* The invariants *)

Active(r) == pc[r] # "idle"
Working   == {"append", "update", "stream"}

\* The types the proofs need.
Types ==
    /\ owner \in [Conversations -> Users \cup {NoUser}]
    /\ messages \in [Conversations -> Seq(Message)]
    /\ pc \in [Requests -> {"idle", "tier", "loaded"} \cup Working]
    /\ user \in [Requests -> Users \cup {NoUser}]
    /\ conv \in [Requests -> Conversations \cup {NoUser}]
    /\ turn \in [Requests -> 0..MaxTurns]
    /\ seen \in [Requests -> Seq(Message)]
    /\ reply \in [Requests -> Message]
    /\ gone \in [Requests -> BOOLEAN]
    /\ turnConv \in [Turns -> Conversations \cup {NoUser}]
    /\ asked \in [Turns -> Autonomy \cup {"none"}]
    /\ turns \in 0..MaxTurns
    /\ drops \in Nat /\ aborts \in Nat

\* A request at work has a turn of its own, in a conversation of its user or one
\* that is deleted.
RequestsOK ==
    /\ \A r \in Requests : Active(r) =>
          /\ turn[r] # 0 /\ turn[r] =< turns
          /\ conv[r] \in Conversations /\ turnConv[turn[r]] = conv[r]
          /\ user[r] \in Users /\ owner[conv[r]] \in {user[r], NoUser}
          /\ pc[r] \in Working => reply[r].turn = turn[r]
    /\ \A q, r \in Requests : Active(q) /\ Active(r) /\ turn[q] = turn[r] => q = r

\* A message of conversation c is the summary, or of one of its turns; a question is
\* of the turn that asked it.
MsgIn(m, c, n, of, about) ==
    /\ m.turn # 0 => m.turn =< n /\ of[m.turn] = c
    /\ m.kind = "ask" => m.turn # 0 /\ m.tool # "none" /\ about[m.turn] = m.tool

MsgOf(m, c)   == MsgIn(m, c, turns, turnConv, asked)
MsgNext(m, c) == MsgIn(m, c, turns', turnConv', asked')

\* A turn asks once, on its way to its reply, and the reply says so.
AskedOnce ==
    /\ \A t \in Turns : t > turns => asked[t] = "none"
    /\ \A r \in Requests : Active(r) =>
          IF pc[r] \in Working THEN MsgOf(reply[r], conv[r]) ELSE asked[turn[r]] = "none"

\* What has been asked stays asked.
AskedStays == \A t \in Turns : asked[t] # "none" => asked'[t] = asked[t]

KnownTurns ==
    /\ \A c \in Conversations : \A i \in 1..Len(messages[c]) : MsgOf(messages[c][i], c)
    /\ \A r \in Requests : Active(r) =>
          \A i \in 1..Len(seen[r]) :
              /\ MsgOf(seen[r][i], conv[r])
              /\ pc[r] \in {"tier", "loaded"} => seen[r][i].turn < turn[r]

\* A tool runs in a turn of the conversation that asked for it, and the turn says so.
RunsOK ==
    \A x \in runs :
        /\ x.call \in Turns /\ x.turn \in Turns
        /\ x.call =< x.turn /\ x.turn =< turns
        /\ turnConv[x.call] = turnConv[x.turn]
        /\ x.tool # "none"
        /\ \A r \in Requests : Active(r) /\ turn[r] = x.turn =>
              pc[r] \in Working /\ reply[r].kind = "result"

ChatInv == Types /\ RequestsOK /\ AskedOnce /\ KnownTurns /\ RunsOK /\ GateHolds

\* As long as no client left and no turn broke off, what ran is audited, or about
\* to be, or its conversation is deleted.
AuditInv ==
    drops = 0 /\ aborts = 0 =>
        /\ \A r \in Requests : ~gone[r]
        /\ \A x \in runs :
              \/ x.turn \in audited
              \/ \E r \in Requests : Active(r) /\ turn[r] = x.turn
              \/ turnConv[x.turn] \notin Live

\* A conversation that is not disturbed has one turn at a time, its latest; one that
\* is deleted has no messages.
Alone ==
    /\ \A t \in Turns : t > turns => turnConv[t] = NoUser
    /\ \A r \in Requests : Active(r) /\ conv[r] \notin disturbed =>
          /\ \A q \in Requests : Active(q) /\ conv[q] = conv[r] => q = r
          /\ \A t \in Turns : turnConv[t] = conv[r] => t =< turn[r]
    /\ \A c \in Conversations : owner[c] = NoUser => messages[c] = <<>>

\* The call that y ran is followed by a result, wherever msgs asks for it.
Answered(msgs, y) ==
    \A i \in 1..Len(msgs) : msgs[i].kind = "ask" /\ msgs[i].turn = y.call =>
        \E k \in 1..Len(msgs) : i < k /\ msgs[k].kind = "result"

\* The turn of y is about to be recorded.
Unrecorded(y) == \E r \in Requests : pc[r] \in {"append", "update"} /\ turn[r] = y.turn

\* In a conversation that is not disturbed, what ran is answered in what is stored,
\* and in what a request reads of the turns before its own.
SettledInv ==
    /\ \A c \in Conversations, y \in runs :
          c \notin disturbed /\ turnConv[y.turn] = c /\ ~Unrecorded(y) =>
              Answered(messages[c], y)
    /\ \A r \in Requests, y \in runs :
          /\ pc[r] \in {"tier", "loaded", "update"} /\ conv[r] \notin disturbed
          /\ turnConv[y.turn] = conv[r] /\ y.turn # turn[r]
          => Answered(seen[r], y)

Ordered(msgs) == \A i, k \in 1..Len(msgs) : i < k => msgs[i].turn =< msgs[k].turn

EndsWithLatest(c) ==
    /\ Len(messages[c]) > 0
    /\ \A t \in Turns : turnConv[t] = c => t =< messages[c][Len(messages[c])].turn

\* A request at work on c has done all but stream its turn.
Recorded(c) == \A r \in Requests : Active(r) /\ conv[r] = c => pc[r] = "stream"

\* In a conversation that is not disturbed, what is stored and what is about to be
\* stored is in order, and a recorded turn is the last.
HistoryInv ==
    /\ \A c \in Conversations : c \notin disturbed => Ordered(messages[c])
    /\ \A r \in Requests : pc[r] = "update" /\ conv[r] \notin disturbed => Ordered(seen[r])
    /\ \A c \in Live : c \notin disturbed /\ Recorded(c) => EndsWithLatest(c)

-----------------------------------------------------------------------------
(* What a step does *)

USE ChatAssumption, NoUserAssumption

Identity(q) == user'[q] = user[q] /\ conv'[q] = conv[q] /\ turn'[q] = turn[q]

Same(q) == Identity(q) /\ pc'[q] = pc[q] /\ seen'[q] = seen[q] /\ reply'[q] = reply[q]

Others(r) == \A q \in Requests : q # r => Same(q)

\* A conversation stays as it is, or is deleted.
Shrinks(c) ==
    \/ owner'[c] = owner[c] /\ messages'[c] = messages[c]
    \/ owner'[c] = NoUser /\ messages'[c] = <<>>

RowsStay  == \A c \in Conversations : owner'[c] = owner[c] /\ messages'[c] = messages[c]
TurnsStay == turns' = turns /\ turnConv' = turnConv
WorkStays == runs' = runs /\ audited' = audited

Begins(r) ==
    LET c == conv'[r]
    IN  /\ pc[r] = "idle" /\ pc'[r] \in {"tier", "loaded"} /\ Others(r)
        /\ turns < MaxTurns /\ turns' = turns + 1 /\ turn'[r] = turns + 1
        /\ turnConv' = [turnConv EXCEPT ![turns + 1] = c]
        /\ c \in Conversations /\ user'[r] \in Users
        /\ seen'[r] \in {<<>>, messages[c]}
        /\ messages'[c] \in {<<>>, messages[c]}
        /\ owner'[c] \in {user'[r], NoUser}
        /\ owner'[c] = NoUser => messages'[c] = <<>>
        /\ owner[c] = user'[r] \/ \A t \in Turns : turnConv[t] # c
        /\ \A d \in Conversations : d # c => Shrinks(d)
        /\ disturbed' = IF \E x \in Requests : Active(x) /\ conv[x] = c
                        THEN disturbed \cup {c} ELSE disturbed
        /\ UNCHANGED <<gone, asked, drops, aborts>> /\ WorkStays

\* A tool the request may run: one that needs no confirmation, one it brings the
\* confirmation of, or the last its conversation was asked about when it was loaded.
MayRun(r, x) ==
    /\ x.turn = turn[r]
    /\ \/ x.call = turn[r] /\ x.tool = "auto_safe" /\ x.how = "auto"
       \/ /\ x.call \in 1..turn[r] /\ x.how = "button" /\ x.tool # "none"
          /\ x.call # turn[r] => turnConv[x.call] = conv[r]
       \/ \E i \in 1..Len(seen[r]) :
             /\ seen[r][i].kind = "ask" /\ x.call = seen[r][i].turn
             /\ x.how = "word" /\ x.tool = seen[r][i].tool
             /\ \A k \in 1..Len(seen[r]) : i < k => seen[r][k].kind # "result"

\* The request asks to have a tool confirmed.
Asks(r) ==
    /\ pc[r] = "loaded" /\ reply'[r].kind = "ask" /\ reply'[r].tool \in Autonomy
    /\ asked' = [asked EXCEPT ![turn[r]] = reply'[r].tool] /\ runs' = runs

\* A step of the turn, up to its reply.
Goes(r) ==
    /\ Others(r) /\ Identity(r) /\ seen'[r] = seen[r]
    /\ RowsStay /\ TurnsStay
    /\ \/ pc[r] = "tier" /\ pc'[r] = "loaded" /\ reply'[r] = reply[r] /\ runs' = runs
       \/ /\ pc[r] = "loaded" /\ pc'[r] = "append"
          /\ reply'[r] \in Message /\ reply'[r].turn = turn[r]
          /\ \/ runs' = runs
             \/ \E x : MayRun(r, x) /\ runs' = runs \cup {x} /\ reply'[r].kind = "result"
    /\ Asks(r) \/ (asked' = asked /\ (pc[r] = "loaded" => reply'[r].kind # "ask"))
    /\ UNCHANGED <<gone, audited, disturbed, drops, aborts>>

\* The conversation is loaded again.
Loads(r) ==
    /\ pc[r] = "append" /\ pc'[r] = "update"
    /\ owner[conv[r]] = user[r] /\ seen'[r] = messages[conv[r]]
    /\ Others(r) /\ Identity(r) /\ reply'[r] = reply[r]
    /\ RowsStay /\ TurnsStay /\ WorkStays
    /\ UNCHANGED <<gone, asked, disturbed, drops, aborts>>

\* The turn is stored, if its conversation is still there.
Stores(r) ==
    /\ pc[r] = "update" /\ pc'[r] = "stream" /\ seen'[r] = <<>>
    /\ \A c \in Conversations :
          /\ owner'[c] = owner[c]
          /\ messages'[c] = IF c = conv[r] /\ owner[c] = user[r]
                            THEN CapMessages(seen[r] \o <<Msg("user", turn[r], "none"), reply[r]>>)
                            ELSE messages[c]
    /\ Others(r) /\ Identity(r) /\ reply'[r] = reply[r]
    /\ TurnsStay /\ WorkStays
    /\ UNCHANGED <<gone, asked, disturbed, drops, aborts>>

\* The request ends: it breaks off, its conversation is deleted, or it has streamed.
Ends(r) ==
    /\ pc[r] # "idle" /\ pc'[r] = "idle" /\ Others(r)
    /\ seen'[r] = <<>> /\ reply'[r] = Summary
    /\ RowsStay /\ TurnsStay /\ asked' = asked
    /\ \/ /\ aborts' = aborts + 1 /\ audited' = audited
          /\ disturbed' = disturbed \cup {conv[r]}
          /\ \/ runs' = runs
             \/ pc[r] = "loaded" /\ \E x : MayRun(r, x) /\ runs' = runs \cup {x}
       \/ /\ UNCHANGED <<disturbed, runs, aborts>>
          /\ \/ pc[r] = "append" /\ owner[conv[r]] # user[r] /\ audited' = audited
             \/ pc[r] = "stream" /\ gone[r] /\ audited' = audited
             \/ /\ pc[r] = "stream"
                /\ audited' = audited \cup {t \in {turn[r]} : reply[r].kind = "result"}
    /\ drops' = drops /\ \A q \in Requests : gone'[q] => gone[q]

\* A client leaves, conversations are deleted, or nothing happens.
Bystands ==
    /\ \A q \in Requests : Same(q)
    /\ \A c \in Conversations : Shrinks(c)
    /\ TurnsStay /\ WorkStays /\ asked' = asked
    /\ disturbed' = disturbed /\ aborts' = aborts
    /\ drops' = drops + 1 \/ (drops' = drops /\ gone' = gone)

\* A request ends: what becomes of it.
LEMMA EndEffect ==
    ASSUME Types, NEW r \in Requests, End(r)
    PROVE  /\ pc'[r] = "idle" /\ seen'[r] = <<>> /\ reply'[r] = Summary
           /\ Others(r) /\ \A q \in Requests : gone'[q] => gone[q]
BY DEF Types, End, Others, Same, Identity

LEMMA MessageType ==
    /\ Summary \in Message
    /\ \A k \in Kinds, t \in 0..MaxTurns, tool \in Autonomy \cup {"none"} : Msg(k, t, tool) \in Message
BY DEF Summary, Msg, Message, Kinds, Autonomy

\* Another request is left alone by what one writes to its own place.
LEMMA ReplyEffect ==
    ASSUME Types, NEW r \in Requests, NEW m \in Message, Reply(r, m),
           UNCHANGED <<reqVars, seen>>
    PROVE  /\ Others(r) /\ Identity(r) /\ seen'[r] = seen[r]
           /\ pc'[r] = "append" /\ reply'[r] = m
BY DEF Types, Reply, Others, Same, Identity, reqVars

LEMMA BeginIs ==
    ASSUME Types, NEW r \in Requests, NEW u \in Users, NEW c \in Conversations,
           NEW phase \in {"tier", "loaded"},
           NewConversation(r, u, c) \/ OpenConversation(r, u, c, phase)
    PROVE  Begins(r)
<1>1. PICK p \in {"tier", "loaded"} : Start(r, u, c, p)
  BY DEF NewConversation, OpenConversation
<1>2. /\ pc[r] = "idle" /\ pc'[r] = p /\ conv'[r] = c /\ user'[r] = u
      /\ turns < MaxTurns /\ turns' = turns + 1 /\ turn'[r] = turns + 1
      /\ turnConv' = [turnConv EXCEPT ![turns + 1] = c]
      /\ seen'[r] \in {<<>>, messages[c]}
      /\ Others(r)
      /\ UNCHANGED <<gone, asked, drops, aborts>> /\ WorkStays
  BY <1>1 DEF Start, Types, Others, Same, Identity, WorkStays
<1>3. disturbed' = IF \E x \in Requests : Active(x) /\ conv[x] = c
                   THEN disturbed \cup {c} ELSE disturbed
  BY <1>1 DEF Start, Active
<1>4. /\ messages'[c] \in {<<>>, messages[c]}
      /\ owner'[c] \in {u, NoUser}
      /\ owner'[c] = NoUser => messages'[c] = <<>>
      /\ owner[c] = u \/ \A t \in Turns : turnConv[t] # c
      /\ \A d \in Conversations : d # c => Shrinks(d)
  <2>1. CASE NewConversation(r, u, c)
    <3>1. DEFINE own  == [owner EXCEPT ![c] = u]
                 kept == Conversations \ Pruned(u, own, Append(recency, c))
    <3>2. /\ owner' = [d \in Conversations |-> IF d \in kept THEN own[d] ELSE NoUser]
          /\ messages' = [d \in Conversations |-> IF d \in kept THEN messages[d] ELSE <<>>]
          /\ \A t \in Turns : turnConv[t] # c
      BY <2>1 DEF NewConversation, Keep
    <3> HIDE DEF kept
    <3>3. own[c] = u /\ \A d \in Conversations : d # c => own[d] = owner[d]
      BY DEF Types
    <3> HIDE DEF own
    <3>4. QED
      BY <3>2, <3>3 DEF Shrinks
  <2>2. CASE OpenConversation(r, u, c, phase)
    BY <2>2 DEF OpenConversation, rowVars, Shrinks
  <2>3. QED
    BY <2>1, <2>2
<1>5. QED
  BY <1>2, <1>3, <1>4 DEF Begins

LEMMA RunIs ==
    ASSUME Types, NEW r \in Requests, NEW call, NEW tool, NEW how,
           MayRun(r, [turn |-> turn[r], call |-> call, tool |-> tool, how |-> how]),
           RunTool(r, call, tool, how)
    PROVE  Goes(r) \/ Ends(r)
<1> DEFINE x == [turn |-> turn[r], call |-> call, tool |-> tool, how |-> how]
<1>0. MayRun(r, x)
  OBVIOUS
<1> HIDE DEF x
<1>1. /\ pc[r] = "loaded" /\ RowsStay /\ TurnsStay
      /\ UNCHANGED <<asked, audited, drops>>
  BY DEF RunTool, RowsStay, TurnsStay, rowVars
<1>2. turn[r] \in 0..MaxTurns
  BY DEF Types
<1>3. \A k \in {"result", "failed"} :
        Msg(k, turn[r], "none") \in Message /\ Msg(k, turn[r], "none").turn = turn[r]
        /\ Msg(k, turn[r], "none").kind = k
  BY <1>2, MessageType DEF Msg, Kinds
<1>4. CASE /\ runs' = runs \cup {x}
           /\ Reply(r, Msg("result", turn[r], "none"))
           /\ UNCHANGED <<reqVars, seen, gone, disturbed, aborts>>
  BY <1>0, <1>1, <1>3, <1>4, ReplyEffect DEF Goes
<1>5. CASE /\ Reply(r, Msg("failed", turn[r], "none"))
           /\ UNCHANGED <<runs, reqVars, seen, gone, disturbed, aborts>>
  BY <1>1, <1>3, <1>5, ReplyEffect DEF Goes
<1>6. CASE /\ aborts' = aborts + 1
           /\ runs' = runs \cup {x}
           /\ disturbed' = disturbed \cup {conv[r]}
           /\ End(r)
  BY <1>0, <1>1, <1>6, EndEffect DEF Ends
<1>7. QED
  BY <1>4, <1>5, <1>6 DEF RunTool, x

LEMMA TurnIs ==
    ASSUME Types, NEW r \in Requests, Turn(r)
    PROVE  Begins(r) \/ Goes(r) \/ Loads(r) \/ Stores(r) \/ Ends(r)
<1>0. turn[r] \in 0..MaxTurns
  BY DEF Types
<1>1. ASSUME NEW u \in Users, NEW c \in Conversations, NewConversation(r, u, c)
      PROVE  Begins(r)
  BY <1>1, BeginIs
<1>2. ASSUME NEW u \in Users, NEW c \in Conversations, NEW p \in {"tier", "loaded"},
             OpenConversation(r, u, c, p)
      PROVE  Begins(r)
  BY <1>2, BeginIs
<1>3. CASE SetTier(r)
  BY <1>3 DEF SetTier, Types, Goes, Others, Same, Identity, RowsStay, TurnsStay,
              reqVars, histVars, boundVars
<1>4. ASSUME NEW k \in {"text", "failed"}, Answer(r, k) PROVE Goes(r)
  <2>1. Msg(k, turn[r], "none") \in Message /\ Msg(k, turn[r], "none").turn = turn[r]
        /\ Msg(k, turn[r], "none").kind # "ask"
    BY <1>0, MessageType DEF Msg, Kinds
  <2>2. QED
    BY <1>4, <2>1, ReplyEffect DEF Answer, Goes, RowsStay, TurnsStay, rowVars, histVars, boundVars
<1>5. ASSUME NEW i \in Intents, Ask(r, i.tool, i.confident) PROVE Goes(r)
  <2> DEFINE m == Msg("ask", turn[r], i.tool)
  <2>1. /\ m \in Message /\ m.turn = turn[r] /\ m.kind = "ask" /\ m.tool = i.tool
        /\ i.tool \in Autonomy
    BY <1>0, MessageType DEF Msg, Kinds, Intents
  <2> HIDE DEF m
  <2>2. Reply(r, m) /\ UNCHANGED <<reqVars, seen>>
    BY <1>5 DEF Ask, m
  <2>3. Asks(r)
    BY <1>5, <2>1, <2>2, ReplyEffect DEF Ask, Asks
  <2>4. QED
    BY <1>5, <2>1, <2>2, <2>3, ReplyEffect DEF Ask, Goes, RowsStay, TurnsStay, rowVars, boundVars
<1>6. ASSUME NEW i \in Intents, RunUnasked(r, i.tool, i.confident) PROVE Goes(r) \/ Ends(r)
  <2>1. i.tool = "auto_safe"
    BY <1>6 DEF RunUnasked, NeedsConfirmation
  <2>2. MayRun(r, [turn |-> turn[r], call |-> turn[r], tool |-> i.tool, how |-> "auto"])
    BY <2>1 DEF MayRun
  <2>3. QED
    BY <1>6, <2>2, RunIs DEF RunUnasked
<1>7. ASSUME NEW call \in 1..turn[r], NEW tool \in Autonomy, RunByButton(r, call, tool)
      PROVE  Goes(r) \/ Ends(r)
  <2>1. MayRun(r, [turn |-> turn[r], call |-> call, tool |-> tool, how |-> "button"])
    BY <1>7 DEF MayRun, RunByButton, Autonomy
  <2>2. QED
    BY <1>7, <2>1, RunIs DEF RunByButton
<1>8. CASE RunByWord(r)
  <2>1. PICK m \in Pending(seen[r]) : RunTool(r, m.turn, m.tool, "word")
    BY <1>8 DEF RunByWord
  <2>2. PICK i \in 1..Len(seen[r]) :
            /\ m = seen[r][i] /\ m.kind = "ask"
            /\ \A k \in 1..Len(seen[r]) : seen[r][k].kind \in {"ask", "result"} => k =< i
    BY DEF Pending
  <2>3. \A k \in 1..Len(seen[r]) : i < k => seen[r][k].kind # "result"
    BY <2>2 DEF Types
  <2>4. MayRun(r, [turn |-> turn[r], call |-> m.turn, tool |-> m.tool, how |-> "word"])
    BY <2>2, <2>3 DEF MayRun
  <2>5. QED
    BY <2>1, <2>4, RunIs
<1>9. CASE AppendLoad(r)
  BY <1>9 DEF AppendLoad, Types, Loads, Others, Same, Identity, RowsStay, TurnsStay, WorkStays,
              rowVars, reqVars, histVars, boundVars
<1>10. CASE AppendUpdate(r)
  <2>1. \A c \in Conversations :
          messages'[c] = IF c = conv[r] /\ owner[c] = user[r]
                         THEN CapMessages(seen[r] \o <<Msg("user", turn[r], "none"), reply[r]>>)
                         ELSE messages[c]
    BY <1>10 DEF AppendUpdate, Types
  <2>2. QED
    BY <1>10, <2>1 DEF AppendUpdate, Types, Stores, Others, Same, Identity, TurnsStay, WorkStays,
                       reqVars, histVars, boundVars
<1>11. CASE AppendNotFound(r) \/ Stream(r) \/ StreamCancelled(r)
  BY <1>11, EndEffect DEF AppendNotFound, Stream, StreamCancelled, Ends, RowsStay, TurnsStay,
                          rowVars, histVars, boundVars
<1>12. QED
  BY <1>1, <1>2, <1>3, <1>4, <1>5, <1>6, <1>7, <1>8, <1>9, <1>10, <1>11 DEF Turn

\* A step of the system is the step of one request, or of nobody.
LEMMA StepIs ==
    ASSUME Types, [Next]_vars
    PROVE  \/ Bystands
           \/ \E r \in Requests : Begins(r) \/ Goes(r) \/ Loads(r) \/ Stores(r) \/ Ends(r)
<1>1. ASSUME NEW r \in Requests, Disconnect(r) PROVE Bystands
  BY <1>1 DEF Disconnect, Bystands, Same, Identity, Shrinks, TurnsStay, WorkStays,
              rowVars, reqVars, histVars
<1>2. ASSUME NEW r \in Requests, Abort(r) PROVE Ends(r)
  BY <1>2, EndEffect DEF Abort, Ends, RowsStay, TurnsStay, rowVars
<1>3. ASSUME NEW u \in Users, NEW S \in SUBSET Conversations, DeleteConversations(u, S)
      PROVE  Bystands
  <2>1. DEFINE kept == {c \in Conversations : c \notin S \/ owner[c] # u}
  <2>2. /\ owner' = [c \in Conversations |-> IF c \in kept THEN owner[c] ELSE NoUser]
        /\ messages' = [c \in Conversations |-> IF c \in kept THEN messages[c] ELSE <<>>]
    BY <1>3 DEF DeleteConversations, Keep
  <2> HIDE DEF kept
  <2>3. \A c \in Conversations : Shrinks(c)
    BY <2>2 DEF Shrinks
  <2>4. QED
    BY <1>3, <2>3 DEF DeleteConversations, Bystands, Same, Identity, TurnsStay, WorkStays,
                      reqVars, histVars
<1>4. CASE UNCHANGED vars
  BY <1>4 DEF vars, Bystands, Same, Identity, Shrinks, TurnsStay, WorkStays,
              rowVars, reqVars, histVars, boundVars
<1>5. QED
  BY <1>1, <1>2, <1>3, <1>4, TurnIs DEF Next

-----------------------------------------------------------------------------
(* The capped history *)

\* The messages with two more.
LEMMA TwoMore ==
    ASSUME NEW msgs \in Seq(Message), NEW m \in Message, NEW n \in Message
    PROVE  /\ msgs \o <<m, n>> \in Seq(Message)
           /\ Len(msgs) \in Nat /\ Len(msgs \o <<m, n>>) = Len(msgs) + 2
           /\ \A i \in 1..Len(msgs) : (msgs \o <<m, n>>)[i] = msgs[i]
           /\ (msgs \o <<m, n>>)[Len(msgs) + 1] = m
           /\ (msgs \o <<m, n>>)[Len(msgs) + 2] = n
<1>1. <<m, n>> \in Seq(Message) /\ Len(<<m, n>>) = 2 /\ <<m, n>>[1] = m /\ <<m, n>>[2] = n
  OBVIOUS
<1>2. QED
  BY <1>1

\* What is kept is the end of the messages, behind a summary if any is left out.
KeepsEnd(msgs, kept, d) ==
    /\ kept \in Seq(Message)
    /\ d \in Int /\ Len(kept) \in Nat /\ Len(kept) = Len(msgs) - d
    /\ \A i \in 1..Len(kept) :
          \/ i = 1 /\ kept[i] = Summary
          \/ i + d \in 1..Len(msgs) /\ kept[i] = msgs[i + d]
    /\ Len(msgs) - d >= 1
    /\ kept[Len(msgs) - d] = msgs[Len(msgs)]

LEMMA CapKeepsTail ==
    ASSUME NEW msgs \in Seq(Message), Len(msgs) >= 1
    PROVE  \E d \in Int : KeepsEnd(msgs, CapMessages(msgs), d)
<1>1. Len(msgs) \in Nat
  OBVIOUS
<1>2. CASE Len(msgs) =< MaxMessages
  <2>1. CapMessages(msgs) = msgs
    BY <1>2 DEF CapMessages
  <2>2. KeepsEnd(msgs, msgs, 0)
    BY <1>1 DEF KeepsEnd
  <2>3. QED
    BY <2>1, <2>2
<1>3. CASE Len(msgs) > MaxMessages
  <2>1. DEFINE n     == Len(msgs)
               first == IF n > KeepRecent THEN n - KeepRecent + 1 ELSE 1
               rest  == SubSeq(msgs, first, n)
               kept  == <<Summary>> \o rest
  <2>2. first \in 1..n
    BY <1>1, <1>3
  <2>3. CapMessages(msgs) = kept
    <3>1. ~(Len(msgs) =< MaxMessages)
      BY <1>1, <1>3
    <3>2. QED
      BY <3>1, Zenon DEF CapMessages
  <2> HIDE DEF first
  <2>4. /\ rest \in Seq(Message) /\ Len(rest) = n - first + 1
        /\ \A i \in 1..Len(rest) : rest[i] = msgs[first + i - 1]
    BY <1>1, <2>2
  <2> HIDE DEF rest
  <2>5. /\ <<Summary>> \in Seq(Message) /\ Len(<<Summary>>) = 1 /\ <<Summary>>[1] = Summary
    BY MessageType
  <2>6. /\ kept \in Seq(Message) /\ Len(kept) = n - first + 2 /\ kept[1] = Summary
        /\ \A i \in 2..Len(kept) : kept[i] = rest[i - 1]
    BY <1>1, <2>2, <2>4, <2>5
  <2> HIDE DEF kept
  <2>7. \A i \in 2..Len(kept) : kept[i] = msgs[first + (i - 1) - 1]
    <3>1. \A i \in 2..Len(kept) : i - 1 \in 1..Len(rest)
      BY <1>1, <2>2, <2>4, <2>6
    <3>2. QED
      BY <2>4, <2>6, <3>1
  <2>8. \A i \in 2..Len(kept) : i + (first - 2) \in 1..n /\ kept[i] = msgs[i + (first - 2)]
    BY <1>1, <2>2, <2>6, <2>7
  <2>9. n - (first - 2) \in 2..Len(kept) /\ n - (first - 2) + (first - 2) = n
    BY <1>1, <2>2, <2>6
  <2>10. KeepsEnd(msgs, kept, first - 2)
    <3>1. \A i \in 1..Len(kept) : i = 1 \/ i \in 2..Len(kept)
      BY <1>1, <2>2, <2>6
    <3>2. kept[n - (first - 2)] = msgs[n]
      BY <2>8, <2>9
    <3>3. Len(kept) \in Nat /\ Len(kept) = n - (first - 2) /\ first - 2 \in Int /\ n - (first - 2) >= 1
      BY <1>1, <2>2, <2>6
    <3>4. QED
      BY <2>6, <2>8, <3>1, <3>2, <3>3 DEF KeepsEnd
  <2>11. QED
    BY <2>2, <2>3, <2>10
<1>4. QED
  BY <1>1, <1>2, <1>3

\* What a request stores: the messages it has seen, the user's and its reply.
Stored(r) == seen[r] \o <<Msg("user", turn[r], "none"), reply[r]>>

LEMMA StoredIs ==
    ASSUME Types, NEW r \in Requests
    PROVE  LET n == Len(seen[r])
           IN  /\ Stored(r) \in Seq(Message) /\ n \in Nat /\ Len(Stored(r)) = n + 2
               /\ \A i \in 1..n : Stored(r)[i] = seen[r][i]
               /\ Stored(r)[n + 1] = Msg("user", turn[r], "none")
               /\ Stored(r)[n + 2] = reply[r]
<1>1. /\ seen[r] \in Seq(Message) /\ reply[r] \in Message /\ turn[r] \in 0..MaxTurns
  BY DEF Types
<1>2. Msg("user", turn[r], "none") \in Message
  BY <1>1, MessageType DEF Kinds
<1>3. QED
  BY <1>1, <1>2, TwoMore DEF Stored

LEMMA StoredTail ==
    ASSUME Types, NEW r \in Requests
    PROVE  \E d \in Int : KeepsEnd(Stored(r), CapMessages(Stored(r)), d)
<1>1. Stored(r) \in Seq(Message) /\ Len(Stored(r)) >= 1
  BY StoredIs
<1>2. QED
  BY <1>1, CapKeepsTail

-----------------------------------------------------------------------------
(* The turns of the messages *)

LEMMA TypesInit == Init => Types
BY MessageType DEF Init, Types, Working

\* The fields of the requests, which is all most steps change.
RequestTypes ==
    /\ pc \in [Requests -> {"idle", "tier", "loaded"} \cup Working]
    /\ user \in [Requests -> Users \cup {NoUser}]
    /\ conv \in [Requests -> Conversations \cup {NoUser}]
    /\ turn \in [Requests -> 0..MaxTurns]
    /\ seen \in [Requests -> Seq(Message)]
    /\ reply \in [Requests -> Message]
    /\ gone \in [Requests -> BOOLEAN]

RowTypes ==
    /\ owner \in [Conversations -> Users \cup {NoUser}]
    /\ messages \in [Conversations -> Seq(Message)]

CountTypes ==
    /\ turnConv \in [Turns -> Conversations \cup {NoUser}]
    /\ asked \in [Turns -> Autonomy \cup {"none"}]
    /\ turns \in 0..MaxTurns
    /\ drops \in Nat /\ aborts \in Nat

LEMMA EndTypes == ASSUME Types, NEW r \in Requests, End(r) PROVE RequestTypes'
BY MessageType DEF Types, End, RequestTypes

LEMMA ReplyTypes ==
    ASSUME Types, NEW r \in Requests, NEW m \in Message, Reply(r, m),
           UNCHANGED <<reqVars, seen, gone>>
    PROVE  RequestTypes'
BY DEF Types, Reply, RequestTypes, Working, reqVars

LEMMA KeepTypes ==
    ASSUME NEW own \in [Conversations -> Users \cup {NoUser}], NEW order, NEW S, Types,
           Keep(own, order, S)
    PROVE  RowTypes'
BY DEF Types, Keep, RowTypes

LEMMA RunTypes ==
    ASSUME Types, NEW r \in Requests, NEW call, NEW tool, NEW how, RunTool(r, call, tool, how)
    PROVE  Types'
<1>1. turn[r] \in 0..MaxTurns
  BY DEF Types
<1>2. /\ Msg("result", turn[r], "none") \in Message
      /\ Msg("failed", turn[r], "none") \in Message
  BY <1>1, MessageType DEF Kinds
<1>3. RequestTypes' /\ aborts' \in Nat
  <2>1. CASE Reply(r, Msg("result", turn[r], "none")) /\ UNCHANGED <<reqVars, seen, gone, aborts>>
    BY <1>2, <2>1, ReplyTypes DEF Types
  <2>2. CASE Reply(r, Msg("failed", turn[r], "none")) /\ UNCHANGED <<reqVars, seen, gone, aborts>>
    BY <1>2, <2>2, ReplyTypes DEF Types
  <2>3. CASE End(r) /\ aborts' = aborts + 1
    BY <2>3, EndTypes DEF Types
  <2>4. QED
    BY <2>1, <2>2, <2>3 DEF RunTool
<1>4. UNCHANGED <<rowVars, turnConv, asked, turns, drops>>
  BY DEF RunTool
<1>5. QED
  BY <1>3, <1>4 DEF RequestTypes, Types, rowVars

LEMMA BeginTypes ==
    ASSUME Types, NEW r \in Requests, NEW u \in Users, NEW c \in Conversations,
           NEW phase \in {"tier", "loaded"}, Start(r, u, c, phase)
    PROVE  RequestTypes' /\ CountTypes'
<1>1. turns + 1 \in 0..MaxTurns
  BY DEF Start, Types
<1>2. /\ pc' \in [Requests -> {"idle", "tier", "loaded"} \cup Working]
      /\ user' \in [Requests -> Users \cup {NoUser}]
      /\ conv' \in [Requests -> Conversations \cup {NoUser}]
      /\ reply' \in [Requests -> Message]
      /\ gone' \in [Requests -> BOOLEAN]
  BY DEF Start, Types
<1>3. turn' \in [Requests -> 0..MaxTurns]
  BY <1>1 DEF Start, Types
<1>4. seen' \in [Requests -> Seq(Message)]
  <2>1. (IF owner[c] = u THEN messages[c] ELSE <<>>) \in Seq(Message)
    BY DEF Types
  <2>2. QED
    BY <2>1 DEF Start, Types
<1>5. CountTypes'
  BY <1>1 DEF Start, Types, CountTypes
<1>6. QED
  BY <1>2, <1>3, <1>4, <1>5 DEF RequestTypes

LEMMA TypesStep == Types /\ RequestsOK /\ [Next]_vars => Types'
<1> SUFFICES ASSUME Types, RequestsOK, [Next]_vars PROVE Types'
  OBVIOUS
<1> USE DEF reqVars, histVars, boundVars, rowVars
<1>1. ASSUME NEW r \in Requests, Turn(r) PROVE Types'
  <2>0. turn[r] \in 0..MaxTurns
    BY DEF Types
  <2>1. ASSUME NEW u \in Users, NEW c \in Conversations, NewConversation(r, u, c) PROVE Types'
    <3>1. RequestTypes' /\ CountTypes'
      BY <2>1, BeginTypes DEF NewConversation
    <3>2. [owner EXCEPT ![c] = u] \in [Conversations -> Users \cup {NoUser}]
      BY DEF Types
    <3>3. RowTypes'
      BY <2>1, <3>2, KeepTypes DEF NewConversation
    <3>4. QED
      BY <3>1, <3>3 DEF RequestTypes, RowTypes, CountTypes, Types
  <2>2. ASSUME NEW u \in Users, NEW c \in Conversations, NEW p \in {"tier", "loaded"},
               OpenConversation(r, u, c, p)
        PROVE  Types'
    <3>1. RequestTypes' /\ CountTypes'
      BY <2>2, BeginTypes DEF OpenConversation
    <3>2. QED
      BY <2>2, <3>1 DEF OpenConversation, RequestTypes, CountTypes, Types
  <2>3. CASE SetTier(r)
    BY <2>3 DEF SetTier, Types
  <2>4. ASSUME NEW k \in {"text", "failed"}, Answer(r, k) PROVE Types'
    <3>1. Msg(k, turn[r], "none") \in Message
      BY <2>0, MessageType DEF Kinds
    <3>2. RequestTypes'
      BY <2>4, <3>1, ReplyTypes DEF Answer
    <3>3. QED
      BY <2>4, <3>2 DEF Answer, RequestTypes, Types
  <2>5. ASSUME NEW i \in Intents, Ask(r, i.tool, i.confident) PROVE Types'
    <3>1. Msg("ask", turn[r], i.tool) \in Message
      BY <2>0, MessageType DEF Kinds, Intents
    <3>2. RequestTypes'
      BY <2>5, <3>1, ReplyTypes DEF Ask
    <3>3. asked' \in [Turns -> Autonomy \cup {"none"}]
      BY <2>5 DEF Ask, Intents, Types
    <3>4. QED
      BY <2>5, <3>2, <3>3 DEF Ask, RequestTypes, Types
  <2>6. CASE \/ \E i \in Intents : RunUnasked(r, i.tool, i.confident)
             \/ \E call \in 1..turn[r], tool \in Autonomy : RunByButton(r, call, tool)
             \/ RunByWord(r)
    BY <2>6, RunTypes DEF RunUnasked, RunByButton, RunByWord
  <2>7. CASE AppendLoad(r)
    <3>1. conv[r] \in Conversations => messages[conv[r]] \in Seq(Message)
      BY DEF Types
    <3>2. conv[r] \in Conversations
      BY <2>7 DEF AppendLoad, RequestsOK, Active
    <3>3. QED
      BY <2>7, <3>1, <3>2 DEF AppendLoad, Types, Working
  <2>8. CASE AppendUpdate(r)
    <3>1. CapMessages(Stored(r)) \in Seq(Message)
      BY StoredTail DEF KeepsEnd
    <3>2. messages' \in [Conversations -> Seq(Message)]
      BY <2>8, <3>1 DEF AppendUpdate, Stored, Types
    <3>3. QED
      BY <2>8, <3>2 DEF AppendUpdate, Types, Working
  <2>9. CASE AppendNotFound(r) \/ Stream(r) \/ StreamCancelled(r)
    <3>1. RequestTypes'
      BY <2>9, EndTypes DEF AppendNotFound, Stream, StreamCancelled
    <3>2. QED
      BY <2>9, <3>1 DEF AppendNotFound, Stream, StreamCancelled, RequestTypes, Types
  <2>10. QED
    BY <1>1, <2>1, <2>2, <2>3, <2>4, <2>5, <2>6, <2>7, <2>8, <2>9 DEF Turn
<1>2. ASSUME NEW r \in Requests, Disconnect(r) PROVE Types'
  BY <1>2 DEF Disconnect, Types
<1>3. ASSUME NEW r \in Requests, Abort(r) PROVE Types'
  <2>1. RequestTypes'
    BY <1>3, EndTypes DEF Abort
  <2>2. QED
    BY <1>3, <2>1 DEF Abort, RequestTypes, Types
<1>4. ASSUME NEW u \in Users, NEW S \in SUBSET Conversations, DeleteConversations(u, S)
      PROVE  Types'
  <2>1. owner \in [Conversations -> Users \cup {NoUser}]
    BY DEF Types
  <2>2. RowTypes'
    BY <1>4, <2>1, KeepTypes DEF DeleteConversations
  <2>3. QED
    BY <1>4, <2>2 DEF DeleteConversations, RowTypes, Types
<1>5. CASE UNCHANGED vars
  BY <1>5 DEF vars, Types
<1>6. QED
  BY <1>1, <1>2, <1>3, <1>4, <1>5 DEF Next

\* Where turns are not used up, what a message says of its turn stays.
LEMMA TurnsGrow ==
    ASSUME Types, NEW r \in Requests, Begins(r)
    PROVE  /\ turns \in Nat /\ turns' = turns + 1 /\ turns + 1 \in Turns
           /\ turnConv'[turns + 1] = conv'[r]
           /\ \A t \in Turns : t # turns + 1 => turnConv'[t] = turnConv[t]
           /\ \A c, m : MsgOf(m, c) /\ m \in Message => MsgNext(m, c)
<1>1. turns \in Nat /\ turns' = turns + 1 /\ turns + 1 \in Turns
  BY DEF Begins, Types, Turns
<1>2. /\ turnConv'[turns + 1] = conv'[r]
      /\ \A t \in Turns : t # turns + 1 => turnConv'[t] = turnConv[t]
  BY <1>1 DEF Begins, Types
<1>3. ASSUME NEW c, NEW m \in Message, MsgOf(m, c) PROVE MsgNext(m, c)
  <2>1. m.turn \in 0..MaxTurns
    BY DEF Message
  <2>2. asked' = asked
    BY DEF Begins
  <2>3. QED
    BY <1>1, <1>2, <1>3, <2>1, <2>2 DEF MsgOf, MsgNext, MsgIn, Turns
<1>4. QED
  BY <1>1, <1>2, <1>3

\* Steps that use no turn.
LEMMA TurnsKept ==
    ASSUME Types, TurnsStay, AskedStays, NEW m \in Message, NEW c, MsgOf(m, c)
    PROVE  MsgNext(m, c)
<1>1. m.turn \in 0..MaxTurns /\ turns \in 0..MaxTurns
  BY DEF Types, Message
<1>2. m.turn # 0 => m.turn \in Turns
  BY <1>1 DEF Turns
<1>3. QED
  BY <1>2 DEF TurnsStay, AskedStays, MsgOf, MsgNext, MsgIn

LEMMA RequestsStep ==
    ASSUME Types, RequestsOK, [Next]_vars
    PROVE  RequestsOK'
<1>1. ASSUME NEW r \in Requests, Begins(r) PROVE RequestsOK'
  <2>1. /\ turns \in Nat /\ turns' = turns + 1 /\ turns + 1 \in Turns
        /\ turnConv'[turns + 1] = conv'[r]
        /\ \A t \in Turns : t # turns + 1 => turnConv'[t] = turnConv[t]
    BY <1>1, TurnsGrow
  <2>2. ASSUME NEW q \in Requests, q # r, Active(q)'
        PROVE  /\ Active(q) /\ Same(q) /\ turn'[q] # 0 /\ turn'[q] =< turns
               /\ conv'[q] \in Conversations /\ turnConv'[turn'[q]] = conv'[q]
               /\ user'[q] \in Users /\ owner'[conv'[q]] \in {user'[q], NoUser}
               /\ pc'[q] \in Working => reply'[q].turn = turn'[q]
    <3>1. Same(q) /\ Active(q)
      BY <1>1, <2>2 DEF Begins, Others, Same, Active
    <3>2. /\ turn[q] # 0 /\ turn[q] =< turns
          /\ conv[q] \in Conversations /\ turnConv[turn[q]] = conv[q]
          /\ user[q] \in Users /\ owner[conv[q]] \in {user[q], NoUser}
          /\ pc[q] \in Working => reply[q].turn = turn[q]
      BY <3>1 DEF RequestsOK
    <3>3. turn[q] \in Turns /\ turn[q] # turns + 1
      BY <2>1, <3>2 DEF Types, Turns
    <3>4. owner'[conv[q]] \in {user[q], NoUser}
      <4>1. CASE conv[q] # conv'[r]
        BY <1>1, <3>2, <4>1 DEF Begins, Shrinks
      <4>2. CASE conv[q] = conv'[r]
        <5>1. owner[conv'[r]] = user'[r]
          BY <1>1, <3>2, <3>3, <4>2 DEF Begins
        <5>2. user'[r] # NoUser /\ owner'[conv'[r]] \in {user'[r], NoUser}
          BY <1>1 DEF Begins
        <5>3. QED
          BY <3>2, <4>2, <5>1, <5>2
      <4>3. QED
        BY <4>1, <4>2
    <3>5. QED
      BY <2>1, <3>1, <3>2, <3>3, <3>4 DEF Same, Identity
  <2>3. /\ turn'[r] = turns + 1 /\ conv'[r] \in Conversations
        /\ user'[r] \in Users
        /\ owner'[conv'[r]] \in {user'[r], NoUser} /\ pc'[r] \notin Working
    BY <1>1 DEF Begins, Working
  <2>4. QED
    <3>1. \A q \in Requests : Active(q)' =>
            /\ turn'[q] # 0 /\ turn'[q] =< turns'
            /\ conv'[q] \in Conversations /\ turnConv'[turn'[q]] = conv'[q]
            /\ user'[q] \in Users /\ owner'[conv'[q]] \in {user'[q], NoUser}
            /\ pc'[q] \in Working => reply'[q].turn = turn'[q]
      <4>1. \A q \in Requests : turn'[q] \in Nat
        BY TypesStep DEF Types
      <4>2. QED
        BY <2>1, <2>2, <2>3, <4>1
    <3>2. ASSUME NEW q \in Requests, NEW x \in Requests, Active(q)', Active(x)', turn'[q] = turn'[x]
          PROVE  q = x
      <4>1. CASE q = r \/ x = r
        BY <2>1, <2>2, <2>3, <3>2, <4>1
      <4>2. CASE q # r /\ x # r
        BY <2>2, <3>2, <4>2 DEF RequestsOK, Same, Identity
      <4>3. QED
        BY <4>1, <4>2
    <3>3. QED
      BY <3>1, <3>2 DEF RequestsOK
\* Other steps use no turn, start no request and give no conversation away.
<1>2. ASSUME TurnsStay, \A q \in Requests : Active(q)' => Active(q) /\ Identity(q),
             \A q \in Requests : Active(q)' /\ pc'[q] \in Working => reply'[q].turn = turn[q],
             \A c \in Conversations : owner'[c] \in {owner[c], NoUser}
      PROVE  RequestsOK'
  <2>1. ASSUME NEW q \in Requests, Active(q)'
        PROVE  /\ turn'[q] # 0 /\ turn'[q] =< turns'
               /\ conv'[q] \in Conversations /\ turnConv'[turn'[q]] = conv'[q]
               /\ user'[q] \in Users /\ owner'[conv'[q]] \in {user'[q], NoUser}
               /\ pc'[q] \in Working => reply'[q].turn = turn'[q]
    BY <1>2, <2>1 DEF RequestsOK, Identity, TurnsStay
  <2>2. ASSUME NEW q \in Requests, NEW x \in Requests, Active(q)', Active(x)', turn'[q] = turn'[x]
        PROVE  q = x
    BY <1>2, <2>2 DEF RequestsOK, Identity
  <2>3. QED
    BY <2>1, <2>2 DEF RequestsOK
<1>3. ASSUME NEW q \in Requests, Same(q)
      PROVE  /\ Active(q)' => Active(q) /\ Identity(q)
             /\ Active(q)' /\ pc'[q] \in Working => reply'[q].turn = turn[q]
  BY <1>3 DEF Same, Active, RequestsOK
<1>4. CASE Bystands
  <2>1. \A c \in Conversations : owner'[c] \in {owner[c], NoUser}
    BY <1>4 DEF Bystands, Shrinks
  <2>2. QED
    BY <1>2, <1>3, <1>4, <2>1 DEF Bystands
<1>5. ASSUME NEW r \in Requests, Goes(r) \/ Loads(r) \/ Stores(r) \/ Ends(r) PROVE RequestsOK'
  <2>1. Others(r) /\ TurnsStay /\ \A c \in Conversations : owner'[c] \in {owner[c], NoUser}
    BY <1>5 DEF Goes, Loads, Stores, Ends, RowsStay
  <2>2. Active(r)' => Active(r) /\ Identity(r)
    BY <1>5 DEF Goes, Loads, Stores, Ends, Active
  <2>3. Active(r)' /\ pc'[r] \in Working => reply'[r].turn = turn[r]
    BY <1>5 DEF Goes, Loads, Stores, Ends, Active, Working, RequestsOK
  <2>4. QED
    BY <1>2, <1>3, <2>1, <2>2, <2>3 DEF Others
<1>6. QED
  BY <1>1, <1>4, <1>5, StepIs

\* What a turn has asked about stays known.
LEMMA AskedStep ==
    ASSUME Types, RequestsOK, AskedOnce, [Next]_vars
    PROVE  AskedOnce' /\ AskedStays
<1>0. /\ Types' /\ RequestsOK' /\ turns \in Nat
      /\ \A r \in Requests : reply[r] \in Message /\ reply'[r] \in Message
  BY TypesStep, RequestsStep DEF Types
<1>1. ASSUME NEW r \in Requests, Begins(r) PROVE AskedOnce' /\ AskedStays
  <2>1. /\ turns' = turns + 1 /\ turns + 1 \in Turns /\ turn'[r] = turns + 1 /\ asked' = asked
        /\ pc'[r] \notin Working
        /\ \A c, m : MsgOf(m, c) /\ m \in Message => MsgNext(m, c)
    BY <1>1, TurnsGrow DEF Begins, Working
  <2>2. \A t \in Turns : t > turns' => asked'[t] = "none"
    BY <1>0, <2>1 DEF AskedOnce, Turns
  <2>3. asked'[turn'[r]] = "none"
    BY <1>0, <2>1 DEF AskedOnce, Turns
  <2>4. ASSUME NEW q \in Requests, q # r, Active(q)'
        PROVE  IF pc'[q] \in Working THEN MsgNext(reply'[q], conv'[q]) ELSE asked'[turn'[q]] = "none"
    <3>1. Same(q) /\ Active(q)
      BY <1>1, <2>4 DEF Begins, Others, Same, Active
    <3>2. IF pc[q] \in Working THEN MsgOf(reply[q], conv[q]) ELSE asked[turn[q]] = "none"
      BY <3>1 DEF AskedOnce
    <3>3. QED
      BY <1>0, <2>1, <3>1, <3>2 DEF Same, Identity
  <2>5. QED
    BY <2>1, <2>2, <2>3, <2>4 DEF AskedOnce, AskedStays, MsgOf, MsgNext
\* A request that another one leaves as it was.
<1>2. ASSUME TurnsStay, AskedStays, NEW q \in Requests, Identity(q), pc'[q] = pc[q],
             reply'[q] = reply[q], Active(q), asked'[turn[q]] = asked[turn[q]]
      PROVE  IF pc'[q] \in Working THEN MsgNext(reply'[q], conv'[q]) ELSE asked'[turn'[q]] = "none"
  BY <1>0, <1>2, TurnsKept DEF AskedOnce, Identity
\* Steps that ask nothing.
<1>3. ASSUME TurnsStay, asked' = asked,
             \A q \in Requests : Active(q)' => Active(q) /\ Identity(q) /\
                (Same(q) \/ (pc[q] \in Working /\ pc'[q] \in Working /\ reply'[q] = reply[q]))
      PROVE  AskedOnce' /\ AskedStays
  <2>1. AskedStays
    BY <1>3 DEF AskedStays
  <2>2. ASSUME NEW q \in Requests, Active(q)'
        PROVE  IF pc'[q] \in Working THEN MsgNext(reply'[q], conv'[q]) ELSE asked'[turn'[q]] = "none"
    <3>1. CASE Same(q)
      BY <1>2, <1>3, <2>1, <2>2, <3>1 DEF Same
    <3>2. CASE pc[q] \in Working /\ pc'[q] \in Working /\ reply'[q] = reply[q]
      <4>1. MsgOf(reply[q], conv[q]) /\ conv'[q] = conv[q]
        BY <1>3, <2>2, <3>2 DEF AskedOnce, Identity
      <4>2. QED
        BY <1>0, <1>3, <2>1, <3>2, <4>1, TurnsKept
    <3>3. QED
      BY <1>3, <2>2, <3>1, <3>2
  <2>3. QED
    BY <1>3, <2>1, <2>2 DEF AskedOnce, MsgOf, MsgNext, TurnsStay
<1>4. CASE Bystands
  <2>1. \A q \in Requests : Same(q) /\ Identity(q) /\ (Active(q)' => Active(q))
    BY <1>4 DEF Bystands, Same, Active
  <2>2. QED
    BY <1>3, <1>4, <2>1 DEF Bystands
<1>5. ASSUME NEW r \in Requests, Loads(r) \/ Stores(r) \/ Ends(r) PROVE AskedOnce' /\ AskedStays
  <2>1. TurnsStay /\ asked' = asked
    BY <1>5 DEF Loads, Stores, Ends
  <2>2. ASSUME NEW q \in Requests, q # r, Active(q)' PROVE Active(q) /\ Identity(q) /\ Same(q)
    BY <1>5, <2>2 DEF Loads, Stores, Ends, Others, Same, Active
  <2>3. Active(r)' => Active(r) /\ Identity(r) /\ pc[r] \in Working /\ pc'[r] \in Working
                      /\ reply'[r] = reply[r]
    BY <1>5 DEF Loads, Stores, Ends, Active, Working
  <2>4. QED
    BY <1>3, <2>1, <2>2, <2>3
<1>6. ASSUME NEW r \in Requests, Goes(r) PROVE AskedOnce' /\ AskedStays
  <2>1. TurnsStay /\ Others(r) /\ Identity(r) /\ Active(r) /\ pc[r] \in {"tier", "loaded"}
        /\ turn[r] \in Turns /\ turn[r] =< turns /\ turnConv[turn[r]] = conv[r]
    BY <1>6 DEF Goes, Active, RequestsOK, Types, Turns
  <2>2. asked[turn[r]] = "none" /\ \A t \in Turns : t # turn[r] => asked'[t] = asked[t]
    BY <1>6, <2>1 DEF Goes, Asks, AskedOnce, Working, Types
  <2>3. AskedStays
    BY <2>2 DEF AskedStays
  <2>4. \A t \in Turns : t > turns' => asked'[t] = "none"
    BY <1>0, <2>1, <2>2 DEF AskedOnce, TurnsStay, Turns
  <2>5. ASSUME NEW q \in Requests, q # r, Active(q)'
        PROVE  IF pc'[q] \in Working THEN MsgNext(reply'[q], conv'[q]) ELSE asked'[turn'[q]] = "none"
    <3>1. Same(q) /\ Active(q)
      BY <2>1, <2>5 DEF Others, Same, Active
    <3>2. turn[q] # turn[r] /\ turn[q] \in Turns
      BY <2>1, <2>5, <3>1 DEF RequestsOK, Types, Turns
    <3>3. QED
      BY <1>2, <2>1, <2>2, <2>3, <3>1, <3>2 DEF Same
  <2>6. IF pc'[r] \in Working THEN MsgNext(reply'[r], conv'[r]) ELSE asked'[turn'[r]] = "none"
    <3>1. CASE pc[r] = "tier"
      BY <1>6, <2>1, <2>2, <3>1 DEF Goes, Asks, Working, Identity
    <3>2. CASE pc[r] = "loaded"
      <4>1. /\ reply'[r].turn = turn[r] /\ pc'[r] = "append" /\ conv'[r] = conv[r]
            /\ turns' = turns /\ turnConv' = turnConv
        BY <1>6, <2>1, <3>2 DEF Goes, Identity, TurnsStay
      <4>2. reply'[r].kind = "ask" => reply'[r].tool # "none" /\ asked'[turn[r]] = reply'[r].tool
        BY <1>6, <2>1, <3>2 DEF Goes, Asks, Autonomy, Types
      <4>3. turn[r] # 0
        BY <2>1 DEF Turns
      <4>4. QED
        BY <2>1, <4>1, <4>2, <4>3 DEF MsgNext, MsgIn, Working
    <3>3. QED
      BY <2>1, <3>1, <3>2
  <2>7. QED
    BY <2>3, <2>4, <2>5, <2>6 DEF AskedOnce, MsgOf, MsgNext
<1>7. QED
  BY <1>1, <1>4, <1>5, <1>6, StepIs

\* The messages a request stores are of its conversation.
LEMMA StoredOf ==
    ASSUME Types, RequestsOK, AskedOnce, KnownTurns, NEW r \in Requests, pc[r] = "update",
           NEW i \in 1..Len(CapMessages(Stored(r)))
    PROVE  MsgOf(CapMessages(Stored(r))[i], conv[r])
<1>1. /\ Active(r) /\ turn[r] # 0 /\ turn[r] =< turns /\ turnConv[turn[r]] = conv[r]
      /\ reply[r].turn = turn[r]
  BY DEF Active, Working, RequestsOK
<1>2. MsgOf(reply[r], conv[r])
  BY <1>1 DEF AskedOnce, Working
<1>3. MsgOf(Msg("user", turn[r], "none"), conv[r]) /\ MsgOf(Summary, conv[r])
  BY <1>1 DEF MsgOf, MsgIn, Msg, Summary
<1>4. \A k \in 1..Len(seen[r]) : MsgOf(seen[r][k], conv[r])
  BY <1>1 DEF KnownTurns
<1>5. ASSUME NEW k \in 1..Len(Stored(r)) PROVE MsgOf(Stored(r)[k], conv[r])
  <2>1. k \in 1..Len(seen[r]) \/ k = Len(seen[r]) + 1 \/ k = Len(seen[r]) + 2
    BY StoredIs
  <2>2. QED
    BY <1>2, <1>3, <1>4, <2>1, StoredIs
<1>6. PICK d \in Int : KeepsEnd(Stored(r), CapMessages(Stored(r)), d)
  BY StoredTail
<1>7. CASE CapMessages(Stored(r))[i] = Summary
  BY <1>3, <1>7
<1>8. CASE i + d \in 1..Len(Stored(r)) /\ CapMessages(Stored(r))[i] = Stored(r)[i + d]
  BY <1>5, <1>8
<1>9. QED
  BY <1>6, <1>7, <1>8 DEF KeepsEnd

LEMMA KnownStep ==
    ASSUME Types, RequestsOK, AskedOnce, KnownTurns, [Next]_vars
    PROVE  KnownTurns'
<1>0. /\ Types' /\ RequestsOK' /\ AskedStays
      /\ \A c \in Conversations : \A i \in 1..Len(messages[c]) : messages[c][i] \in Message
      /\ \A q \in Requests : \A i \in 1..Len(seen[q]) : seen[q][i] \in Message
  BY TypesStep, RequestsStep, AskedStep DEF Types
<1>1. ASSUME NEW r \in Requests, Begins(r) PROVE KnownTurns'
  <2>1. \A c, m : MsgOf(m, c) /\ m \in Message => MsgNext(m, c)
    BY <1>1, TurnsGrow
  <2>2. ASSUME NEW c \in Conversations, NEW i \in 1..Len(messages'[c])
        PROVE  MsgNext(messages'[c][i], c)
    <3>1. messages'[c] \in {<<>>, messages[c]}
      BY <1>1 DEF Begins, Shrinks
    <3>2. messages'[c] = messages[c]
      BY <3>1
    <3>3. MsgOf(messages[c][i], c) /\ messages[c][i] \in Message
      BY <1>0, <3>2 DEF KnownTurns
    <3>4. QED
      BY <2>1, <3>2, <3>3
  <2>3. ASSUME NEW q \in Requests, q # r, Active(q)', NEW i \in 1..Len(seen'[q])
        PROVE  /\ MsgNext(seen'[q][i], conv'[q])
               /\ pc'[q] \in {"tier", "loaded"} => seen'[q][i].turn < turn'[q]
    <3>1. Same(q) /\ Active(q)
      BY <1>1, <2>3 DEF Begins, Others, Same, Active
    <3>2. /\ MsgOf(seen[q][i], conv[q]) /\ seen[q][i] \in Message
          /\ pc[q] \in {"tier", "loaded"} => seen[q][i].turn < turn[q]
      BY <1>0, <2>3, <3>1 DEF KnownTurns, Same
    <3>3. QED
      BY <2>1, <3>1, <3>2 DEF Same, Identity
  <2>4. ASSUME NEW i \in 1..Len(seen'[r])
        PROVE  MsgNext(seen'[r][i], conv'[r]) /\ seen'[r][i].turn < turn'[r]
    <3>1. seen'[r] = messages[conv'[r]] /\ conv'[r] \in Conversations
      BY <1>1 DEF Begins
    <3>2. MsgOf(seen'[r][i], conv'[r]) /\ seen'[r][i] \in Message
      BY <1>0, <3>1 DEF KnownTurns
    <3>3. seen'[r][i].turn =< turns
      BY <3>2 DEF MsgOf, MsgIn, Types, Message
    <3>4. turns \in Nat /\ turn'[r] = turns + 1 /\ seen'[r][i].turn \in Nat
      BY <1>1, <3>2 DEF Begins, Message, Types
    <3>5. QED
      BY <2>1, <3>2, <3>3, <3>4
  <2>5. QED
    BY <2>2, <2>3, <2>4 DEF KnownTurns, MsgOf, MsgNext
\* The conversations, and the requests whose place stays as it is, in the other steps.
<1>2. ASSUME TurnsStay, NEW c \in Conversations, Shrinks(c), NEW i \in 1..Len(messages'[c])
      PROVE  MsgNext(messages'[c][i], c)
  <2>1. messages'[c] = messages[c]
    BY <1>2 DEF Shrinks
  <2>2. QED
    BY <1>0, <1>2, <2>1, TurnsKept DEF KnownTurns
<1>3. ASSUME TurnsStay, NEW q \in Requests, Same(q), Active(q)', NEW i \in 1..Len(seen'[q])
      PROVE  /\ MsgNext(seen'[q][i], conv'[q])
             /\ pc'[q] \in {"tier", "loaded"} => seen'[q][i].turn < turn'[q]
  BY <1>0, <1>3, TurnsKept DEF KnownTurns, Same, Identity, Active
<1>4. CASE Bystands
  BY <1>2, <1>3, <1>4 DEF Bystands, KnownTurns, MsgOf, MsgNext
<1>5. ASSUME NEW r \in Requests, Goes(r) \/ Loads(r) \/ Ends(r) PROVE KnownTurns'
  <2>1. TurnsStay /\ Others(r) /\ \A c \in Conversations : Shrinks(c)
    BY <1>5 DEF Goes, Loads, Ends, RowsStay, Shrinks
  <2>2. ASSUME Active(r)', NEW i \in 1..Len(seen'[r])
        PROVE  /\ MsgNext(seen'[r][i], conv'[r])
               /\ pc'[r] \in {"tier", "loaded"} => seen'[r][i].turn < turn'[r]
    <3>1. CASE Goes(r)
      BY <1>0, <2>1, <2>2, <3>1, TurnsKept DEF Goes, Identity, KnownTurns, Active
    <3>2. CASE Loads(r)
      <4>1. conv'[r] = conv[r] /\ conv[r] \in Conversations /\ pc'[r] = "update"
        BY <3>2 DEF Loads, Identity, RequestsOK, Active
      <4>2. QED
        BY <1>0, <2>1, <2>2, <3>2, <4>1, TurnsKept DEF Loads, KnownTurns
    <3>3. CASE Ends(r)
      BY <2>2, <3>3 DEF Ends, Active
    <3>4. QED
      BY <1>5, <3>1, <3>2, <3>3
  <2>3. QED
    BY <1>2, <1>3, <2>1, <2>2 DEF Others, KnownTurns, MsgOf, MsgNext
<1>6. ASSUME NEW r \in Requests, Stores(r) PROVE KnownTurns'
  <2>1. TurnsStay /\ Others(r) /\ pc[r] = "update" /\ seen'[r] = <<>>
    BY <1>6 DEF Stores
  <2>2. ASSUME NEW c \in Conversations, NEW i \in 1..Len(messages'[c])
        PROVE  MsgNext(messages'[c][i], c)
    <3>1. CASE c = conv[r] /\ owner[c] = user[r]
      <4>1. messages'[c] = CapMessages(Stored(r))
        BY <1>6, <3>1 DEF Stores, Stored
      <4>2. messages'[c][i] \in Message
        BY <1>0, <2>2 DEF Types
      <4>3. QED
        BY <1>0, <2>1, <2>2, <3>1, <4>1, <4>2, StoredOf, TurnsKept
    <3>2. CASE ~(c = conv[r] /\ owner[c] = user[r])
      <4>1. messages'[c] = messages[c]
        BY <1>6, <3>2 DEF Stores
      <4>2. QED
        BY <1>0, <2>1, <2>2, <4>1, TurnsKept DEF KnownTurns
    <3>3. QED
      BY <3>1, <3>2
  <2>3. QED
    BY <1>3, <2>1, <2>2 DEF Others, KnownTurns, MsgOf, MsgNext
<1>7. QED
  BY <1>1, <1>4, <1>5, <1>6, StepIs

-----------------------------------------------------------------------------
(* Nothing that changes state runs unasked *)

LEMMA ChatInit == Init => ChatInv
<1> SUFFICES ASSUME Init PROVE ChatInv
  OBVIOUS
<1>1. /\ \A r \in Requests : ~Active(r) /\ pc[r] = "idle"
      /\ \A c \in Conversations : Len(messages[c]) = 0
      /\ runs = {}
  BY DEF Init, Active
<1>2. RequestsOK /\ AskedOnce /\ KnownTurns /\ RunsOK /\ GateHolds
  BY <1>1 DEF Init, RequestsOK, AskedOnce, KnownTurns, RunsOK, GateHolds
<1>3. QED
  BY <1>2, TypesInit DEF ChatInv

\* A tool that runs without the request's confirmation was asked about in the
\* conversation, or needs not be.
LEMMA RunIsAsked ==
    ASSUME ChatInv, NEW r \in Requests, pc[r] = "loaded", NEW x, MayRun(r, x)
    PROVE  /\ x.call \in Turns /\ x.turn \in Turns /\ x.turn = turn[r]
           /\ x.call =< x.turn /\ x.turn =< turns /\ x.tool # "none"
           /\ turnConv[x.call] = conv[r] /\ turnConv[x.turn] = conv[r]
           /\ \/ x.tool = "auto_safe" \/ x.how = "button"
              \/ x.how = "word" /\ x.call < x.turn /\ asked[x.call] = x.tool
           /\ \A y \in runs : y.turn # turn[r]
<1>1. /\ Active(r) /\ turn[r] \in Turns /\ turn[r] =< turns /\ turnConv[turn[r]] = conv[r]
      /\ turns \in Nat
  BY DEF Active, ChatInv, RequestsOK, Types, Turns
<1>2. \A y \in runs : y.turn # turn[r]
  BY <1>1 DEF ChatInv, RunsOK, Working
<1>3. CASE x.call = turn[r] /\ x.tool = "auto_safe"
  BY <1>1, <1>2, <1>3 DEF MayRun, Turns
<1>4. CASE /\ x.call \in 1..turn[r] /\ x.how = "button" /\ x.tool # "none"
           /\ x.call # turn[r] => turnConv[x.call] = conv[r]
  BY <1>1, <1>2, <1>4 DEF MayRun, Turns
<1>5. CASE \E i \in 1..Len(seen[r]) :
              /\ seen[r][i].kind = "ask" /\ x.call = seen[r][i].turn
              /\ x.how = "word" /\ x.tool = seen[r][i].tool
  <2>1. PICK i \in 1..Len(seen[r]) :
              /\ seen[r][i].kind = "ask" /\ x.call = seen[r][i].turn
              /\ x.how = "word" /\ x.tool = seen[r][i].tool
    BY <1>5
  <2>2. MsgOf(seen[r][i], conv[r]) /\ seen[r][i].turn < turn[r] /\ seen[r][i] \in Message
    BY <1>1, <2>1 DEF ChatInv, KnownTurns, Types
  <2>3. /\ x.call \in Turns /\ turnConv[x.call] = conv[r] /\ x.call < turn[r]
        /\ x.tool # "none" /\ asked[x.call] = x.tool
    BY <2>1, <2>2 DEF MsgOf, MsgIn, Message, Turns
  <2>4. QED
    BY <1>1, <1>2, <2>1, <2>3 DEF MayRun, Turns
<1>6. QED
  BY <1>3, <1>4, <1>5 DEF MayRun

LEMMA ChatStep == ChatInv /\ [Next]_vars => ChatInv'
<1> SUFFICES ASSUME ChatInv, [Next]_vars PROVE ChatInv'
  OBVIOUS
<1>1. /\ Types /\ RequestsOK /\ KnownTurns /\ RunsOK /\ GateHolds
      /\ Types' /\ RequestsOK' /\ AskedOnce' /\ KnownTurns' /\ AskedStays
  BY TypesStep, RequestsStep, AskedStep, KnownStep DEF ChatInv
<1>2. SUFFICES RunsOK' /\ GateHolds'
  BY <1>1 DEF ChatInv
<1>0. \A x \in runs, t \in Turns : asked[t] = x.tool => asked'[t] = x.tool
  BY <1>1 DEF RunsOK, AskedStays
<1>3. ASSUME NEW r \in Requests, Begins(r) PROVE RunsOK' /\ GateHolds'
  <2>1. runs' = runs /\ turns \in Nat /\ turns' = turns + 1 /\ turn'[r] = turns + 1
    BY <1>1, <1>3 DEF Begins, WorkStays, Types
  <2>2. ASSUME NEW x \in runs
        PROVE  turnConv'[x.call] = turnConv[x.call] /\ turnConv'[x.turn] = turnConv[x.turn]
    <3>1. /\ x.call \in Turns /\ x.turn \in Turns /\ x.call # turns + 1 /\ x.turn # turns + 1
      BY <1>1, <2>1 DEF RunsOK, Turns
    <3>2. QED
      BY <1>1, <1>3, <3>1, TurnsGrow
  <2>3. ASSUME NEW x \in runs, NEW q \in Requests, Active(q)', turn'[q] = x.turn
        PROVE  pc'[q] \in Working /\ reply'[q].kind = "result"
    <3>1. q # r
      BY <1>1, <2>1, <2>3 DEF RunsOK, Turns
    <3>2. Same(q)
      BY <1>3, <3>1 DEF Begins, Others
    <3>3. QED
      BY <1>1, <2>3, <3>2 DEF Same, Identity, Active, RunsOK
  <2>4. RunsOK'
    <3>1. ASSUME NEW x \in runs
          PROVE  /\ x.call \in Turns /\ x.turn \in Turns
                 /\ x.call =< x.turn /\ x.turn =< turns' /\ x.tool # "none"
                 /\ turnConv'[x.call] = turnConv'[x.turn]
      BY <1>1, <2>1, <2>2 DEF RunsOK, Turns
    <3>2. QED
      BY <2>1, <2>3, <3>1 DEF RunsOK
  <2>5. GateHolds'
    <3>1. SUFFICES ASSUME NEW x \in runs
                   PROVE  \/ x.tool = "auto_safe" \/ x.how = "button"
                          \/ /\ x.how = "word" /\ x.call < x.turn
                             /\ turnConv'[x.call] = turnConv'[x.turn]
                             /\ asked'[x.call] = x.tool
      BY <2>1 DEF GateHolds
    <3>2. x.call \in Turns
      BY <1>1 DEF RunsOK
    <3>3. asked[x.call] = x.tool => asked'[x.call] = x.tool
      BY <1>0, <3>2
    <3>4. QED
      BY <1>1, <2>2, <3>3 DEF GateHolds
  <2>6. QED
    BY <2>4, <2>5
\* Steps that run nothing.
<1>4. ASSUME TurnsStay, runs' = runs,
             \A q \in Requests : Active(q)' => Identity(q) /\ Active(q),
             \A q \in Requests : Active(q)' /\ pc[q] \in Working =>
                                    pc'[q] \in Working /\ reply'[q] = reply[q]
      PROVE  RunsOK' /\ GateHolds'
  BY <1>0, <1>1, <1>4 DEF RunsOK, GateHolds, TurnsStay, Identity
\* Steps that run something.
<1>5. ASSUME TurnsStay, NEW r \in Requests, NEW x, pc[r] = "loaded", MayRun(r, x),
             runs' = runs \cup {x}, Others(r),
             Active(r)' => pc'[r] \in Working /\ reply'[r].kind = "result" /\ Identity(r)
      PROVE  RunsOK' /\ GateHolds'
  <2>1. /\ x.call \in Turns /\ x.turn \in Turns /\ x.turn = turn[r]
        /\ x.call =< x.turn /\ x.turn =< turns /\ x.tool # "none"
        /\ turnConv[x.call] = conv[r] /\ turnConv[x.turn] = conv[r]
        /\ \/ x.tool = "auto_safe" \/ x.how = "button"
           \/ x.how = "word" /\ x.call < x.turn /\ asked[x.call] = x.tool
        /\ \A y \in runs : y.turn # turn[r]
    BY <1>5, RunIsAsked
  <2>2. ASSUME NEW y \in runs', NEW q \in Requests, Active(q)', turn'[q] = y.turn
        PROVE  pc'[q] \in Working /\ reply'[q].kind = "result"
    <3>1. CASE q = r
      BY <1>5, <2>2, <3>1
    <3>2. CASE q # r
      <4>1. Same(q) /\ Active(q) /\ turn[q] = y.turn
        BY <1>5, <2>2, <3>2 DEF Others, Same, Identity, Active
      <4>2. y # x
        BY <1>5, <2>1, <3>2, <4>1 DEF ChatInv, RequestsOK, Active
      <4>3. QED
        BY <1>1, <1>5, <2>2, <4>1, <4>2 DEF RunsOK, Same
    <3>3. QED
      BY <3>1, <3>2
  <2>3. RunsOK'
    BY <1>1, <1>5, <2>1, <2>2 DEF RunsOK, TurnsStay
  <2>4. GateHolds'
    <3>1. \A y \in runs : y.call \in Turns
      BY <1>1 DEF RunsOK
    <3>2. asked[x.call] = x.tool => asked'[x.call] = x.tool
      BY <1>1, <2>1 DEF AskedStays
    <3>3. QED
      BY <1>0, <1>1, <1>5, <2>1, <3>1, <3>2 DEF GateHolds, TurnsStay
  <2>5. QED
    BY <2>3, <2>4
<1>6. CASE Bystands
  <2>1. \A q \in Requests : Same(q)
    BY <1>6 DEF Bystands
  <2>2. QED
    BY <1>4, <1>6, <2>1 DEF Bystands, Same, Active, WorkStays
<1>7. ASSUME NEW r \in Requests, Goes(r) \/ Loads(r) \/ Stores(r) \/ Ends(r)
      PROVE  RunsOK' /\ GateHolds'
  <2>1. TurnsStay /\ Others(r)
    BY <1>7 DEF Goes, Loads, Stores, Ends
  <2>2. \A q \in Requests : q # r => (Active(q)' => Identity(q) /\ Active(q))
                                     /\ pc'[q] = pc[q] /\ reply'[q] = reply[q]
    BY <2>1 DEF Others, Same, Active
  <2>3. CASE runs' = runs
    <3>1. Active(r)' => Identity(r) /\ Active(r)
      BY <1>7 DEF Goes, Loads, Stores, Ends, Active
    <3>2. Active(r)' /\ pc[r] \in Working => pc'[r] \in Working /\ reply'[r] = reply[r]
      BY <1>7 DEF Goes, Loads, Stores, Ends, Active, Working
    <3>3. QED
      BY <1>4, <2>1, <2>2, <2>3, <3>1, <3>2
  <2>4. CASE runs' # runs
    <3>1. PICK x : MayRun(r, x) /\ runs' = runs \cup {x}
      BY <1>7, <2>4 DEF Goes, Loads, Stores, Ends, WorkStays
    <3>2. pc[r] = "loaded"
      BY <1>7, <2>4 DEF Goes, Loads, Stores, Ends, WorkStays
    <3>3. Active(r)' => pc'[r] \in Working /\ reply'[r].kind = "result" /\ Identity(r)
      BY <1>7, <2>4 DEF Goes, Loads, Stores, Ends, WorkStays, Active, Working
    <3>4. QED
      BY <1>5, <2>1, <3>1, <3>2, <3>3
  <2>5. QED
    BY <2>3, <2>4
<1>8. QED
  BY <1>1, <1>3, <1>6, <1>7, StepIs

\* A tool that changes state runs on a confirmation the request brings or on a typed
\* one, and on a typed one only if an earlier turn of the same conversation asked about
\* that tool, whatever requests overlap, break off, or are deleted under
\* (ToolDispatcher.dispatch, _pending_confirmation).
THEOREM NothingRunsUnasked == Spec => []GateHolds
<1>1. ChatInv => GateHolds
  BY DEF ChatInv
<1>2. QED
  BY ChatInit, ChatStep, <1>1, PTL DEF Spec

-----------------------------------------------------------------------------
(* What ran is audited *)

LEMMA AuditStep ==
    ASSUME ChatInv, ChatInv', AuditInv, [Next]_vars
    PROVE  AuditInv'
<1>1. /\ Types /\ RequestsOK /\ KnownTurns /\ RunsOK
      /\ drops \in Nat /\ aborts \in Nat
  BY DEF ChatInv, Types
<1>2. SUFFICES ASSUME drops' = 0, aborts' = 0
               PROVE  /\ \A r \in Requests : ~gone'[r]
                      /\ \A x \in runs' :
                            \/ x.turn \in audited'
                            \/ \E r \in Requests : Active(r)' /\ turn'[r] = x.turn
                            \/ turnConv'[x.turn] \notin Live'
  BY DEF AuditInv
<1>3. drops = 0 /\ aborts = 0 /\ drops' = drops /\ aborts' = aborts
  <2>1. drops' = drops \/ drops' = drops + 1
    BY <1>1, StepIs DEF Bystands, Begins, Goes, Loads, Stores, Ends
  <2>2. aborts' = aborts \/ aborts' = aborts + 1
    BY <1>1, StepIs DEF Bystands, Begins, Goes, Loads, Stores, Ends
  <2>3. QED
    BY <1>1, <1>2, <2>1, <2>2
<1>4. /\ \A r \in Requests : ~gone[r]
      /\ \A x \in runs : \/ x.turn \in audited
                         \/ \E r \in Requests : Active(r) /\ turn[r] = x.turn
                         \/ turnConv[x.turn] \notin Live
  BY <1>3 DEF AuditInv
<1>5. CASE Bystands
  <2>1. gone' = gone /\ runs' = runs /\ audited' = audited /\ turnConv' = turnConv
    BY <1>1, <1>3, <1>5 DEF Bystands, WorkStays, TurnsStay
  <2>2. Live' \subseteq Live
    BY <1>5 DEF Bystands, Shrinks, Live
  <2>3. \A r \in Requests : Active(r) => Active(r)' /\ turn'[r] = turn[r]
    BY <1>5 DEF Bystands, Same, Identity, Active
  <2>4. QED
    BY <1>4, <2>1, <2>2, <2>3
<1>6. ASSUME NEW r \in Requests, Begins(r)
      PROVE  /\ \A q \in Requests : ~gone'[q]
             /\ \A x \in runs' : \/ x.turn \in audited'
                                 \/ \E q \in Requests : Active(q)' /\ turn'[q] = x.turn
                                 \/ turnConv'[x.turn] \notin Live'
  <2>1. gone' = gone /\ runs' = runs /\ audited' = audited
    BY <1>6 DEF Begins, WorkStays
  <2>2. \A q \in Requests : Active(q) => Active(q)' /\ turn'[q] = turn[q]
    BY <1>6 DEF Begins, Others, Same, Identity, Active
  <2>3. ASSUME NEW x \in runs, turnConv[x.turn] \notin Live PROVE turnConv'[x.turn] \notin Live'
    <3>1. x.turn \in Turns /\ x.turn =< turns /\ turns \in Nat
      BY <1>1 DEF RunsOK, Types
    <3>2. turnConv'[x.turn] = turnConv[x.turn]
      BY <1>1, <1>6, <3>1, TurnsGrow DEF Turns
    <3>3. \A c \in Conversations : c \notin Live /\ c # conv'[r] => c \notin Live'
      BY <1>6 DEF Begins, Shrinks, Live
    <3>4. turnConv[x.turn] # conv'[r]
      <4>1. user'[r] # NoUser /\ conv'[r] \in Conversations
        BY <1>6 DEF Begins
      <4>2. CASE owner[conv'[r]] = user'[r]
        BY <2>3, <4>1, <4>2 DEF Live
      <4>3. CASE \A t \in Turns : turnConv[t] # conv'[r]
        BY <3>1, <4>3
      <4>4. QED
        BY <1>6, <4>2, <4>3 DEF Begins
    <3>5. QED
      BY <2>3, <3>2, <3>3, <3>4 DEF Live
  <2>4. QED
    BY <1>4, <2>1, <2>2, <2>3
<1>7. ASSUME NEW r \in Requests, Goes(r) \/ Loads(r) \/ Stores(r)
      PROVE  /\ \A q \in Requests : ~gone'[q]
             /\ \A x \in runs' : \/ x.turn \in audited'
                                 \/ \E q \in Requests : Active(q)' /\ turn'[q] = x.turn
                                 \/ turnConv'[x.turn] \notin Live'
  <2>1. gone' = gone /\ audited' = audited /\ TurnsStay /\ Others(r) /\ Identity(r) /\ Live' = Live
    BY <1>7 DEF Goes, Loads, Stores, WorkStays, RowsStay, Live
  <2>2. Active(r) /\ Active(r)'
    BY <1>7 DEF Goes, Loads, Stores, Active
  <2>3. \A q \in Requests : Active(q) => Active(q)' /\ turn'[q] = turn[q]
    BY <2>1, <2>2 DEF Others, Same, Identity, Active
  <2>4. \A x \in runs' : x \in runs \/ x.turn = turn[r]
    BY <1>7 DEF Goes, Loads, Stores, WorkStays, MayRun
  <2>5. QED
    BY <1>4, <2>1, <2>2, <2>3, <2>4 DEF TurnsStay
<1>8. ASSUME NEW r \in Requests, Ends(r)
      PROVE  /\ \A q \in Requests : ~gone'[q]
             /\ \A x \in runs' : \/ x.turn \in audited'
                                 \/ \E q \in Requests : Active(q)' /\ turn'[q] = x.turn
                                 \/ turnConv'[x.turn] \notin Live'
  <2>1. /\ TurnsStay /\ Others(r) /\ Live' = Live /\ runs' = runs
        /\ audited \subseteq audited' /\ Active(r)
        /\ \A q \in Requests : ~gone'[q]
    BY <1>1, <1>3, <1>4, <1>8 DEF Ends, RowsStay, Live, Active
  <2>2. \A q \in Requests : q # r /\ Active(q) => Active(q)' /\ turn'[q] = turn[q]
    BY <2>1 DEF Others, Same, Identity, Active
  <2>3. ASSUME NEW x \in runs, turn[r] = x.turn
        PROVE  x.turn \in audited' \/ turnConv[x.turn] \notin Live
    <3>1. pc[r] \in Working /\ reply[r].kind = "result"
      BY <1>1, <2>1, <2>3 DEF RunsOK
    <3>2. CASE owner[conv[r]] # user[r]
      BY <1>1, <2>1, <2>3, <3>2 DEF RequestsOK, Live
    <3>3. CASE audited' = audited \cup {t \in {turn[r]} : reply[r].kind = "result"}
      BY <2>3, <3>1, <3>3
    <3>4. QED
      BY <1>1, <1>3, <1>4, <1>8, <3>2, <3>3 DEF Ends
  <2>4. QED
    BY <1>4, <2>1, <2>2, <2>3 DEF TurnsStay
<1>9. QED
  BY <1>1, <1>5, <1>6, <1>7, <1>8, StepIs

\* What ran is audited once its request is over, unless a client left, a turn broke
\* off, or its conversation is deleted.
THEOREM WhatRanIsAudited == Spec => []RunsAudited
<1>1. Init => AuditInv
  BY DEF Init, AuditInv
<1>2. ChatInv /\ ChatInv' /\ AuditInv /\ [Next]_vars => AuditInv'
  BY AuditStep
<1>3. AuditInv => RunsAudited
  BY DEF AuditInv, RunsAudited, Active
<1>4. QED
  BY ChatInit, ChatStep, <1>1, <1>2, <1>3, PTL DEF Spec

-----------------------------------------------------------------------------
(* A conversation that is not disturbed *)

LEMMA AloneInit == Init => Alone
BY DEF Init, Alone, Active

LEMMA AloneStep ==
    ASSUME ChatInv, Alone, [Next]_vars
    PROVE  Alone'
<1>1. Types /\ RequestsOK
  BY DEF ChatInv
<1>2. ASSUME NEW r \in Requests, Begins(r) PROVE Alone'
  <2>1. /\ turns \in Nat /\ turns' = turns + 1 /\ turns + 1 \in Turns
        /\ turnConv'[turns + 1] = conv'[r]
        /\ \A t \in Turns : t # turns + 1 => turnConv'[t] = turnConv[t]
    BY <1>1, <1>2, TurnsGrow
  <2>2. /\ turn'[r] = turns + 1 /\ conv'[r] \in Conversations /\ conv'[r] # NoUser
        /\ disturbed \subseteq disturbed'
        /\ \A q \in Requests : q # r => Same(q)
        /\ conv'[r] \notin disturbed' => \A q \in Requests : Active(q) => conv[q] # conv'[r]
    BY <1>2 DEF Begins, Others
  <2>3. \A t \in Turns : t > turns' => turnConv'[t] = NoUser
    <3>1. ASSUME NEW t \in Turns, t > turns' PROVE turnConv'[t] = NoUser
      <4>1. t \in Nat /\ t > turns /\ t # turns + 1
        BY <2>1, <3>1 DEF Turns
      <4>2. QED
        BY <2>1, <4>1 DEF Alone
    <3>2. QED
      BY <3>1
  <2>4. ASSUME NEW q \in Requests, q # r, Active(q)', conv'[q] \notin disturbed'
        PROVE  /\ \A x \in Requests : Active(x)' /\ conv'[x] = conv'[q] => x = q
               /\ \A t \in Turns : turnConv'[t] = conv'[q] => t =< turn'[q]
    <3>1. Active(q) /\ Same(q) /\ conv[q] \notin disturbed
      BY <2>2, <2>4 DEF Same, Identity, Active
    <3>2. conv[q] # conv'[r]
      BY <2>2, <2>4, <3>1 DEF Same, Identity
    <3>3. QED
      BY <2>1, <2>2, <3>1, <3>2 DEF Alone, Same, Identity, Active
  <2>5. ASSUME conv'[r] \notin disturbed'
        PROVE  /\ \A x \in Requests : Active(x)' /\ conv'[x] = conv'[r] => x = r
               /\ \A t \in Turns : turnConv'[t] = conv'[r] => t =< turn'[r]
    <3>1. \A x \in Requests : Active(x)' /\ conv'[x] = conv'[r] => x = r
      BY <2>2, <2>5 DEF Same, Identity, Active
    <3>2. ASSUME NEW t \in Turns, turnConv'[t] = conv'[r] PROVE t =< turn'[r]
      <4>1. ~(t > turns')
        BY <2>2, <2>3, <3>2
      <4>2. QED
        BY <2>1, <2>2, <4>1 DEF Turns
    <3>3. QED
      BY <3>1, <3>2
  <2>6. \A c \in Conversations : owner'[c] = NoUser => messages'[c] = <<>>
    BY <1>2 DEF Begins, Shrinks, Alone
  <2>7. QED
    BY <2>3, <2>4, <2>5, <2>6 DEF Alone
\* Steps that use no turn, start no request and settle nothing.
<1>3. ASSUME TurnsStay, disturbed \subseteq disturbed',
             \A q \in Requests : Active(q)' => Active(q) /\ Identity(q),
             \A c \in Conversations : owner'[c] = NoUser => messages'[c] = <<>>
      PROVE  Alone'
  <2>1. ASSUME NEW r \in Requests, Active(r)', conv'[r] \notin disturbed'
        PROVE  /\ \A q \in Requests : Active(q)' /\ conv'[q] = conv'[r] => q = r
               /\ \A t \in Turns : turnConv'[t] = conv'[r] => t =< turn'[r]
    <3>1. Active(r) /\ Identity(r) /\ conv[r] \notin disturbed
      BY <1>3, <2>1 DEF Identity
    <3>2. QED
      BY <1>3, <3>1 DEF Alone, Identity, TurnsStay
  <2>2. QED
    BY <1>3, <2>1 DEF Alone, TurnsStay
<1>4. CASE Bystands
  <2>1. \A q \in Requests : Active(q)' => Active(q) /\ Identity(q)
    BY <1>4 DEF Bystands, Same, Active
  <2>2. \A c \in Conversations : owner'[c] = NoUser => messages'[c] = <<>>
    BY <1>4 DEF Bystands, Shrinks, Alone
  <2>3. QED
    BY <1>3, <1>4, <2>1, <2>2 DEF Bystands
<1>5. ASSUME NEW r \in Requests, Goes(r) \/ Loads(r) \/ Stores(r) \/ Ends(r) PROVE Alone'
  <2>1. TurnsStay /\ Others(r) /\ disturbed \subseteq disturbed'
    BY <1>5 DEF Goes, Loads, Stores, Ends
  <2>2. Active(r)' => Active(r) /\ Identity(r)
    BY <1>5 DEF Goes, Loads, Stores, Ends, Active
  <2>3. \A q \in Requests : Active(q)' => Active(q) /\ Identity(q)
    BY <2>1, <2>2 DEF Others, Same, Active
  <2>4. ASSUME NEW c \in Conversations, owner'[c] = NoUser PROVE messages'[c] = <<>>
    <3>1. owner[c] = NoUser /\ messages[c] = <<>>
      BY <1>5, <2>4 DEF Goes, Loads, Stores, Ends, RowsStay, Alone
    <3>2. CASE Goes(r) \/ Loads(r) \/ Ends(r)
      BY <3>1, <3>2 DEF Goes, Loads, Ends, RowsStay
    <3>3. CASE Stores(r)
      <4>1. ASSUME c = conv[r] PROVE owner[c] # user[r]
        <5>1. user[r] # NoUser
          BY <1>1, <3>3 DEF Stores, RequestsOK, Active
        <5>2. QED
          BY <3>1, <5>1
      <4>2. QED
        BY <3>1, <3>3, <4>1 DEF Stores
    <3>4. QED
      BY <1>5, <3>2, <3>3
  <2>5. QED
    BY <1>3, <2>1, <2>3, <2>4
<1>6. QED
  BY <1>1, <1>2, <1>4, <1>5, StepIs

-----------------------------------------------------------------------------
(* A typed "yes" runs a call once *)

LEMMA AnsweredKept ==
    ASSUME NEW msgs \in Seq(Message), NEW kept, NEW d, KeepsEnd(msgs, kept, d), NEW y,
           Answered(msgs, y)
    PROVE  Answered(kept, y)
<1>1. ASSUME NEW i \in 1..Len(kept), kept[i].kind = "ask", kept[i].turn = y.call
      PROVE  \E k \in 1..Len(kept) : i < k /\ kept[k].kind = "result"
  <2>1. /\ d \in Int /\ Len(kept) \in Nat /\ Len(kept) = Len(msgs) - d /\ Len(msgs) \in Nat
        /\ i + d \in 1..Len(msgs) /\ kept[i] = msgs[i + d]
    BY <1>1 DEF KeepsEnd, Summary, Msg
  <2>2. PICK k \in 1..Len(msgs) : i + d < k /\ msgs[k].kind = "result"
    BY <1>1, <2>1 DEF Answered
  <2>3. k - d \in 1..Len(kept) /\ i < k - d /\ k - d # 1 /\ (k - d) + d = k
    BY <2>1, <2>2
  <2>4. kept[k - d] = msgs[(k - d) + d]
    BY <2>3 DEF KeepsEnd
  <2>5. QED
    BY <2>2, <2>3, <2>4
<1>2. QED
  BY <1>1 DEF Answered

\* A request that records its turn is the one of its conversation that is at work.
LEMMA UnrecordedIs ==
    ASSUME ChatInv, NEW y \in runs, Unrecorded(y)
    PROVE  \E q \in Requests : /\ Active(q) /\ pc[q] \in {"append", "update"}
                               /\ turn[q] = y.turn /\ conv[q] = turnConv[y.turn]
BY DEF Unrecorded, ChatInv, RequestsOK, Active

LEMMA StoredAnswers ==
    ASSUME ChatInv, Alone, SettledInv, NEW r \in Requests, pc[r] = "update",
           conv[r] \notin disturbed, NEW y \in runs, turnConv[y.turn] = conv[r]
    PROVE  Answered(CapMessages(Stored(r)), y)
<1>1. Types /\ Active(r) /\ pc[r] \in Working
  BY DEF ChatInv, Active, Working
<1>2. DEFINE n == Len(seen[r])
<1>3. /\ n \in Nat /\ Len(Stored(r)) = n + 2 /\ Stored(r) \in Seq(Message)
      /\ \A i \in 1..n : Stored(r)[i] = seen[r][i]
      /\ Stored(r)[n + 1].kind = "user" /\ Stored(r)[n + 2] = reply[r]
  <2>1. /\ n \in Nat /\ Len(Stored(r)) = n + 2 /\ Stored(r) \in Seq(Message)
        /\ \A i \in 1..n : Stored(r)[i] = seen[r][i]
        /\ Stored(r)[n + 1] = Msg("user", turn[r], "none") /\ Stored(r)[n + 2] = reply[r]
    BY <1>1, StoredIs
  <2>2. Msg("user", turn[r], "none").kind = "user"
    BY DEF Msg
  <2>3. QED
    BY <2>1, <2>2
<1> HIDE DEF n
<1>4. \A i \in 1..(n + 2) : i \in 1..n \/ i = n + 1 \/ i = n + 2
  BY <1>3
<1>5. ASSUME NEW i \in 1..(n + 2), Stored(r)[i].kind = "ask", Stored(r)[i].turn = y.call
      PROVE  \E k \in 1..(n + 2) : i < k /\ Stored(r)[k].kind = "result"
  <2>1. CASE y.turn = turn[r]
    <3>1. reply[r].kind = "result"
      BY <1>1, <2>1 DEF ChatInv, RunsOK
    <3>2. i < n + 2 /\ n + 2 \in 1..(n + 2)
      BY <1>3, <1>4, <1>5, <3>1
    <3>3. QED
      BY <1>3, <3>1, <3>2
  <2>2. CASE y.turn # turn[r]
    <3>1. Answered(seen[r], y)
      BY <2>2 DEF SettledInv
    <3>2. CASE i \in 1..n
      <4>1. PICK k \in 1..n : i < k /\ seen[r][k].kind = "result"
        BY <1>3, <1>5, <3>1, <3>2 DEF Answered, n
      <4>2. k \in 1..(n + 2)
        BY <1>3
      <4>3. QED
        BY <1>3, <4>1, <4>2
    <3>3. CASE i = n + 2
      <4>1. y.call = turn[r]
        BY <1>1, <1>3, <1>5, <3>3 DEF ChatInv, RequestsOK
      <4>2. y.call \in Turns /\ y.turn \in Turns /\ y.call =< y.turn /\ y.turn =< turn[r]
        BY <1>1 DEF ChatInv, RunsOK, Alone
      <4>3. QED
        BY <2>2, <4>1, <4>2 DEF Turns
    <3>4. QED
      BY <1>3, <1>4, <1>5, <3>2, <3>3
  <2>3. QED
    BY <2>1, <2>2
<1>6. Answered(Stored(r), y)
  BY <1>3, <1>5 DEF Answered
<1>7. PICK d \in Int : KeepsEnd(Stored(r), CapMessages(Stored(r)), d)
  BY <1>1, StoredTail
<1>8. QED
  BY <1>3, <1>6, <1>7, AnsweredKept

LEMMA SettledInit == Init => SettledInv
BY DEF Init, SettledInv

LEMMA SettledStep ==
    ASSUME ChatInv, Alone, SettledInv, [Next]_vars
    PROVE  SettledInv'
<1>1. Types /\ RequestsOK /\ RunsOK
  BY DEF ChatInv
<1>2. ASSUME NEW r \in Requests, Begins(r) PROVE SettledInv'
  <2>1. /\ runs' = runs /\ disturbed \subseteq disturbed' /\ pc[r] = "idle"
        /\ pc'[r] \in {"tier", "loaded"} /\ conv'[r] \in Conversations
        /\ \A q \in Requests : q # r => Same(q)
        /\ conv'[r] \notin disturbed' => \A q \in Requests : Active(q) => conv[q] # conv'[r]
    BY <1>2 DEF Begins, Others, WorkStays
  <2>2. ASSUME NEW y \in runs
        PROVE  turnConv'[y.turn] = turnConv[y.turn] /\ (Unrecorded(y) => Unrecorded(y)')
    <3>1. y.turn \in Turns /\ y.turn # turns + 1
      BY <1>1 DEF RunsOK, Types
    <3>2. turnConv'[y.turn] = turnConv[y.turn]
      BY <1>1, <1>2, <3>1, TurnsGrow
    <3>3. QED
      BY <2>1, <3>2 DEF Unrecorded, Same, Identity
  <2>3. ASSUME NEW c \in Conversations, NEW y \in runs', c \notin disturbed',
               turnConv'[y.turn] = c, ~Unrecorded(y)'
        PROVE  Answered(messages'[c], y)
    <3>1. Answered(messages[c], y)
      BY <2>1, <2>2, <2>3 DEF SettledInv
    <3>2. messages'[c] \in {<<>>, messages[c]}
      BY <1>2 DEF Begins, Shrinks
    <3>3. QED
      BY <3>1, <3>2 DEF Answered
  <2>4. ASSUME NEW q \in Requests, NEW y \in runs', pc'[q] \in {"tier", "loaded", "update"},
               conv'[q] \notin disturbed', turnConv'[y.turn] = conv'[q], y.turn # turn'[q]
        PROVE  Answered(seen'[q], y)
    <3>1. CASE q # r
      BY <2>1, <2>2, <2>4, <3>1 DEF SettledInv, Same, Identity
    <3>2. CASE q = r
      <4>1. ~Unrecorded(y)
        BY <2>1, <2>2, <2>4, <3>2, UnrecordedIs
      <4>2. Answered(messages[conv'[r]], y)
        BY <2>1, <2>2, <2>4, <3>2, <4>1 DEF SettledInv
      <4>3. seen'[r] \in {<<>>, messages[conv'[r]]}
        BY <1>2 DEF Begins
      <4>4. QED
        BY <3>2, <4>2, <4>3 DEF Answered
    <3>3. QED
      BY <3>1, <3>2
  <2>5. QED
    BY <2>3, <2>4 DEF SettledInv
\* What a step leaves of the conversations that are not disturbed.
<1>3. ASSUME TurnsStay, NEW c \in Conversations, NEW y \in runs, c \notin disturbed,
             turnConv'[y.turn] = c, Unrecorded(y) => Unrecorded(y)', ~Unrecorded(y)',
             messages'[c] = messages[c] \/ messages'[c] = <<>>
      PROVE  Answered(messages'[c], y)
  <2>1. Answered(messages[c], y)
    BY <1>3 DEF SettledInv, TurnsStay
  <2>2. QED
    BY <1>3, <2>1 DEF Answered
\* What it leaves of a request that reads no conversation.
<1>4. ASSUME TurnsStay, NEW q \in Requests, NEW y \in runs, Identity(q),
             seen'[q] = seen[q], pc[q] \in {"tier", "loaded", "update"},
             conv'[q] \notin disturbed, turnConv'[y.turn] = conv'[q], y.turn # turn'[q]
      PROVE  Answered(seen'[q], y)
  BY <1>4 DEF SettledInv, TurnsStay, Identity
<1>5. CASE Bystands
  <2>1. /\ TurnsStay /\ runs' = runs /\ disturbed' = disturbed
        /\ \A q \in Requests : Same(q)
        /\ \A c \in Conversations : messages'[c] = messages[c] \/ messages'[c] = <<>>
    BY <1>5 DEF Bystands, Shrinks, WorkStays
  <2>2. \A y \in runs : Unrecorded(y) => Unrecorded(y)'
    BY <2>1 DEF Unrecorded, Same, Identity
  <2>3. QED
    BY <1>3, <1>4, <2>1, <2>2 DEF SettledInv, Same
<1>6. ASSUME NEW r \in Requests, Goes(r) PROVE SettledInv'
  <2>1. /\ TurnsStay /\ disturbed' = disturbed /\ pc[r] \in {"tier", "loaded"}
        /\ pc'[r] \in {"loaded", "append"} /\ Identity(r) /\ seen'[r] = seen[r]
        /\ \A q \in Requests : q # r => Same(q)
        /\ \A c \in Conversations : messages'[c] = messages[c]
    BY <1>6 DEF Goes, Others, RowsStay
  <2>2. \A y \in runs : Unrecorded(y) => Unrecorded(y)'
    BY <2>1 DEF Unrecorded, Same, Identity
  <2>3. ASSUME NEW x \in runs', x \notin runs
        PROVE  x.turn = turn[r] /\ turnConv[x.turn] = conv[r] /\ Unrecorded(x)'
    <3>1. pc[r] = "loaded" /\ pc'[r] = "append" /\ MayRun(r, x)
      BY <1>6, <2>3 DEF Goes
    <3>2. QED
      BY <2>1, <3>1, RunIsAsked DEF Unrecorded, Identity
  <2>4. ASSUME NEW c \in Conversations, NEW y \in runs', c \notin disturbed',
               turnConv'[y.turn] = c, ~Unrecorded(y)'
        PROVE  Answered(messages'[c], y)
    BY <1>3, <2>1, <2>2, <2>3, <2>4
  <2>5. ASSUME NEW q \in Requests, NEW y \in runs', pc'[q] \in {"tier", "loaded", "update"},
               conv'[q] \notin disturbed', turnConv'[y.turn] = conv'[q], y.turn # turn'[q]
        PROVE  Answered(seen'[q], y)
    <3>1. CASE y \in runs
      BY <1>4, <2>1, <2>5, <3>1 DEF Same
    <3>2. CASE y \notin runs
      <4>1. q # r /\ Active(q) /\ Active(r) /\ conv[q] = conv[r] /\ conv[q] \notin disturbed
        BY <2>1, <2>3, <2>5, <3>2 DEF Same, Identity, Active, TurnsStay
      <4>2. QED
        BY <4>1 DEF Alone
    <3>3. QED
      BY <3>1, <3>2
  <2>6. QED
    BY <2>4, <2>5 DEF SettledInv
<1>7. ASSUME NEW r \in Requests, Loads(r) PROVE SettledInv'
  <2>1. /\ TurnsStay /\ runs' = runs /\ disturbed' = disturbed
        /\ pc[r] = "append" /\ pc'[r] = "update" /\ Identity(r)
        /\ seen'[r] = messages[conv[r]] /\ conv[r] \in Conversations /\ Active(r)
        /\ \A q \in Requests : q # r => Same(q)
        /\ \A c \in Conversations : messages'[c] = messages[c]
    BY <1>1, <1>7 DEF Loads, Others, RowsStay, WorkStays, RequestsOK, Active
  <2>2. \A y \in runs : Unrecorded(y) => Unrecorded(y)'
    BY <2>1 DEF Unrecorded, Same, Identity
  <2>3. ASSUME NEW y \in runs, conv[r] \notin disturbed, turnConv[y.turn] = conv[r],
               y.turn # turn[r]
        PROVE  Answered(messages[conv[r]], y)
    <3>1. ~Unrecorded(y)
      BY <2>1, <2>3, UnrecordedIs DEF Alone
    <3>2. QED
      BY <2>1, <2>3, <3>1 DEF SettledInv
  <2>4. ASSUME NEW q \in Requests, NEW y \in runs, pc'[q] \in {"tier", "loaded", "update"},
               conv'[q] \notin disturbed', turnConv'[y.turn] = conv'[q], y.turn # turn'[q]
        PROVE  Answered(seen'[q], y)
    <3>1. CASE q = r
      BY <2>1, <2>3, <2>4, <3>1 DEF Identity, TurnsStay
    <3>2. CASE q # r
      BY <1>4, <2>1, <2>4, <3>2 DEF Same
    <3>3. QED
      BY <3>1, <3>2
  <2>5. QED
    BY <1>3, <2>1, <2>2, <2>4 DEF SettledInv
<1>8. ASSUME NEW r \in Requests, Stores(r) PROVE SettledInv'
  <2>1. /\ TurnsStay /\ runs' = runs /\ disturbed' = disturbed
        /\ pc[r] = "update" /\ pc'[r] = "stream" /\ Active(r)
        /\ \A q \in Requests : q # r => Same(q)
        /\ turnConv[turn[r]] = conv[r]
    BY <1>1, <1>8 DEF Stores, Others, WorkStays, RequestsOK, Active
  <2>2. ASSUME NEW y \in runs, turnConv[y.turn] # conv[r]
        PROVE  Unrecorded(y) => Unrecorded(y)'
    BY <2>1, <2>2 DEF Unrecorded, Same, Identity
  <2>3. ASSUME NEW c \in Conversations, NEW y \in runs, c \notin disturbed,
               turnConv'[y.turn] = c, ~Unrecorded(y)'
        PROVE  Answered(messages'[c], y)
    <3>1. CASE c # conv[r]
      <4>1. messages'[c] = messages[c] /\ turnConv[y.turn] # conv[r]
        BY <1>8, <2>1, <2>3, <3>1 DEF Stores, TurnsStay
      <4>2. QED
        BY <1>3, <2>1, <2>2, <2>3, <4>1
    <3>2. CASE c = conv[r] /\ owner[c] = user[r]
      <4>1. messages'[c] = CapMessages(Stored(r))
        BY <1>8, <3>2 DEF Stores, Stored
      <4>2. QED
        BY <2>1, <2>3, <3>2, <4>1, StoredAnswers DEF TurnsStay
    <3>3. CASE c = conv[r] /\ owner[c] # user[r]
      <4>1. messages'[c] = <<>>
        BY <1>1, <1>8, <2>1, <3>3 DEF Stores, RequestsOK, Alone
      <4>2. QED
        BY <4>1 DEF Answered
    <3>4. QED
      BY <3>1, <3>2, <3>3
  <2>4. ASSUME NEW q \in Requests, NEW y \in runs, pc'[q] \in {"tier", "loaded", "update"},
               conv'[q] \notin disturbed', turnConv'[y.turn] = conv'[q], y.turn # turn'[q]
        PROVE  Answered(seen'[q], y)
    BY <1>4, <2>1, <2>4 DEF Same
  <2>5. QED
    BY <2>1, <2>3, <2>4 DEF SettledInv
<1>9. ASSUME NEW r \in Requests, Ends(r) PROVE SettledInv'
  <2>1. /\ TurnsStay /\ disturbed \subseteq disturbed' /\ Active(r) /\ pc'[r] = "idle"
        /\ \A q \in Requests : q # r => Same(q)
        /\ \A c \in Conversations : messages'[c] = messages[c]
        /\ turnConv[turn[r]] = conv[r]
    BY <1>1, <1>9 DEF Ends, Others, RowsStay, RequestsOK, Active
  <2>2. ASSUME NEW x \in runs', x \notin runs
        PROVE  turnConv'[x.turn] \in disturbed'
    <3>1. pc[r] = "loaded" /\ MayRun(r, x) /\ disturbed' = disturbed \cup {conv[r]}
      BY <1>9, <2>2 DEF Ends
    <3>2. QED
      BY <2>1, <3>1, RunIsAsked DEF TurnsStay
  <2>3. ASSUME NEW c \in Conversations, NEW y \in runs', c \notin disturbed',
               turnConv'[y.turn] = c, ~Unrecorded(y)'
        PROVE  Answered(messages'[c], y)
    <3>1. y \in runs /\ c \notin disturbed
      BY <2>1, <2>2, <2>3
    <3>2. CASE c # conv[r] \/ pc[r] = "stream"
      <4>1. Unrecorded(y) => Unrecorded(y)'
        BY <2>1, <2>3, <3>2 DEF Unrecorded, Same, Identity, TurnsStay
      <4>2. QED
        BY <1>3, <2>1, <2>3, <3>1, <4>1
    <3>3. CASE c = conv[r] /\ pc[r] # "stream"
      <4>1. owner[conv[r]] # user[r]
        BY <1>9, <2>3, <3>3 DEF Ends
      <4>2. messages'[c] = <<>>
        BY <1>1, <2>1, <3>3, <4>1 DEF RequestsOK, Alone
      <4>3. QED
        BY <4>2 DEF Answered
    <3>4. QED
      BY <3>2, <3>3
  <2>4. ASSUME NEW q \in Requests, NEW y \in runs', pc'[q] \in {"tier", "loaded", "update"},
               conv'[q] \notin disturbed', turnConv'[y.turn] = conv'[q], y.turn # turn'[q]
        PROVE  Answered(seen'[q], y)
    <3>1. y \in runs /\ q # r
      BY <2>1, <2>2, <2>4
    <3>2. QED
      BY <1>4, <2>1, <2>4, <3>1 DEF Same
  <2>5. QED
    BY <2>3, <2>4 DEF SettledInv
<1>10. QED
  BY <1>1, <1>2, <1>5, <1>6, <1>7, <1>8, <1>9, StepIs

\* A call that has run is not run by a word in a conversation that is not disturbed.
LEMMA WordIsNew ==
    ASSUME ChatInv, SettledInv, NEW r \in Requests, pc[r] = "loaded", NEW x, MayRun(r, x),
           x.how = "word", conv[r] \notin disturbed,
           NEW y \in runs, x.call = y.call
    PROVE  FALSE
<1>1. PICK i \in 1..Len(seen[r]) :
          /\ seen[r][i].kind = "ask" /\ x.call = seen[r][i].turn
          /\ \A k \in 1..Len(seen[r]) : i < k => seen[r][k].kind # "result"
  BY DEF MayRun
<1>2. turnConv[y.turn] = conv[r] /\ y.turn # turn[r]
  <2>1. turnConv[x.call] = conv[r] /\ \A z \in runs : z.turn # turn[r]
    BY RunIsAsked
  <2>2. turnConv[y.call] = turnConv[y.turn]
    BY DEF ChatInv, RunsOK
  <2>3. QED
    BY <2>1, <2>2
<1>3. Answered(seen[r], y)
  BY <1>2 DEF SettledInv
<1>4. QED
  BY <1>1, <1>3 DEF Answered

LEMMA YesStep ==
    ASSUME ChatInv, Alone, SettledInv, TypedYesRunsOnce, [Next]_vars
    PROVE  TypedYesRunsOnce'
<1>1. Types /\ RunsOK
  BY DEF ChatInv
\* Steps that run nothing.
<1>2. ASSUME runs' = runs, disturbed \subseteq disturbed',
             \A x \in runs : turnConv'[x.turn] = turnConv[x.turn]
      PROVE  TypedYesRunsOnce'
  BY <1>2 DEF TypedYesRunsOnce
<1>3. ASSUME NEW r \in Requests, Begins(r) PROVE TypedYesRunsOnce'
  <2>1. runs' = runs /\ disturbed \subseteq disturbed'
    BY <1>3 DEF Begins, WorkStays
  <2>2. ASSUME NEW x \in runs PROVE turnConv'[x.turn] = turnConv[x.turn]
    <3>1. x.turn \in Turns /\ x.turn # turns + 1
      BY <1>1 DEF RunsOK, Types
    <3>2. QED
      BY <1>1, <1>3, <3>1, TurnsGrow
  <2>3. QED
    BY <1>2, <2>1, <2>2
<1>4. CASE Bystands
  BY <1>2, <1>4 DEF Bystands, WorkStays, TurnsStay
\* A step that runs something.
<1>5. ASSUME TurnsStay, disturbed \subseteq disturbed', NEW r \in Requests, NEW z,
             pc[r] = "loaded", MayRun(r, z), runs' = runs \cup {z}
      PROVE  TypedYesRunsOnce'
  <2>1. SUFFICES ASSUME NEW x \in runs', NEW y \in runs', x.how = "word", x.call = y.call,
                        y.turn < x.turn, turnConv[x.turn] \notin disturbed
                 PROVE  FALSE
    BY <1>5 DEF TypedYesRunsOnce, TurnsStay
  <2>2. /\ z.turn = turn[r] /\ z.turn \in Turns
        /\ turnConv[z.turn] = conv[r] /\ turnConv[z.call] = conv[r]
    BY <1>5, RunIsAsked
  <2>3. \A v \in runs : v.turn \in Turns /\ turnConv[v.call] = turnConv[v.turn]
    BY <1>1 DEF RunsOK
  <2>4. CASE x \in runs /\ y \in runs
    BY <2>1, <2>4 DEF TypedYesRunsOnce
  <2>5. CASE x = z
    <3>1. y \in runs
      BY <1>5, <2>1, <2>2, <2>5 DEF Turns
    <3>2. QED
      BY <1>5, <2>1, <2>2, <2>5, <3>1, WordIsNew
  <2>6. CASE x \in runs /\ y = z
    <3>1. turnConv[x.turn] = conv[r] /\ conv[r] \notin disturbed /\ Active(r)
      BY <1>5, <2>1, <2>2, <2>3, <2>6 DEF Active
    <3>2. x.turn =< turn[r]
      BY <2>3, <2>6, <3>1 DEF Alone
    <3>3. QED
      BY <2>1, <2>2, <2>3, <2>6, <3>2 DEF Turns
  <2>7. QED
    BY <1>5, <2>4, <2>5, <2>6
<1>6. ASSUME NEW r \in Requests, Goes(r) \/ Loads(r) \/ Stores(r) \/ Ends(r)
      PROVE  TypedYesRunsOnce'
  <2>1. TurnsStay /\ disturbed \subseteq disturbed'
    BY <1>6 DEF Goes, Loads, Stores, Ends
  <2>2. CASE runs' = runs
    BY <1>2, <2>1, <2>2 DEF TurnsStay
  <2>3. CASE runs' # runs
    <3>1. pc[r] = "loaded" /\ \E z : MayRun(r, z) /\ runs' = runs \cup {z}
      BY <1>6, <2>3 DEF Goes, Loads, Stores, Ends, WorkStays
    <3>2. QED
      BY <1>5, <2>1, <3>1
  <2>4. QED
    BY <2>2, <2>3
<1>7. QED
  BY <1>1, <1>3, <1>4, <1>6, StepIs

\* A call that has run does not run again for a typed "yes", unless turns of its
\* conversation overlapped or one broke off.
THEOREM YesRunsOnce == Spec => []TypedYesRunsOnce
<1>1. Init => TypedYesRunsOnce
  BY DEF Init, TypedYesRunsOnce
<1>2. ChatInv /\ Alone /\ [Next]_vars => Alone'
  BY AloneStep
<1>3. ChatInv /\ Alone /\ SettledInv /\ [Next]_vars => SettledInv'
  BY SettledStep
<1>4. ChatInv /\ Alone /\ SettledInv /\ TypedYesRunsOnce /\ [Next]_vars => TypedYesRunsOnce'
  BY YesStep
<1>5. QED
  BY ChatInit, ChatStep, AloneInit, SettledInit, <1>1, <1>2, <1>3, <1>4, PTL DEF Spec

-----------------------------------------------------------------------------
(* The history is in order *)

LEMMA OrderedKept ==
    ASSUME NEW msgs \in Seq(Message), NEW kept, NEW d, KeepsEnd(msgs, kept, d), Ordered(msgs)
    PROVE  Ordered(kept)
<1>1. ASSUME NEW i \in 1..Len(kept), NEW k \in 1..Len(kept), i < k
      PROVE  kept[i].turn =< kept[k].turn
  <2>1. /\ d \in Int /\ Len(kept) \in Nat /\ Len(msgs) \in Nat
        /\ kept[k] \in Message /\ k # 1
        /\ k + d \in 1..Len(msgs) /\ kept[k] = msgs[k + d]
    BY <1>1 DEF KeepsEnd
  <2>2. CASE kept[i] = Summary
    <3>1. kept[i].turn = 0 /\ kept[k].turn \in Nat
      BY <2>1, <2>2 DEF Summary, Msg, Message
    <3>2. QED
      BY <3>1
  <2>3. CASE i + d \in 1..Len(msgs) /\ kept[i] = msgs[i + d]
    <3>1. i + d < k + d
      BY <1>1, <2>1
    <3>2. QED
      BY <2>1, <2>3, <3>1 DEF Ordered
  <2>4. QED
    BY <2>2, <2>3 DEF KeepsEnd
<1>2. QED
  BY <1>1 DEF Ordered

\* What a request stores in a conversation that is not disturbed is in order, and
\* ends with its turn, which is the latest.
LEMMA StoredOrder ==
    ASSUME ChatInv, Alone, HistoryInv, NEW r \in Requests, pc[r] = "update",
           conv[r] \notin disturbed
    PROVE  LET kept == CapMessages(Stored(r))
           IN  /\ Ordered(kept) /\ Len(kept) > 0
               /\ \A t \in Turns : turnConv[t] = conv[r] => t =< kept[Len(kept)].turn
<1>1. Types /\ Active(r) /\ pc[r] \in Working
  BY DEF ChatInv, Active, Working
<1>2. /\ turn[r] \in Nat /\ reply[r].turn = turn[r]
      /\ \A t \in Turns : turnConv[t] = conv[r] => t =< turn[r]
  BY <1>1 DEF Types, ChatInv, RequestsOK, Alone
<1>3. DEFINE n == Len(seen[r])
<1>4. /\ n \in Nat /\ Len(Stored(r)) = n + 2 /\ Stored(r) \in Seq(Message)
      /\ \A i \in 1..n : Stored(r)[i] = seen[r][i]
      /\ Stored(r)[n + 1].turn = turn[r] /\ Stored(r)[n + 2] = reply[r]
  <2>1. /\ n \in Nat /\ Len(Stored(r)) = n + 2 /\ Stored(r) \in Seq(Message)
        /\ \A i \in 1..n : Stored(r)[i] = seen[r][i]
        /\ Stored(r)[n + 1] = Msg("user", turn[r], "none") /\ Stored(r)[n + 2] = reply[r]
    BY <1>1, StoredIs
  <2>2. Msg("user", turn[r], "none").turn = turn[r]
    BY DEF Msg
  <2>3. QED
    BY <2>1, <2>2
<1>5. ASSUME NEW i \in 1..n PROVE Stored(r)[i].turn =< turn[r]
  <2>1. MsgOf(seen[r][i], conv[r]) /\ seen[r][i] \in Message
    <3>1. KnownTurns
      BY DEF ChatInv
    <3>2. MsgOf(seen[r][i], conv[r])
      BY <1>1, <3>1 DEF KnownTurns
    <3>3. seen[r] \in Seq(Message)
      BY <1>1 DEF Types
    <3>4. QED
      BY <3>2, <3>3
  <2>2. seen[r][i].turn = 0 \/ (seen[r][i].turn \in Turns /\ turnConv[seen[r][i].turn] = conv[r])
    BY <2>1 DEF MsgOf, MsgIn, Message, Turns
  <2>3. QED
    BY <1>2, <1>4, <2>2
<1>6. ASSUME NEW i \in 1..n, NEW k \in 1..n, i < k PROVE Stored(r)[i].turn =< Stored(r)[k].turn
  BY <1>4, <1>6 DEF HistoryInv, Ordered
<1> HIDE DEF n
<1>7. Ordered(Stored(r))
  <2>1. ASSUME NEW i \in 1..(n + 2), NEW k \in 1..(n + 2), i < k
        PROVE  Stored(r)[i].turn =< Stored(r)[k].turn
    <3>1. CASE k \in 1..n
      BY <1>4, <1>6, <2>1, <3>1
    <3>2. CASE k \notin 1..n
      <4>1. Stored(r)[k].turn = turn[r]
        <5>1. k = n + 1 \/ k = n + 2
          BY <1>4, <3>2
        <5>2. QED
          BY <1>2, <1>4, <5>1
      <4>2. Stored(r)[i].turn =< turn[r]
        <5>1. i \in 1..n \/ i = n + 1
          BY <1>4, <2>1
        <5>2. QED
          BY <1>2, <1>4, <1>5, <5>1
      <4>3. QED
        BY <4>1, <4>2
    <3>3. QED
      BY <3>1, <3>2
  <2>2. QED
    BY <1>4, <2>1 DEF Ordered
<1>8. PICK d \in Int : KeepsEnd(Stored(r), CapMessages(Stored(r)), d)
  BY <1>1, StoredTail
<1>9. Ordered(CapMessages(Stored(r)))
  BY <1>4, <1>7, <1>8, OrderedKept
<1>10. /\ Len(CapMessages(Stored(r))) > 0
       /\ CapMessages(Stored(r))[Len(CapMessages(Stored(r)))] = reply[r]
  BY <1>4, <1>8 DEF KeepsEnd
<1>11. QED
  BY <1>2, <1>9, <1>10

LEMMA HistoryInit == Init => HistoryInv
BY DEF Init, HistoryInv, Ordered, Live

LEMMA HistoryStep ==
    ASSUME ChatInv, Alone, HistoryInv, [Next]_vars
    PROVE  HistoryInv'
<1>1. Types /\ RequestsOK
  BY DEF ChatInv
<1>2. ASSUME NEW r \in Requests, Begins(r) PROVE HistoryInv'
  <2>1. /\ disturbed \subseteq disturbed' /\ pc'[r] \in {"tier", "loaded"}
        /\ \A q \in Requests : q # r => Same(q)
    BY <1>2 DEF Begins, Others
  <2>2. ASSUME NEW c \in Conversations, c \notin disturbed' PROVE Ordered(messages'[c])
    <3>1. Ordered(messages[c]) /\ messages'[c] \in {<<>>, messages[c]}
      BY <1>2, <2>1, <2>2 DEF HistoryInv, Begins, Shrinks
    <3>2. QED
      BY <3>1 DEF Ordered
  <2>3. ASSUME NEW q \in Requests, pc'[q] = "update", conv'[q] \notin disturbed'
        PROVE  Ordered(seen'[q])
    BY <2>1, <2>3 DEF HistoryInv, Same, Identity
  <2>4. ASSUME NEW c \in Live', c \notin disturbed', Recorded(c)' PROVE EndsWithLatest(c)'
    <3>1. c # conv'[r]
      BY <2>1, <2>4 DEF Recorded, Active
    <3>2. c \in Live /\ messages'[c] = messages[c]
      BY <1>2, <2>4, <3>1 DEF Begins, Shrinks, Live
    <3>3. Recorded(c)
      <4>1. pc[r] = "idle"
        BY <1>2 DEF Begins
      <4>2. QED
        BY <2>1, <2>4, <4>1 DEF Recorded, Active, Same, Identity
    <3>4. EndsWithLatest(c)
      BY <2>1, <2>4, <3>2, <3>3 DEF HistoryInv
    <3>5. \A t \in Turns : turnConv'[t] = c => turnConv[t] = c
      BY <1>1, <1>2, <3>1, TurnsGrow
    <3>6. QED
      BY <3>2, <3>4, <3>5 DEF EndsWithLatest
  <2>5. QED
    BY <2>2, <2>3, <2>4 DEF HistoryInv
\* A conversation that a step leaves as it is, or deletes.
<1>3. ASSUME TurnsStay, NEW c \in Conversations, c \notin disturbed, Shrinks(c)
      PROVE  /\ Ordered(messages'[c])
             /\ c \in Live' /\ (c \in Live => Recorded(c)) => EndsWithLatest(c)'
  <2>1. Ordered(messages[c]) /\ messages'[c] \in {<<>>, messages[c]}
    BY <1>3 DEF HistoryInv, Shrinks
  <2>2. Ordered(messages'[c])
    BY <2>1 DEF Ordered
  <2>3. ASSUME c \in Live', c \in Live => Recorded(c) PROVE EndsWithLatest(c)'
    <3>1. c \in Live /\ messages'[c] = messages[c]
      BY <1>3, <2>3 DEF Shrinks, Live
    <3>2. EndsWithLatest(c)
      BY <1>3, <2>3, <3>1 DEF HistoryInv
    <3>3. QED
      BY <1>3, <3>1, <3>2 DEF EndsWithLatest, TurnsStay
  <2>4. QED
    BY <2>2, <2>3
<1>4. CASE Bystands
  <2>1. /\ TurnsStay /\ disturbed' = disturbed /\ \A c \in Conversations : Shrinks(c)
        /\ \A q \in Requests : Same(q)
    BY <1>4 DEF Bystands
  <2>2. \A c : Recorded(c)' => Recorded(c)
    BY <2>1 DEF Recorded, Active, Same, Identity
  <2>3. \A q \in Requests : pc'[q] = "update" /\ conv'[q] \notin disturbed' => Ordered(seen'[q])
    BY <2>1 DEF HistoryInv, Same, Identity
  <2>4. Live' \subseteq Conversations
    BY DEF Live
  <2>5. QED
    BY <1>3, <2>1, <2>2, <2>3, <2>4 DEF HistoryInv
<1>5. ASSUME NEW r \in Requests, Goes(r) \/ Loads(r) \/ Ends(r) PROVE HistoryInv'
  <2>1. /\ TurnsStay /\ disturbed \subseteq disturbed' /\ Active(r) /\ conv[r] \in Conversations
        /\ \A q \in Requests : q # r => Same(q)
        /\ \A c \in Conversations : Shrinks(c)
        /\ Live' = Live
    BY <1>1, <1>5 DEF Goes, Loads, Ends, Others, RowsStay, Shrinks, Live, RequestsOK, Active
  <2>2. ASSUME NEW c \in Live', c \notin disturbed', Recorded(c)' PROVE Recorded(c)
    <3>1. CASE c # conv[r] \/ pc[r] = "stream"
      BY <2>1, <2>2, <3>1 DEF Recorded, Active, Same, Identity
    <3>2. CASE c = conv[r] /\ pc[r] # "stream"
      <4>1. CASE Goes(r) \/ Loads(r)
        BY <2>2, <3>2, <4>1 DEF Goes, Loads, Recorded, Active, Identity
      <4>2. CASE Ends(r)
        <5>1. owner[conv[r]] # user[r]
          BY <2>2, <3>2, <4>2 DEF Ends
        <5>2. QED
          BY <1>1, <2>1, <2>2, <3>2, <5>1 DEF RequestsOK, Live
      <4>3. QED
        BY <1>5, <4>1, <4>2
    <3>3. QED
      BY <3>1, <3>2
  <2>3. ASSUME NEW q \in Requests, pc'[q] = "update", conv'[q] \notin disturbed'
        PROVE  Ordered(seen'[q])
    <3>1. CASE q # r
      BY <2>1, <2>3, <3>1 DEF HistoryInv, Same, Identity
    <3>2. CASE q = r
      <4>1. conv'[r] = conv[r] /\ seen'[r] = messages[conv[r]]
        BY <1>5, <2>3, <3>2 DEF Goes, Loads, Ends, Identity
      <4>2. QED
        BY <2>1, <2>3, <3>2, <4>1 DEF HistoryInv
    <3>3. QED
      BY <3>1, <3>2
  <2>4. Live' \subseteq Conversations
    BY DEF Live
  <2>5. QED
    BY <1>3, <2>1, <2>2, <2>3, <2>4 DEF HistoryInv
<1>6. ASSUME NEW r \in Requests, Stores(r) PROVE HistoryInv'
  <2>1. /\ TurnsStay /\ disturbed' = disturbed /\ pc[r] = "update" /\ pc'[r] = "stream"
        /\ Active(r) /\ \A q \in Requests : q # r => Same(q)
        /\ \A c \in Conversations : owner'[c] = owner[c]
    BY <1>6 DEF Stores, Others, Active
  <2>2. ASSUME NEW c \in Conversations, c \notin disturbed
        PROVE  /\ Ordered(messages'[c])
               /\ c \in Live' /\ Recorded(c)' => EndsWithLatest(c)'
    <3>1. CASE c # conv[r]
      <4>1. Shrinks(c)
        BY <1>6, <3>1 DEF Stores, Shrinks
      <4>2. Recorded(c)' => Recorded(c)
        BY <2>1, <3>1 DEF Recorded, Active, Same, Identity
      <4>3. QED
        BY <1>3, <2>1, <2>2, <4>1, <4>2
    <3>2. CASE c = conv[r] /\ owner[c] = user[r]
      <4>1. messages'[c] = CapMessages(Stored(r))
        BY <1>6, <3>2 DEF Stores, Stored
      <4>2. /\ Ordered(messages'[c]) /\ Len(messages'[c]) > 0
            /\ \A t \in Turns : turnConv[t] = c => t =< messages'[c][Len(messages'[c])].turn
        BY <2>1, <2>2, <3>2, <4>1, StoredOrder
      <4>3. QED
        BY <2>1, <4>2 DEF EndsWithLatest, TurnsStay
    <3>3. CASE c = conv[r] /\ owner[c] # user[r]
      <4>1. messages'[c] = messages[c] /\ c \notin Live'
        BY <1>1, <1>6, <2>1, <3>3 DEF Stores, RequestsOK, Live
      <4>2. QED
        BY <2>2, <4>1 DEF HistoryInv
    <3>4. QED
      BY <3>1, <3>2, <3>3
  <2>3. ASSUME NEW q \in Requests, pc'[q] = "update", conv'[q] \notin disturbed'
        PROVE  Ordered(seen'[q])
    BY <2>1, <2>3 DEF HistoryInv, Same, Identity
  <2>4. Live' \subseteq Conversations
    BY DEF Live
  <2>5. QED
    BY <2>1, <2>2, <2>3, <2>4 DEF HistoryInv
<1>7. QED
  BY <1>1, <1>2, <1>4, <1>5, <1>6, StepIs

\* The turns of a conversation stay in order, and it ends with its latest, unless
\* turns of it overlapped or one broke off.
THEOREM HistoryStaysInOrder == Spec => []HistoryInOrder
<1>1. ChatInv /\ Alone /\ [Next]_vars => Alone'
  BY AloneStep
<1>2. ChatInv /\ Alone /\ HistoryInv /\ [Next]_vars => HistoryInv'
  BY HistoryStep
<1>3. ASSUME ChatInv, HistoryInv PROVE HistoryInOrder
  <2>1. ASSUME NEW c \in Live, c \notin disturbed
        PROVE  /\ \A i \in 1..(Len(messages[c]) - 1) :
                      messages[c][i].turn =< messages[c][i + 1].turn
               /\ (\A r \in Requests : pc[r] # "idle" => conv[r] # c)
                    => /\ Len(messages[c]) > 0
                       /\ \A t \in Turns :
                             turnConv[t] = c => t =< messages[c][Len(messages[c])].turn
    <3>1. c \in Conversations /\ Len(messages[c]) \in Nat
      BY <1>3 DEF Live, ChatInv, Types
    <3>2. \A i \in 1..(Len(messages[c]) - 1) :
              i \in 1..Len(messages[c]) /\ i + 1 \in 1..Len(messages[c]) /\ i < i + 1
      BY <3>1
    <3>3. Ordered(messages[c])
      BY <1>3, <2>1, <3>1 DEF HistoryInv
    <3>4. (\A r \in Requests : pc[r] # "idle" => conv[r] # c) => EndsWithLatest(c)
      BY <1>3, <2>1 DEF HistoryInv, Recorded, Active
    <3>5. QED
      BY <3>2, <3>3, <3>4 DEF Ordered, EndsWithLatest
  <2>2. QED
    BY <2>1 DEF HistoryInOrder
<1>4. QED
  BY ChatInit, ChatStep, AloneInit, HistoryInit, <1>1, <1>2, <1>3, PTL DEF Spec
=============================================================================
