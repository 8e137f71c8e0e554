----------------------------- MODULE JobsProofs -----------------------------
(***************************************************************************)
(* Proofs about what the admin API runs: its jobs, the event streams that  *)
(* tail their log, and the migration runner.                               *)
(*                                                                         *)
(* The job runner, for any number of jobs, processes, scopes, threads,     *)
(* requests, crashes, errors and late heartbeats: a job has one carrier,   *)
(* the dispatcher that claimed it or the thread that has it (OneCarrier);  *)
(* what a carrier works on is running and its heartbeat is fresh, unless   *)
(* that heartbeat was late once (WorkIsRunning, CarriedIsFresh), so that   *)
(* no reaper gives its scope away.                                         *)
(*                                                                         *)
(* The event streams, for any number of events, emitters, broken           *)
(* connections and any page size: what goes out next is above the stream's *)
(* cursor (BatchAhead), and the cursor of a client that received something *)
(* is the last id it received (CursorKept), which is what makes a          *)
(* reconnection safe.                                                      *)
(*                                                                         *)
(* The migration runner, for any number of calls, files and versions: that *)
(* applies never interleave follows from who holds the lock                *)
(* (HolderApplies), and that SQL runs once from what the holder has seen   *)
(* of the recorded rows (InsertedUnrecorded).                              *)
(***************************************************************************)
EXTENDS Jobs, EventStream, Migrations, TLAPS

-----------------------------------------------------------------------------
(* The invariants *)

\* The dispatcher has a job in hand exactly between claiming and submitting it.
ClaimInHand == \A p \in Procs : dpc[p] = "submit" <=> claimed[p] # NoJob

Carries(p, j) == claimed[p] = j \/ thread[p][j] # "none"

Untaken == {j \in Jobs : status[j] \in {"absent", "queued"}}

\* A row is there once its request has inserted it.
InsertedLater ==
    \A j \in Jobs : req[j] \in {"new", "checked", "refused", "lost"} => status[j] = "absent"

\* A job nobody has claimed has no carrier, and one that was has one at most.
OneCarrier ==
    /\ \A p \in Procs : \A j \in Untaken : ~Carries(p, j)
    /\ \A p, q \in Procs : \A j \in Jobs : Carries(p, j) /\ Carries(q, j) => p = q
    /\ \A p \in Procs : \A j \in Jobs : claimed[p] = j => thread[p][j] = "none"

HasStarted(j) == \E n \in DOMAIN events[j] : events[j][n] = "started"

\* What waits for its thread has not been started.
StartIsAhead ==
    /\ \A j \in Untaken : ~HasStarted(j)
    /\ \A p \in Procs, j \in Jobs :
          claimed[p] = j \/ thread[p][j] = "pool" => ~HasStarted(j)

CarryInv == TypeOK /\ ClaimInHand /\ InsertedLater /\ OneCarrier

\* The thread of a job counts it as active.
ThreadIsActive == \A p \in Procs, j \in Jobs : thread[p][j] # "none" => j \in active[p]

\* What is being beaten for, or about to be, is fresh unless its heartbeat was late.
CarriedIsFresh ==
    \A p \in Procs, j \in Jobs :
        (claimed[p] = j \/ j \in Beating(p)) /\ j \notin late => fresh[j]

\* What a carrier has not finished is running, unless a reaper has given it up.
WorkIsRunning ==
    \A p \in Procs, j \in Jobs :
        \/ claimed[p] = j
        \/ thread[p][j] \in {"pool", "handler"}
        \/ thread[p][j] = "raised" /\ errors = 0
        => status[j] = "running" \/ (j \in late /\ status[j] = "failed")

WorkInv == ThreadIsActive /\ CarriedIsFresh /\ WorkIsRunning

\* Of the jobs of a scope one is open, or one is about to be inserted, but for the
\* requests another one got in between.
CheckedIsFree ==
    \A j \in InEnqueue : ScopeOf[j] # NoScope => j \in raced \/ Conflicting(j) = {}
OneOpen ==
    \A i, j \in Jobs : i # j /\ ScopeOf[i] = ScopeOf[j] /\ ScopeOf[i] # NoScope
                          => ~(status[i] \in Open /\ status[j] \in Open)
                             \/ raced \cap {i, j} # {}

ScopeInv == CheckedIsFree /\ OneOpen

\* As long as nothing goes wrong, somebody has every job that runs, what is reaped
\* was late, and whoever ends a job marks it and tells it before he lets go.
SomebodyHasIt == \A j \in Jobs : status[j] = "running" => Attended(j)
LateIsReaped ==
    \A p \in Procs : reaped[p] \subseteq late /\ (reaped[p] # {} => dpc[p] = "tell")

SaysEnd(j)    == \E n \in DOMAIN events[j] : events[j][n] = status[j]
SaysItLast(j) == events[j] # <<>> /\ events[j][Len(events[j])] = status[j]
Told(j)       == SaysEnd(j) /\ (j \in late \/ SaysItLast(j))

EndIsAhead ==
    \A j \in Jobs : status[j] \in Ended =>
        \/ Told(j) /\ (j \in late \/ \A p \in Procs : thread[p][j] \in {"none", "auditing"})
        \/ status[j] = "succeeded" /\ \E p \in Procs : thread[p][j] = "returned"
        \/ status[j] = "failed" /\ \E p \in Procs : thread[p][j] = "failing"
        \/ status[j] = "failed" /\ j \in late /\ \E p \in Procs : j \in reaped[p]

EndIsMarked ==
    \A p \in Procs, j \in Jobs :
        /\ thread[p][j] = "returned" => status[j] = "succeeded"
        /\ thread[p][j] \in {"failing", "auditing"} => status[j] = "failed"

TellInv ==
    crashes = 0 /\ errors = 0 =>
        /\ SomebodyHasIt
        /\ EndIsMarked
        /\ LateIsReaped
        /\ EndIsAhead

\* Of a single scheduler: the night it is about to mark is later than the one
\* marked last, and no job was requested yet for the one it has just marked.
OneScheduler == \A p, q \in Schedulers : p = q

NightsPass ==
    OneScheduler =>
        /\ marked =< night
        /\ \A j \in Jobs : nightOf[j] =< marked
        /\ \A p \in Schedulers :
              /\ tick[p].at = "mark" => marked < tick[p].of /\ tick[p].of =< night
              /\ tick[p].at = "ask" =>
                    tick[p].of = marked /\ \A j \in Jobs : nightOf[j] < marked

-----------------------------------------------------------------------------
(* Types *)

USE JobsAssumption

\* A job is not the number that stands for none.
LEMMA JobsArePositive == Jobs \subseteq Nat \ {0} /\ NoJob \notin Jobs
BY DEF Jobs, NoJob

\* Nothing is requested and nobody works: of the right types.
LEMMA TypeInit == Init => TypeOK
BY DEF Init, TypeOK, Open, Ended, Steps, Tick, Waiting, NoJob

\* What Tell does to the messages of each job.
LEMMA TellEffect ==
    ASSUME TypeOK, NEW j \in Jobs, NEW what \in {"started"} \cup Ended, Tell(j, what)
    PROVE  /\ events' \in [Jobs -> Seq({"started"} \cup Ended)]
           /\ events'[j] = Append(events[j], what)
           /\ \A i \in Jobs : i # j => events'[i] = events[i]
<1>1. events[j] \in Seq({"started"} \cup Ended)
  BY DEF TypeOK
<1>2. Append(events[j], what) \in Seq({"started"} \cup Ended)
  BY <1>1
<1>3. QED
  BY <1>2 DEF TypeOK, Tell

\* What a step of a thread does to the threads.
LEMMA GoToEffect ==
    ASSUME TypeOK, NEW p \in Procs, NEW j \in Jobs, NEW step \in Steps, GoTo(p, j, step)
    PROVE  /\ thread' \in [Procs -> [Jobs -> Steps]]
           /\ thread'[p][j] = step
           /\ \A q \in Procs, i \in Jobs : q # p \/ i # j => thread'[q][i] = thread[q][i]
<1>1. thread \in [Procs -> [Jobs -> Steps]]
  BY DEF TypeOK
<1>2. DEFINE mine == [thread[p] EXCEPT ![j] = step]
<1>3. thread[p] \in [Jobs -> Steps]
  BY <1>1
<1>4. mine \in [Jobs -> Steps] /\ mine[j] = step /\ \A i \in Jobs : i # j => mine[i] = thread[p][i]
  BY <1>3
<1>5. thread' = [thread EXCEPT ![p] = mine]
  BY DEF GoTo
<1> HIDE DEF mine
<1>6. thread' \in [Procs -> [Jobs -> Steps]] /\ thread'[p] = mine
  BY <1>1, <1>4, <1>5
<1>7. \A q \in Procs : q # p => thread'[q] = thread[q]
  BY <1>1, <1>5
<1>8. QED
  BY <1>4, <1>6, <1>7

\* A dispatcher submits a job.
LEMMA SubmitEffect ==
    ASSUME TypeOK, ClaimInHand, NEW p \in Procs, Submit(p)
    PROVE  claimed[p] \in Jobs /\ GoTo(p, claimed[p], "pool")
BY JobsArePositive DEF Submit, ClaimInHand, TypeOK, GoTo

\* What a crash does to the threads.
LEMMA CrashEffect ==
    ASSUME TypeOK, NEW p \in Procs, Crash(p)
    PROVE  /\ thread' \in [Procs -> [Jobs -> Steps]]
           /\ \A j \in Jobs : thread'[p][j] = "none"
           /\ \A q \in Procs : q # p => thread'[q] = thread[q]
<1>1. DEFINE idle == [j \in Jobs |-> "none"]
<1>2. idle \in [Jobs -> Steps] /\ \A j \in Jobs : idle[j] = "none"
  BY DEF Steps
<1>3. thread \in [Procs -> [Jobs -> Steps]] /\ thread' = [thread EXCEPT ![p] = idle]
  BY DEF TypeOK, Crash
<1> HIDE DEF idle
<1>4. thread' \in [Procs -> [Jobs -> Steps]] /\ thread'[p] = idle
  BY <1>2, <1>3
<1>5. \A q \in Procs : q # p => thread'[q] = thread[q]
  BY <1>3
<1>6. QED
  BY <1>2, <1>4, <1>5

\* The schedule stays of its types.
ScheduleTypeOK ==
    /\ night \in 0..MaxNights
    /\ marked \in 0..MaxNights
    /\ tick \in [Schedulers -> Tick]
    /\ nightOf \in [Jobs -> 0..MaxNights]

LEMMA ScheduleType ==
    ASSUME TypeOK, NEW p \in Schedulers, Schedule(p)
    PROVE  ScheduleTypeOK'
<1> USE DEF ScheduleTypeOK
<1>1. /\ ScheduleTypeOK /\ tick[p] \in Tick /\ tick[p].at \in {"wait", "mark", "ask"}
      /\ tick[p].of \in 0..MaxNights /\ Waiting \in Tick
  BY DEF TypeOK, Tick, Waiting
<1>2. CASE SeeDue(p)
  <2>1. [at |-> "mark", of |-> night] \in Tick
    BY <1>1 DEF Tick
  <2>2. QED
    BY <1>1, <1>2, <2>1 DEF SeeDue, jobVars
<1>3. CASE MarkTriggered(p)
  <2>1. DEFINE next == [tick[p] EXCEPT !.at = "ask"]
  <2>2. next \in Tick
    BY <1>1 DEF Tick
  <2>3. tick' = [tick EXCEPT ![p] = next] /\ marked' = tick[p].of /\ UNCHANGED <<night, nightOf>>
    BY <1>3 DEF MarkTriggered
  <2> HIDE DEF next
  <2>4. QED
    BY <1>1, <2>2, <2>3
<1>4. ASSUME NEW j \in Jobs, AskForRefresh(p, j) PROVE ScheduleTypeOK'
  BY <1>1, <1>4 DEF AskForRefresh
<1>5. CASE MissTick(p)
  BY <1>1, <1>5 DEF MissTick
<1>6. QED
  BY <1>2, <1>3, <1>4, <1>5 DEF Schedule

\* Every step keeps the types, given that a dispatcher submits what it has in
\* hand.
LEMMA TypeStep == TypeOK /\ ClaimInHand /\ [Next]_vars => TypeOK'
<1> SUFFICES ASSUME TypeOK, ClaimInHand, [Next]_vars PROVE TypeOK'
  OBVIOUS
<1> USE DEF dispatchVars, threadVars, scheduleVars, boundVars
<1>0. /\ \A x \in {"started", "succeeded", "failed"} : x \in {"started"} \cup Ended
      /\ \A x \in {"none", "pool", "handler", "returned", "raised", "failing", "auditing"} :
            x \in Steps
      /\ \A x \in {"absent", "queued", "running", "succeeded", "failed"} :
            x \in {"absent"} \cup Open \cup Ended
  BY DEF Steps, Open, Ended
<1>1. ASSUME NEW j \in Jobs, Request(j) PROVE TypeOK'
  <2>1. CASE CheckScope(j)
    BY <2>1 DEF TypeOK, CheckScope, Check
  <2>2. CASE InsertJob(j)
    <3>1. raced' \subseteq Jobs
      BY <2>2 DEF TypeOK, InsertJob, InEnqueue
    <3>2. QED
      BY <2>2, <3>1, <1>0 DEF TypeOK, InsertJob
  <2>3. CASE LoseRequest(j)
    BY <2>3 DEF TypeOK, LoseRequest
  <2>4. QED
    BY <1>1, <2>1, <2>2, <2>3 DEF Request
<1>2. ASSUME NEW j \in Jobs, GoStale(j) PROVE TypeOK'
  <2>1. stalls' \in 0..MaxFaults /\ late' \subseteq Jobs
    BY <1>2 DEF TypeOK, GoStale, MoreFaults
  <2>2. QED
    BY <1>2, <2>1 DEF TypeOK, GoStale
<1>3. ASSUME NEW p \in Procs, Dispatch(p) PROVE TypeOK'
  <2>1. CASE Reap(p)
    <3>1. Stale \subseteq Jobs
      BY DEF Stale
    <3>2. status' \in [Jobs -> {"absent"} \cup Open \cup Ended]
      BY <2>1, <1>0 DEF Reap, TypeOK
    <3>3. QED
      BY <2>1, <3>1, <3>2 DEF Reap, TypeOK
  <2>2. ASSUME NEW j \in Jobs, TellReaped(p, j) PROVE TypeOK'
    <3>1. events' \in [Jobs -> Seq({"started"} \cup Ended)]
      BY <2>2, <1>0, TellEffect DEF TellReaped
    <3>2. QED
      BY <2>2, <3>1 DEF TellReaped, TypeOK
  <2>3. ASSUME NEW j \in Jobs, Claim(p, j) PROVE TypeOK'
    BY <2>3, <1>0 DEF Claim, TypeOK
  <2>4. CASE EndPass(p)
    BY <2>4 DEF EndPass, TypeOK
  <2>5. CASE Submit(p)
    <3>1. claimed[p] \in Jobs /\ thread' \in [Procs -> [Jobs -> Steps]]
      BY <2>5, <1>0, SubmitEffect, GoToEffect
    <3>2. active' \in [Procs -> SUBSET Jobs]
      BY <2>5, <3>1 DEF Submit, TypeOK
    <3>3. QED
      BY <2>5, <3>1, <3>2 DEF Submit, TypeOK
  <2>6. QED
    BY <1>3, <2>1, <2>2, <2>3, <2>4, <2>5 DEF Dispatch
<1>4. ASSUME NEW p \in Procs, Heartbeat(p) PROVE TypeOK'
  BY <1>4 DEF Heartbeat, TypeOK
<1>5. ASSUME NEW p \in Procs, NEW j \in Jobs, Run(p, j) \/ Progress(p, j) PROVE TypeOK'
  <2>1. CASE Start(p, j)
    <3>1. events' \in [Jobs -> Seq({"started"} \cup Ended)] /\ thread' \in [Procs -> [Jobs -> Steps]]
      BY <2>1, <1>0, TellEffect, GoToEffect DEF Start
    <3>2. QED
      BY <2>1, <3>1 DEF Start, TypeOK
  <2>2. CASE HandlerReturns(p, j) \/ HandlerRaises(p, j) \/ MarkFailed(p, j)
    <3>1. thread' \in [Procs -> [Jobs -> Steps]]
      BY <2>2, <1>0, GoToEffect DEF HandlerReturns, HandlerRaises, MarkFailed
    <3>2. status' \in [Jobs -> {"absent"} \cup Open \cup Ended]
      BY <2>2, <1>0 DEF HandlerReturns, HandlerRaises, MarkFailed, TypeOK
    <3>3. QED
      BY <2>2, <3>1, <3>2 DEF HandlerReturns, HandlerRaises, MarkFailed, TypeOK
  <2>3. CASE TellSucceeded(p, j)
    <3>1. events' \in [Jobs -> Seq({"started"} \cup Ended)] /\ thread' \in [Procs -> [Jobs -> Steps]]
      BY <2>3, <1>0, TellEffect, GoToEffect DEF TellSucceeded, LeavePool
    <3>2. QED
      BY <2>3, <3>1 DEF TellSucceeded, LeavePool, TypeOK
  <2>4. CASE TellFailed(p, j)
    <3>1. events' \in [Jobs -> Seq({"started"} \cup Ended)] /\ thread' \in [Procs -> [Jobs -> Steps]]
      BY <2>4, <1>0, TellEffect, GoToEffect DEF TellFailed
    <3>2. QED
      BY <2>4, <3>1 DEF TellFailed, TypeOK
  <2>5. CASE AuditFailure(p, j)
    <3>1. thread' \in [Procs -> [Jobs -> Steps]]
      BY <2>5, <1>0, GoToEffect DEF AuditFailure, LeavePool
    <3>2. QED
      BY <2>5, <3>1 DEF AuditFailure, LeavePool, TypeOK
  <2>6. CASE Progress(p, j)
    BY <2>6 DEF Progress, TypeOK
  <2>7. QED
    BY <1>5, <2>1, <2>2, <2>3, <2>4, <2>5, <2>6 DEF Run
<1>6. CASE NightComes
  BY <1>6 DEF NightComes, jobVars, TypeOK
<1>7. ASSUME NEW p \in Schedulers, Schedule(p) PROVE TypeOK'
  <2>1. ScheduleTypeOK'
    BY <1>7, ScheduleType
  <2>2. CASE SeeDue(p) \/ MarkTriggered(p) \/ MissTick(p)
    BY <2>1, <2>2 DEF SeeDue, MarkTriggered, MissTick, jobVars, TypeOK, ScheduleTypeOK
  <2>3. ASSUME NEW j \in Jobs, AskForRefresh(p, j) PROVE TypeOK'
    <3>1. Check(j)
      BY <2>3 DEF AskForRefresh
    <3>2. QED
      BY <2>1, <3>1 DEF Check, TypeOK, ScheduleTypeOK
  <2>4. QED
    BY <1>7, <2>2, <2>3 DEF Schedule
<1>8. CASE Fault
  <2>1. ASSUME NEW p \in Procs, DispatchError(p) PROVE TypeOK'
    BY <2>1 DEF DispatchError, MoreFaults, TypeOK
  <2>2. ASSUME NEW p \in Procs, Crash(p) PROVE TypeOK'
    <3>1. thread' \in [Procs -> [Jobs -> Steps]]
      BY <2>2, CrashEffect
    <3>2. tick' \in [Schedulers -> Tick]
      BY <2>2 DEF Crash, TypeOK, Tick, Waiting
    <3>3. QED
      BY <2>2, <3>1, <3>2 DEF Crash, MoreFaults, TypeOK
  <2>3. ASSUME NEW p \in Procs, NEW j \in Jobs,
               StartError(p, j) \/ TellError(p, j) \/ ExceptError(p, j)
        PROVE  TypeOK'
    <3>1. thread' \in [Procs -> [Jobs -> Steps]]
      BY <2>3, <1>0, GoToEffect DEF StartError, TellError, ExceptError, LeavePool
    <3>2. active' \in [Procs -> SUBSET Jobs]
      BY <2>3 DEF StartError, TellError, ExceptError, LeavePool, TypeOK
    <3>3. errors' \in 0..MaxFaults
      BY <2>3 DEF StartError, TellError, ExceptError, MoreFaults, TypeOK
    <3>4. QED
      BY <2>3, <3>1, <3>2, <3>3 DEF StartError, TellError, ExceptError, LeavePool, TypeOK
  <2>4. QED
    BY <1>8, <2>1, <2>2, <2>3 DEF Fault
<1>9. CASE UNCHANGED vars
  BY <1>9 DEF vars, jobVars, TypeOK
<1>10. QED
  BY <1>1, <1>2, <1>3, <1>4, <1>5, <1>6, <1>7, <1>8, <1>9 DEF Next

-----------------------------------------------------------------------------
(* What one step does to the jobs, whoever takes it *)

\* A row that is not there or queued is claimed before it is anything else.
StatusStep == Untaken' \subseteq Untaken

\* The dispatcher has in hand what it had, or what it claims now.
ClaimedStep == \A p \in Procs, j \in Jobs : claimed'[p] = j => claimed[p] = j \/ Claim(p, j)

\* The dispatcher hands over what it had in hand.
Submits(p, j) == Submit(p) /\ claimed[p] = j

\* A thread gets a job from the dispatcher of its process alone.
ThreadStep ==
    \A p \in Procs, j \in Jobs :
        /\ thread'[p][j] # "none" => thread[p][j] # "none" \/ Submits(p, j)
        /\ thread'[p][j] = "pool" => thread[p][j] = "pool" \/ Submits(p, j)

EndIsAdded(j) == \E what \in Ended : events'[j] = Append(events[j], what)

\* The messages of a job stay, get one about its end, or the one of its start.
EventStep ==
    \A j \in Jobs : events'[j] = events[j] \/ EndIsAdded(j) \/ \E p \in Procs : Start(p, j)

\* A message about the end of one job.
LEMMA EndStep ==
    ASSUME TypeOK, NEW j \in Jobs, NEW what \in Ended, Tell(j, what)
    PROVE  EventStep
<1>1. what \in {"started"} \cup Ended
  OBVIOUS
<1>2. events'[j] = Append(events[j], what) /\ \A i \in Jobs : i # j => events'[i] = events[i]
  BY <1>1, TellEffect
<1>3. QED
  BY <1>2 DEF EventStep, EndIsAdded

\* A step of a thread that has the job, to anywhere but the pool.
LEMMA BusyStep ==
    ASSUME TypeOK, NEW p \in Procs, NEW j \in Jobs, NEW step \in Steps, GoTo(p, j, step),
           step # "pool", thread[p][j] # "none"
    PROVE  ThreadStep
BY GoToEffect DEF ThreadStep

\* What every step does.
OneStepOK ==
    /\ ClaimInHand' /\ InsertedLater'
    /\ StatusStep /\ ClaimedStep /\ ThreadStep /\ EventStep

LEMMA OneStep == CarryInv /\ [Next]_vars => OneStepOK
<1> SUFFICES ASSUME TypeOK, ClaimInHand, InsertedLater, OneCarrier, [Next]_vars PROVE OneStepOK
  BY DEF CarryInv
<1> USE DEF dispatchVars, threadVars, scheduleVars, boundVars, OneStepOK
<1>0. /\ "succeeded" \in Ended /\ "failed" \in Ended
      /\ \A x \in {"none", "pool", "handler", "returned", "raised", "failing", "auditing"} :
            x \in Steps
  BY DEF Steps, Ended
\* The parts of the state that most steps leave alone.
<1>1. UNCHANGED <<dpc, claimed>> => ClaimInHand' /\ ClaimedStep
  BY DEF ClaimInHand, ClaimedStep
<1>2. UNCHANGED <<status, req>> => InsertedLater' /\ StatusStep
  BY DEF InsertedLater, StatusStep, Untaken
<1>3. UNCHANGED thread => ThreadStep
  BY DEF ThreadStep
<1>4. UNCHANGED events => EventStep
  BY DEF EventStep
<1>5. ASSUME NEW j \in Jobs, Request(j) PROVE OneStepOK
  <2>1. UNCHANGED <<dpc, claimed, thread, events>>
    BY <1>5 DEF Request, CheckScope, Check, InsertJob, LoseRequest
  <2>2. InsertedLater' /\ StatusStep
    <3>1. CASE CheckScope(j) \/ LoseRequest(j)
      BY <3>1 DEF CheckScope, Check, LoseRequest, InsertedLater, StatusStep, Untaken, TypeOK
    <3>2. CASE InsertJob(j)
      BY <3>2 DEF InsertJob, InsertedLater, StatusStep, Untaken, TypeOK
    <3>3. QED
      BY <1>5, <3>1, <3>2 DEF Request
  <2>3. QED
    BY <1>1, <1>3, <1>4, <2>1, <2>2
<1>6. ASSUME NEW j \in Jobs, GoStale(j) PROVE OneStepOK
  BY <1>1, <1>2, <1>3, <1>4, <1>6 DEF GoStale
<1>7. ASSUME NEW p \in Procs, Dispatch(p) PROVE OneStepOK
  <2>1. CASE Reap(p)
    <3>1. ClaimInHand' /\ ClaimedStep
      BY <2>1 DEF Reap, ClaimInHand, ClaimedStep, TypeOK
    <3>2. InsertedLater' /\ StatusStep
      BY <2>1 DEF Reap, Stale, InsertedLater, StatusStep, Untaken, TypeOK
    <3>3. QED
      BY <1>3, <1>4, <2>1, <3>1, <3>2 DEF Reap
  <2>2. ASSUME NEW j \in Jobs, TellReaped(p, j) PROVE OneStepOK
    <3>1. EventStep
      BY <2>2, <1>0, EndStep DEF TellReaped
    <3>2. ClaimInHand' /\ ClaimedStep
      BY <2>2 DEF TellReaped, ClaimInHand, ClaimedStep, TypeOK
    <3>3. QED
      BY <1>2, <1>3, <2>2, <3>1, <3>2 DEF TellReaped
  <2>3. ASSUME NEW j \in Jobs, Claim(p, j) PROVE OneStepOK
    <3>1. ClaimInHand'
      BY <2>3, JobsArePositive DEF Claim, ClaimInHand, TypeOK
    <3>2. ClaimedStep
      <4>1. claimed' = [claimed EXCEPT ![p] = j] /\ claimed \in [Procs -> Jobs \cup {NoJob}]
        BY <2>3 DEF Claim, TypeOK
      <4>2. QED
        BY <2>3, <4>1 DEF ClaimedStep
    <3>3. InsertedLater' /\ StatusStep
      BY <2>3 DEF Claim, Queued, InsertedLater, StatusStep, Untaken, TypeOK
    <3>4. QED
      BY <1>3, <1>4, <2>3, <3>1, <3>2, <3>3 DEF Claim
  <2>4. CASE EndPass(p)
    <3>1. ClaimInHand' /\ ClaimedStep
      BY <2>4 DEF EndPass, ClaimInHand, ClaimedStep, TypeOK
    <3>2. QED
      BY <1>2, <1>3, <1>4, <2>4, <3>1 DEF EndPass
  <2>5. CASE Submit(p)
    <3>1. ClaimInHand' /\ ClaimedStep
      BY <2>5, JobsArePositive DEF Submit, ClaimInHand, ClaimedStep, TypeOK
    <3>2. claimed[p] \in Jobs /\ GoTo(p, claimed[p], "pool")
      BY <2>5, SubmitEffect
    <3>3. ThreadStep
      BY <2>5, <3>2, <1>0, GoToEffect DEF ThreadStep, Submits
    <3>4. QED
      BY <1>2, <1>4, <2>5, <3>1, <3>3 DEF Submit
  <2>6. QED
    BY <1>7, <2>1, <2>2, <2>3, <2>4, <2>5 DEF Dispatch
<1>8. ASSUME NEW p \in Procs, Heartbeat(p) PROVE OneStepOK
  BY <1>1, <1>2, <1>3, <1>4, <1>8 DEF Heartbeat
<1>9. ASSUME NEW p \in Procs, NEW j \in Jobs, Run(p, j) \/ Progress(p, j) PROVE OneStepOK
  <2>1. CASE Start(p, j)
    <3>1. ThreadStep
      BY <2>1, <1>0, BusyStep DEF Start, CanStart, AtStep
    <3>2. \A i \in Jobs : i # j => events'[i] = events[i]
      BY <2>1, TellEffect DEF Start
    <3>3. QED
      BY <1>1, <1>2, <2>1, <3>1, <3>2 DEF Start, EventStep
  <2>2. CASE HandlerReturns(p, j) \/ HandlerRaises(p, j) \/ MarkFailed(p, j)
    <3>1. ThreadStep
      BY <2>2, <1>0, BusyStep DEF HandlerReturns, HandlerRaises, MarkFailed, AtStep
    <3>2. j \notin Untaken
      BY <2>2 DEF HandlerReturns, HandlerRaises, MarkFailed, AtStep, OneCarrier, Carries
    <3>3. \A i \in Jobs : i \in Untaken => status'[i] = status[i]
      BY <2>2, <3>2 DEF HandlerReturns, HandlerRaises, MarkFailed, TypeOK
    <3>4. status'[j] \notin {"absent", "queued"} /\ \A i \in Jobs : i # j => status'[i] = status[i]
      BY <2>2, <3>2 DEF HandlerReturns, HandlerRaises, MarkFailed, TypeOK, Untaken
    <3>5. InsertedLater' /\ StatusStep
      BY <2>2, <3>2, <3>3, <3>4 DEF HandlerReturns, HandlerRaises, MarkFailed,
                                    InsertedLater, StatusStep, Untaken
    <3>6. QED
      BY <1>1, <1>4, <2>2, <3>1, <3>5 DEF HandlerReturns, HandlerRaises, MarkFailed
  <2>3. CASE TellSucceeded(p, j) \/ TellFailed(p, j)
    <3>1. ThreadStep
      BY <2>3, <1>0, BusyStep DEF TellSucceeded, TellFailed, LeavePool, AtStep
    <3>2. EventStep
      BY <2>3, <1>0, EndStep DEF TellSucceeded, TellFailed
    <3>3. QED
      BY <1>1, <1>2, <2>3, <3>1, <3>2 DEF TellSucceeded, TellFailed
  <2>4. CASE AuditFailure(p, j)
    <3>1. ThreadStep
      BY <2>4, <1>0, BusyStep DEF AuditFailure, LeavePool, AtStep
    <3>2. QED
      BY <1>1, <1>2, <1>4, <2>4, <3>1 DEF AuditFailure
  <2>5. CASE Progress(p, j)
    BY <1>1, <1>2, <1>3, <1>4, <2>5 DEF Progress
  <2>6. QED
    BY <1>9, <2>1, <2>2, <2>3, <2>4, <2>5 DEF Run
<1>10. CASE NightComes
  BY <1>1, <1>2, <1>3, <1>4, <1>10 DEF NightComes, jobVars
<1>11. ASSUME NEW p \in Schedulers, Schedule(p) PROVE OneStepOK
  <2>1. CASE SeeDue(p) \/ MarkTriggered(p) \/ MissTick(p)
    BY <1>1, <1>2, <1>3, <1>4, <2>1 DEF SeeDue, MarkTriggered, MissTick, jobVars
  <2>2. ASSUME NEW j \in Jobs, AskForRefresh(p, j) PROVE OneStepOK
    <3>1. UNCHANGED <<dpc, claimed, thread, events>>
      BY <2>2 DEF AskForRefresh, Check
    <3>2. InsertedLater' /\ StatusStep
      BY <2>2 DEF AskForRefresh, Check, InsertedLater, StatusStep, Untaken, TypeOK
    <3>3. QED
      BY <1>1, <1>3, <1>4, <3>1, <3>2
  <2>3. QED
    BY <1>11, <2>1, <2>2 DEF Schedule
<1>12. CASE Fault
  <2>1. ASSUME NEW p \in Procs, DispatchError(p) PROVE OneStepOK
    <3>1. ClaimInHand' /\ ClaimedStep
      BY <2>1 DEF DispatchError, ClaimInHand, ClaimedStep, TypeOK
    <3>2. QED
      BY <1>2, <1>3, <1>4, <2>1, <3>1 DEF DispatchError
  <2>2. ASSUME NEW p \in Procs, Crash(p) PROVE OneStepOK
    <3>1. ClaimInHand' /\ ClaimedStep
      BY <2>2, JobsArePositive DEF Crash, ClaimInHand, ClaimedStep, TypeOK
    <3>2. ThreadStep
      BY <2>2, CrashEffect DEF ThreadStep
    <3>3. QED
      BY <1>2, <1>4, <2>2, <3>1, <3>2 DEF Crash
  <2>3. ASSUME NEW p \in Procs, NEW j \in Jobs,
               StartError(p, j) \/ TellError(p, j) \/ ExceptError(p, j)
        PROVE  OneStepOK
    <3>1. ThreadStep
      BY <2>3, <1>0, BusyStep DEF StartError, TellError, ExceptError, CanStart, LeavePool, AtStep
    <3>2. QED
      BY <1>1, <1>2, <1>4, <2>3, <3>1 DEF StartError, TellError, ExceptError
  <2>4. QED
    BY <1>12, <2>1, <2>2, <2>3 DEF Fault
<1>13. CASE UNCHANGED vars
  BY <1>1, <1>2, <1>3, <1>4, <1>13 DEF vars, jobVars
<1>14. QED
  BY <1>5, <1>6, <1>7, <1>8, <1>9, <1>10, <1>11, <1>12, <1>13 DEF Next

-----------------------------------------------------------------------------
(* A job has one carrier *)

LEMMA CarryInit == Init => CarryInv
<1>1. Init => TypeOK
  BY TypeInit
<1>2. Init => ClaimInHand /\ InsertedLater
  BY DEF Init, ClaimInHand, InsertedLater
<1>3. Init => \A p \in Procs, j \in Jobs : ~Carries(p, j)
  BY JobsArePositive DEF Init, Carries
<1>4. Init => OneCarrier
  BY <1>3 DEF OneCarrier, Carries, Untaken
<1>5. QED
  BY <1>1, <1>2, <1>4 DEF CarryInv

\* Who claims a job finds nobody that carries it, and it runs from then on.
LEMMA ClaimFindsIt ==
    ASSUME CarryInv, NEW p \in Procs, NEW j \in Jobs, Claim(p, j)
    PROVE  /\ j \in Untaken /\ j \notin Untaken'
           /\ \A q \in Procs : ~Carries(q, j)
           /\ \A q \in Procs : claimed'[q] = j => q = p
           /\ UNCHANGED <<thread, events>>
<1>1. j \in Untaken /\ j \notin Untaken'
  BY DEF Claim, Queued, Untaken, CarryInv, TypeOK
<1>2. \A q \in Procs : ~Carries(q, j)
  BY <1>1 DEF CarryInv, OneCarrier
<1>3. \A q \in Procs : q # p => claimed'[q] = claimed[q]
  BY DEF Claim, CarryInv, TypeOK
<1>4. QED
  BY <1>1, <1>2, <1>3 DEF Carries, Claim, threadVars

\* Who carries a job after a step carried it before, or claims it.
LEMMA CarrierStep ==
    ASSUME CarryInv, OneStepOK, NEW p \in Procs, NEW j \in Jobs, Carries(p, j)'
    PROVE  Carries(p, j) \/ Claim(p, j)
BY DEF OneStepOK, ClaimedStep, ThreadStep, Submits, Carries

LEMMA CarryStep == CarryInv /\ [Next]_vars => CarryInv'
<1> SUFFICES ASSUME CarryInv, [Next]_vars PROVE CarryInv'
  OBVIOUS
<1>1. TypeOK' /\ OneStepOK
  BY TypeStep, OneStep DEF CarryInv
<1>2. ASSUME NEW p \in Procs, NEW j \in Jobs, j \in Untaken' PROVE ~Carries(p, j)'
  <2>1. ~Carries(p, j)
    BY <1>1, <1>2 DEF OneStepOK, StatusStep, CarryInv, OneCarrier
  <2>2. QED
    BY <1>1, <1>2, <2>1, CarrierStep, ClaimFindsIt
<1>3. ASSUME NEW p \in Procs, NEW q \in Procs, NEW j \in Jobs, Carries(p, j)', Carries(q, j)'
      PROVE  p = q
  <2>1. (Carries(p, j) \/ Claim(p, j)) /\ (Carries(q, j) \/ Claim(q, j))
    BY <1>1, <1>3, CarrierStep
  <2>2. CASE Carries(p, j) /\ Carries(q, j)
    BY <2>2 DEF CarryInv, OneCarrier
  <2>3. CASE Claim(p, j)
    BY <1>3, <2>3, ClaimFindsIt DEF Carries
  <2>4. CASE Claim(q, j)
    BY <1>3, <2>4, ClaimFindsIt DEF Carries
  <2>5. QED
    BY <2>1, <2>2, <2>3, <2>4
<1>4. ASSUME NEW p \in Procs, NEW j \in Jobs, claimed'[p] = j PROVE thread'[p][j] = "none"
  <2>1. CASE Claim(p, j)
    BY <2>1, ClaimFindsIt DEF Carries
  <2>2. CASE claimed[p] = j
    <3>1. thread[p][j] = "none"
      BY <2>2 DEF CarryInv, OneCarrier
    <3>2. ~Submits(p, j)
      BY <1>4, JobsArePositive DEF Submits, Submit, CarryInv, TypeOK
    <3>3. QED
      BY <1>1, <3>1, <3>2 DEF OneStepOK, ThreadStep
  <2>3. QED
    BY <1>1, <1>4, <2>1, <2>2 DEF OneStepOK, ClaimedStep
<1>5. Untaken' \subseteq Jobs
  BY DEF Untaken
<1>6. OneCarrier'
  BY <1>2, <1>3, <1>4, <1>5 DEF OneCarrier
<1>7. QED
  BY <1>1, <1>6 DEF CarryInv, OneStepOK

-----------------------------------------------------------------------------
(* A job is started once *)

StartInv == CarryInv /\ StartIsAhead /\ StartedOnce

\* A message more about a job.
LEMMA OneMore ==
    ASSUME TypeOK, NEW j \in Jobs, NEW what, events'[j] = Append(events[j], what)
    PROVE  /\ DOMAIN events[j] = 1..Len(events[j]) /\ Len(events[j]) \in Nat
           /\ Len(events'[j]) = Len(events[j]) + 1
           /\ events'[j][Len(events[j]) + 1] = what
           /\ \A n \in 1..Len(events[j]) : events'[j][n] = events[j][n]
<1>1. events[j] \in Seq({"started"} \cup Ended)
  BY DEF TypeOK
<1>2. QED
  BY <1>1

\* Only Start says that a job was started.
LEMMA StartIsSaid ==
    ASSUME TypeOK, TypeOK', OneStepOK, NEW j \in Jobs, HasStarted(j)'
    PROVE  HasStarted(j) \/ \E p \in Procs : Start(p, j)
<1>1. CASE events'[j] = events[j]
  BY <1>1 DEF HasStarted
<1>2. ASSUME NEW what \in Ended, events'[j] = Append(events[j], what) PROVE HasStarted(j)
  <2>1. what # "started" /\ events'[j] \in Seq({"started"} \cup Ended)
    BY DEF Ended, TypeOK
  <2>2. DOMAIN events'[j] = 1..(Len(events[j]) + 1)
    BY <1>2, <2>1, OneMore
  <2>3. PICK n \in DOMAIN events'[j] : events'[j][n] = "started"
    BY DEF HasStarted
  <2>4. n \in 1..Len(events[j])
    BY <1>2, <2>1, <2>2, <2>3, OneMore
  <2>5. QED
    BY <1>2, <2>3, <2>4, OneMore DEF HasStarted
<1>3. QED
  BY <1>1, <1>2 DEF OneStepOK, EventStep, EndIsAdded

\* A job is in the pool of the thread that starts it, and not afterwards.
LEMMA StartTakesIt ==
    ASSUME CarryInv, NEW p \in Procs, NEW j \in Jobs, Start(p, j)
    PROVE  /\ Carries(p, j) /\ thread[p][j] = "pool"
           /\ thread'[p][j] = "handler" /\ claimed' = claimed
           /\ events'[j] = Append(events[j], "started")
<1>1. "handler" \in Steps /\ "started" \in {"started"} \cup Ended
  BY DEF Steps
<1>2. thread'[p][j] = "handler" /\ events'[j] = Append(events[j], "started")
  BY <1>1, GoToEffect, TellEffect DEF Start, CarryInv
<1>3. QED
  BY <1>2 DEF Start, CanStart, AtStep, Carries, dispatchVars

LEMMA StartInit == Init => StartInv
<1> SUFFICES ASSUME Init PROVE StartInv
  OBVIOUS
<1>1. \A j \in Jobs : events[j] = <<>>
  BY DEF Init
<1>2. \A j \in Jobs : DOMAIN events[j] = {} /\ 1..Len(events[j]) = {}
  BY <1>1
<1>3. StartedOnce /\ \A j \in Jobs : ~HasStarted(j)
  BY <1>2 DEF HasStarted, StartedOnce
<1>4. StartIsAhead
  BY <1>3 DEF StartIsAhead, Untaken
<1>5. QED
  BY <1>3, <1>4, CarryInit DEF StartInv

LEMMA StartStep == StartInv /\ [Next]_vars => StartInv'
<1> SUFFICES ASSUME StartInv, [Next]_vars PROVE StartInv'
  OBVIOUS
<1>1. CarryInv /\ TypeOK /\ TypeOK' /\ CarryInv' /\ OneStepOK
  BY CarryStep, OneStep DEF StartInv, CarryInv
<1>2. ASSUME NEW j \in Jobs, j \in Untaken' PROVE ~HasStarted(j)'
  <2>1. j \in Untaken /\ ~HasStarted(j)
    BY <1>1, <1>2 DEF OneStepOK, StatusStep, StartInv, StartIsAhead
  <2>2. \A p \in Procs : ~Start(p, j)
    BY <1>1, <2>1, StartTakesIt DEF CarryInv, OneCarrier
  <2>3. QED
    BY <1>1, <2>1, <2>2, StartIsSaid
<1>3. ASSUME NEW p \in Procs, NEW j \in Jobs, claimed'[p] = j \/ thread'[p][j] = "pool"
      PROVE  ~HasStarted(j)'
  <2>1. claimed[p] = j \/ thread[p][j] = "pool" \/ Claim(p, j)
    BY <1>1, <1>3 DEF OneStepOK, ClaimedStep, ThreadStep, Submits
  <2>2. CASE Claim(p, j)
    BY <1>1, <2>2, ClaimFindsIt DEF HasStarted, StartInv, StartIsAhead
  <2>3. CASE claimed[p] = j \/ thread[p][j] = "pool"
    <3>1. Carries(p, j) /\ ~HasStarted(j)
      BY <2>3 DEF Carries, StartInv, StartIsAhead
    <3>2. ASSUME NEW q \in Procs, Start(q, j) PROVE FALSE
      <4>1. q = p
        BY <1>1, <3>1, <3>2, StartTakesIt DEF CarryInv, OneCarrier
      <4>2. claimed[p] # j
        BY <1>1, <3>2, <4>1, StartTakesIt DEF CarryInv, OneCarrier
      <4>3. QED
        BY <1>1, <1>3, <3>2, <4>1, <4>2, StartTakesIt
    <3>3. QED
      BY <1>1, <3>1, <3>2, StartIsSaid
  <2>4. QED
    BY <2>1, <2>2, <2>3
<1>4. ASSUME NEW j \in Jobs, NEW m \in 1..Len(events'[j]), NEW n \in 1..Len(events'[j]),
             events'[j][m] = "started", events'[j][n] = "started"
      PROVE  m = n
  <2>1. \A k, l \in 1..Len(events[j]) : events[j][k] = "started" /\ events[j][l] = "started" => k = l
    BY DEF StartInv, StartedOnce
  <2>2. CASE events'[j] = events[j]
    BY <1>4, <2>1, <2>2
  <2>3. ASSUME NEW what \in Ended, events'[j] = Append(events[j], what) PROVE m = n
    <3>1. m \in 1..Len(events[j]) /\ n \in 1..Len(events[j])
      BY <1>1, <1>4, <2>3, OneMore DEF Ended
    <3>2. QED
      BY <1>1, <1>4, <2>1, <2>3, <3>1, OneMore
  <2>4. ASSUME NEW p \in Procs, Start(p, j) PROVE m = n
    <3>1. ~HasStarted(j) /\ events'[j] = Append(events[j], "started")
      BY <1>1, <2>4, StartTakesIt DEF StartInv, StartIsAhead
    <3>2. m = Len(events[j]) + 1 /\ n = Len(events[j]) + 1
      BY <1>1, <1>4, <3>1, OneMore DEF HasStarted
    <3>3. QED
      BY <3>2
  <2>5. QED
    BY <1>1, <2>2, <2>3, <2>4 DEF OneStepOK, EventStep, EndIsAdded
<1>5. Untaken' \subseteq Jobs
  BY DEF Untaken
<1>6. StartIsAhead'
  BY <1>2, <1>3, <1>5 DEF StartIsAhead
<1>7. StartedOnce'
  BY <1>4 DEF StartedOnce
<1>8. QED
  BY <1>1, <1>6, <1>7 DEF StartInv

\* A job is started once, however many processes compete for it, crash and stall.
THEOREM JobsStartedOnce == Spec => []StartedOnce
<1>1. StartInv => StartedOnce
  BY DEF StartInv
<1>2. QED
  BY StartInit, StartStep, <1>1, PTL DEF Spec

-----------------------------------------------------------------------------
(* A night's refresh is requested once *)

NightInv == CarryInv /\ NightsPass /\ OnceANight

LEMMA NightInit == Init => NightInv
<1> SUFFICES ASSUME Init PROVE NightInv
  OBVIOUS
<1>1. NightsPass /\ OnceANight
  BY DEF Init, NightsPass, OnceANight, Waiting
<1>2. QED
  BY <1>1, CarryInit DEF NightInv

\* A tick of the only scheduler.
LEMMA TickStep ==
    ASSUME NightInv, OneScheduler, NEW p \in Schedulers, Schedule(p)
    PROVE  NightsPass' /\ OnceANight'
<1>1. /\ night \in Nat /\ marked \in Nat /\ marked =< night
      /\ nightOf \in [Jobs -> Nat] /\ tick \in [Schedulers -> Tick] /\ tick[p].of \in Nat
      /\ \A j \in Jobs : nightOf[j] =< marked
      /\ \A i, j \in Jobs : nightOf[i] = nightOf[j] /\ nightOf[i] # 0 => i = j
      /\ \A q \in Schedulers : q = p
  BY DEF NightInv, CarryInv, TypeOK, Tick, NightsPass, OnceANight, OneScheduler
<1>2. CASE SeeDue(p)
  <2>1. tick'[p].at = "mark" /\ tick'[p].of = night /\ UNCHANGED <<night, marked, nightOf>>
    BY <1>1, <1>2 DEF SeeDue
  <2>2. marked < night
    BY <1>1, <1>2 DEF SeeDue
  <2>3. QED
    BY <1>1, <2>1, <2>2 DEF NightsPass, OnceANight
<1>3. CASE MarkTriggered(p)
  <2>1. /\ tick[p].at = "mark" /\ marked' = tick[p].of /\ UNCHANGED <<night, nightOf>>
        /\ tick' = [tick EXCEPT ![p] = [tick[p] EXCEPT !.at = "ask"]]
    BY <1>3 DEF MarkTriggered
  <2>2. tick[p] \in Tick /\ tick'[p] = [tick[p] EXCEPT !.at = "ask"]
    BY <1>1, <2>1
  <2>3. tick'[p].at = "ask" /\ tick'[p].of = tick[p].of
    BY <2>2 DEF Tick
  <2>4. marked < marked' /\ marked' =< night
    BY <2>1 DEF NightInv, NightsPass, OneScheduler
  <2>5. \A j \in Jobs : nightOf'[j] < marked'
    BY <1>1, <2>1, <2>4
  <2>6. QED
    BY <1>1, <2>1, <2>3, <2>4, <2>5 DEF NightsPass, OnceANight
<1>4. ASSUME NEW j \in Jobs, AskForRefresh(p, j) PROVE NightsPass' /\ OnceANight'
  <2>1. /\ tick[p].at = "ask" /\ tick'[p] = Waiting /\ UNCHANGED <<night, marked>>
        /\ nightOf' = [nightOf EXCEPT ![j] = tick[p].of]
    BY <1>1, <1>4 DEF AskForRefresh
  <2>2. tick[p].of = marked /\ \A i \in Jobs : nightOf[i] < marked
    BY <2>1 DEF NightInv, NightsPass
  <2>3. nightOf'[j] = marked /\ \A i \in Jobs : i # j => nightOf'[i] = nightOf[i]
    BY <1>1, <2>1, <2>2
  <2>4. OnceANight'
    BY <1>1, <2>2, <2>3 DEF OnceANight
  <2>5. QED
    BY <1>1, <2>1, <2>2, <2>3, <2>4 DEF NightsPass, Waiting
<1>5. CASE MissTick(p)
  <2>1. tick'[p] = Waiting /\ UNCHANGED <<night, marked, nightOf>>
    BY <1>1, <1>5 DEF MissTick
  <2>2. QED
    BY <1>1, <2>1 DEF NightsPass, OnceANight, Waiting
<1>6. QED
  BY <1>2, <1>3, <1>4, <1>5 DEF Schedule

\* Nothing else touches the schedule, but the night that comes and the crash that
\* loses a tick.
LEMMA OthersTick ==
    ASSUME [Next]_vars, \A p \in Schedulers : ~Schedule(p)
    PROVE  /\ UNCHANGED <<marked, nightOf>> /\ night' \in {night, night + 1}
           /\ \A p \in Schedulers : tick'[p] \in {tick[p], Waiting}
<1> USE DEF scheduleVars
<1>1. UNCHANGED scheduleVars \/ NightComes \/ \E p \in Procs : Crash(p)
  <2>1. ASSUME NEW j \in Jobs, Request(j) \/ GoStale(j) PROVE UNCHANGED scheduleVars
    BY <2>1 DEF Request, CheckScope, InsertJob, LoseRequest, GoStale
  <2>2. ASSUME NEW p \in Procs, Dispatch(p) \/ Heartbeat(p) PROVE UNCHANGED scheduleVars
    BY <2>2 DEF Dispatch, Reap, TellReaped, Claim, Submit, EndPass, Heartbeat
  <2>3. ASSUME NEW p \in Procs, NEW j \in Jobs, Run(p, j) \/ Progress(p, j)
        PROVE  UNCHANGED scheduleVars
    BY <2>3 DEF Run, Start, HandlerReturns, HandlerRaises, TellSucceeded, MarkFailed,
                TellFailed, AuditFailure, Progress
  <2>4. ASSUME Fault PROVE UNCHANGED scheduleVars \/ \E p \in Procs : Crash(p)
    BY <2>4 DEF Fault, DispatchError, StartError, TellError, ExceptError
  <2>5. UNCHANGED vars => UNCHANGED scheduleVars
    BY DEF vars
  <2>6. QED
    BY <2>1, <2>2, <2>3, <2>4, <2>5 DEF Next
<1>2. CASE UNCHANGED scheduleVars
  BY <1>2
<1>3. CASE NightComes
  BY <1>3 DEF NightComes
<1>4. ASSUME NEW p \in Procs, Crash(p)
      PROVE  /\ UNCHANGED <<marked, nightOf, night>>
             /\ \A x \in Schedulers : tick'[x] \in {tick[x], Waiting}
  BY <1>4 DEF Crash
<1>5. QED
  BY <1>1, <1>2, <1>3, <1>4

LEMMA NightStep == NightInv /\ [Next]_vars => NightInv'
<1> SUFFICES ASSUME NightInv, [Next]_vars PROVE NightInv'
  OBVIOUS
<1>1. CarryInv /\ CarryInv'
  BY CarryStep DEF NightInv
<1>2. CASE ~OneScheduler
  BY <1>1, <1>2 DEF NightInv, NightsPass, OnceANight, OneScheduler
<1>3. CASE OneScheduler /\ \E p \in Schedulers : Schedule(p)
  BY <1>1, <1>3, TickStep DEF NightInv
<1>4. CASE OneScheduler /\ \A p \in Schedulers : ~Schedule(p)
  <2>1. /\ UNCHANGED <<marked, nightOf>> /\ night' \in {night, night + 1}
        /\ \A p \in Schedulers : tick'[p] \in {tick[p], Waiting}
    BY <1>4, OthersTick
  <2>2. /\ night \in Nat /\ marked \in Nat
        /\ \A p \in Schedulers : tick[p].of \in Nat
    BY <1>1 DEF CarryInv, TypeOK, Tick
  <2>3. NightsPass'
    BY <1>4, <2>1, <2>2 DEF NightInv, NightsPass, Waiting
  <2>4. OnceANight'
    BY <2>1 DEF NightInv, OnceANight
  <2>5. QED
    BY <1>1, <2>3, <2>4 DEF NightInv
<1>5. QED
  BY <1>2, <1>3, <1>4

\* With one scheduler a night's refresh is requested once at most, whatever
\* fails or is requested by hand meanwhile.
THEOREM RefreshedOnceANight == Spec => []OnceANight
<1>1. NightInv => OnceANight
  BY DEF NightInv
<1>2. QED
  BY NightInit, NightStep, <1>1, PTL DEF Spec

-----------------------------------------------------------------------------
(* Whose step it is when something changes *)

StatusMoves ==
    \A j \in Jobs :
        \/ status'[j] = status[j]
        \/ InsertJob(j)
        \/ \E q \in Procs : Claim(q, j) \/ HandlerReturns(q, j) \/ MarkFailed(q, j)
        \/ j \in Stale /\ status'[j] = "failed" /\ \E p \in Procs : Reap(p)

FreshMoves == \A j \in Jobs : fresh[j] /\ ~fresh'[j] => GoStale(j)

RequestMoves == \A j \in Jobs : req'[j] = "checked" => req[j] = "checked" \/ Check(j)

\* What the past was stays.
FaultMoves ==
    /\ crashes =< crashes' /\ errors =< errors'
    /\ raced \subseteq raced' /\ late \subseteq late'

\* A crash or an error, now or before.
Faulty == crashes' # 0 \/ errors' # 0

\* How what a dispatcher has to tell gets there, and goes.
ReapedMoves ==
    \A p \in Procs :
        \/ reaped'[p] = reaped[p] /\ (dpc'[p] = dpc[p] \/ dpc[p] # "tell")
        \/ Reap(p) /\ reaped'[p] = Stale /\ dpc'[p] = IF Stale = {} THEN "claim" ELSE "tell"
        \/ \E j \in reaped[p] :
              /\ TellReaped(p, j) /\ reaped'[p] = reaped[p] \ {j}
              /\ dpc'[p] = IF reaped[p] = {j} THEN "claim" ELSE "tell"
        \/ Faulty /\ reaped'[p] = {}

ClaimedMoves ==
    \A p \in Procs, j \in Jobs :
        claimed[p] = j /\ claimed'[p] # j => j \in active'[p] \/ Faulty

ActiveMoves ==
    \A p \in Procs, j \in Jobs :
        /\ j \in active'[p] => j \in active[p] \/ Submits(p, j)
        /\ j \in active[p] /\ j \notin active'[p] =>
              /\ thread'[p][j] = "none"
              /\ thread[p][j] \in {"returned", "auditing"} \/ Faulty
        /\ Submits(p, j) => j \in active'[p]

\* How a thread gets from one step to the next.
Walks(p, j) ==
    \/ Submits(p, j) /\ thread'[p][j] = "pool"
    \/ Start(p, j) /\ thread'[p][j] = "handler"
    \/ HandlerReturns(p, j) /\ thread'[p][j] = "returned"
    \/ HandlerRaises(p, j) /\ thread'[p][j] = "raised"
    \/ TellSucceeded(p, j) /\ thread'[p][j] = "none"
    \/ MarkFailed(p, j) /\ thread'[p][j] = "failing"
    \/ TellFailed(p, j) /\ thread'[p][j] = "auditing"
    \/ AuditFailure(p, j) /\ thread'[p][j] = "none"
    \/ Faulty /\ thread'[p][j] = "none"
    \/ TellError(p, j) /\ errors' # 0 /\ thread'[p][j] = "raised"

ThreadMoves == \A p \in Procs, j \in Jobs : thread'[p][j] = thread[p][j] \/ Walks(p, j)

EventMoves ==
    \A j \in Jobs :
        \/ events'[j] = events[j]
        \/ \E p \in Procs : \/ Start(p, j) \/ TellReaped(p, j)
                            \/ TellSucceeded(p, j) \/ TellFailed(p, j)

MovesOK ==
    /\ StatusMoves /\ FreshMoves /\ RequestMoves /\ ReapedMoves /\ FaultMoves
    /\ ClaimedMoves /\ ActiveMoves /\ ThreadMoves /\ EventMoves

LEMMA Moves == TypeOK /\ ClaimInHand /\ [Next]_vars => MovesOK
<1> SUFFICES ASSUME TypeOK, ClaimInHand, [Next]_vars PROVE MovesOK
  OBVIOUS
<1> USE DEF dispatchVars, threadVars, scheduleVars, boundVars, MovesOK
<1>0. /\ crashes \in Nat /\ errors \in Nat
      /\ \A x \in {"none", "pool", "handler", "returned", "raised", "failing", "auditing"} :
            x \in Steps
      /\ \A x \in {"started", "succeeded", "failed"} : x \in {"started"} \cup Ended
  BY DEF TypeOK, Steps, Ended
\* What stays does not move.
<1>1. /\ UNCHANGED status => StatusMoves
      /\ UNCHANGED fresh => FreshMoves
      /\ UNCHANGED req => RequestMoves
      /\ UNCHANGED <<reaped, dpc>> => ReapedMoves
      /\ UNCHANGED <<crashes, errors, raced, late>> => FaultMoves
      /\ UNCHANGED claimed => ClaimedMoves
      /\ UNCHANGED thread => ThreadMoves
      /\ UNCHANGED events => EventMoves
  BY <1>0 DEF StatusMoves, FreshMoves, RequestMoves, ReapedMoves, FaultMoves,
              ClaimedMoves, ThreadMoves, EventMoves
<1>2. (\A p \in Procs : ~Submit(p)) /\ UNCHANGED active => ActiveMoves
  BY DEF ActiveMoves, Submits
<1>3. UNCHANGED claimed => \A p \in Procs : ~Submit(p)
  BY JobsArePositive DEF Submit, ClaimInHand, TypeOK
<1>4. ASSUME NEW j \in Jobs, Request(j) PROVE MovesOK
  <2>1. UNCHANGED <<fresh, reaped, dpc, claimed, active, thread, events>>
    BY <1>4 DEF Request, CheckScope, Check, InsertJob, LoseRequest
  <2>2. StatusMoves
    <3>1. CASE InsertJob(j)
      <4>1. \A i \in Jobs : i # j => status'[i] = status[i]
        BY <3>1 DEF InsertJob, TypeOK
      <4>2. QED
        BY <3>1, <4>1 DEF StatusMoves
    <3>2. CASE CheckScope(j) \/ LoseRequest(j)
      BY <1>1, <3>2 DEF CheckScope, Check, LoseRequest
    <3>3. QED
      BY <1>4, <3>1, <3>2 DEF Request
  <2>3. RequestMoves
    <3>1. CASE CheckScope(j)
      <4>1. Check(j) /\ \A i \in Jobs : i # j => req'[i] = req[i]
        BY <3>1 DEF CheckScope, Check, TypeOK
      <4>2. QED
        BY <4>1 DEF RequestMoves
    <3>2. CASE InsertJob(j) \/ LoseRequest(j)
      BY <3>2 DEF RequestMoves, InsertJob, LoseRequest, TypeOK
    <3>3. QED
      BY <1>4, <3>1, <3>2 DEF Request
  <2>4. FaultMoves
    BY <1>0, <1>4 DEF FaultMoves, Request, CheckScope, Check, InsertJob, LoseRequest
  <2>5. QED
    BY <1>1, <1>2, <1>3, <2>1, <2>2, <2>3, <2>4
<1>5. ASSUME NEW j \in Jobs, GoStale(j) PROVE MovesOK
  <2>1. \A i \in Jobs : i # j => fresh'[i] = fresh[i]
    BY <1>5 DEF GoStale, TypeOK
  <2>2. FreshMoves
    BY <1>5, <2>1 DEF FreshMoves
  <2>3. FaultMoves
    BY <1>0, <1>5 DEF FaultMoves, GoStale
  <2>4. QED
    BY <1>1, <1>2, <1>3, <1>5, <2>2, <2>3 DEF GoStale
<1>6. ASSUME NEW p \in Procs, Dispatch(p) PROVE MovesOK
  <2>1. CASE Reap(p)
    <3>1. StatusMoves /\ ReapedMoves
      BY <2>1 DEF Reap, StatusMoves, ReapedMoves, TypeOK
    <3>2. QED
      BY <1>1, <1>2, <1>3, <2>1, <3>1 DEF Reap
  <2>2. ASSUME NEW j \in Jobs, TellReaped(p, j) PROVE MovesOK
    <3>1. ReapedMoves
      BY <2>2 DEF TellReaped, ReapedMoves, TypeOK
    <3>2. \A i \in Jobs : i # j => events'[i] = events[i]
      BY <2>2, <1>0, TellEffect DEF TellReaped
    <3>3. EventMoves
      BY <2>2, <3>2 DEF EventMoves
    <3>4. QED
      BY <1>1, <1>2, <1>3, <2>2, <3>1, <3>3 DEF TellReaped
  <2>3. ASSUME NEW j \in Jobs, Claim(p, j) PROVE MovesOK
    <3>1. \A i \in Jobs : i # j => status'[i] = status[i]
      BY <2>3 DEF Claim, TypeOK
    <3>2. StatusMoves
      BY <2>3, <3>1 DEF StatusMoves
    <3>3. FreshMoves
      BY <2>3 DEF FreshMoves, Claim, TypeOK
    <3>4. claimed[p] = NoJob /\ \A q \in Procs : q # p => claimed'[q] = claimed[q]
      BY <2>3 DEF Claim, ClaimInHand, TypeOK
    <3>5. ClaimedMoves
      BY <3>4, JobsArePositive DEF ClaimedMoves
    <3>6. \A q \in Procs : ~Submit(q)
      <4>1. ASSUME NEW q \in Procs, Submit(q) PROVE FALSE
        <5>1. dpc[q] = "submit" /\ q # p /\ dpc'[q] = "claim"
          BY <2>3, <4>1 DEF Submit, Claim, TypeOK
        <5>2. QED
          BY <2>3, <5>1 DEF Claim, TypeOK
      <4>2. QED
        BY <4>1
    <3>7. ReapedMoves
      BY <2>3 DEF Claim, ReapedMoves, TypeOK
    <3>8. QED
      BY <1>1, <1>2, <2>3, <3>2, <3>3, <3>5, <3>6, <3>7 DEF Claim
  <2>4. CASE EndPass(p)
    <3>1. ReapedMoves
      BY <2>4 DEF EndPass, ReapedMoves, TypeOK
    <3>2. QED
      BY <1>1, <1>2, <1>3, <2>4, <3>1 DEF EndPass
  <2>5. CASE Submit(p)
    <3>1. claimed[p] \in Jobs /\ GoTo(p, claimed[p], "pool")
      BY <2>5, SubmitEffect
    <3>2. ThreadMoves
      BY <2>5, <3>1, <1>0, GoToEffect DEF ThreadMoves, Walks, Submits
    <3>3. \A q \in Procs : q # p => ~Submit(q)
      BY <2>5 DEF Submit, TypeOK
    <3>4. active'[p] = active[p] \cup {claimed[p]} /\ \A q \in Procs : q # p => active'[q] = active[q]
      BY <2>5 DEF Submit, TypeOK
    <3>5. ActiveMoves
      BY <2>5, <3>3, <3>4 DEF ActiveMoves, Submits
    <3>6. \A q \in Procs : q # p => claimed'[q] = claimed[q]
      BY <2>5 DEF Submit, TypeOK
    <3>7. ClaimedMoves
      BY <3>4, <3>6 DEF ClaimedMoves
    <3>8. ReapedMoves
      BY <2>5 DEF Submit, ReapedMoves, TypeOK
    <3>9. QED
      BY <1>1, <2>5, <3>2, <3>5, <3>7, <3>8 DEF Submit
  <2>6. QED
    BY <1>6, <2>1, <2>2, <2>3, <2>4, <2>5 DEF Dispatch
<1>7. ASSUME NEW p \in Procs, Heartbeat(p) PROVE MovesOK
  <2>1. FreshMoves
    BY <1>7 DEF Heartbeat, FreshMoves, TypeOK
  <2>2. QED
    BY <1>1, <1>2, <1>3, <1>7, <2>1 DEF Heartbeat
<1>8. ASSUME NEW p \in Procs, NEW j \in Jobs, LeavePool(p, j),
             thread[p][j] \in {"returned", "auditing"} \/ Faulty, UNCHANGED claimed
      PROVE  ActiveMoves
  <2>1. thread'[p][j] = "none"
    BY <1>8, <1>0, GoToEffect DEF LeavePool
  <2>2. /\ active'[p] = active[p] \ {j}
        /\ \A q \in Procs : q # p => active'[q] = active[q]
    BY <1>8 DEF LeavePool, TypeOK
  <2>3. \A q \in Procs : ~Submit(q)
    BY <1>3, <1>8
  <2>4. QED
    BY <1>8, <2>1, <2>2, <2>3 DEF ActiveMoves, Submits
<1>9. ASSUME NEW p \in Procs, NEW j \in Jobs, Run(p, j) \/ Progress(p, j) PROVE MovesOK
  <2>1. CASE Start(p, j)
    <3>1. ThreadMoves
      BY <2>1, <1>0, GoToEffect DEF Start, ThreadMoves, Walks
    <3>2. \A i \in Jobs : i # j => events'[i] = events[i]
      BY <2>1, <1>0, TellEffect DEF Start
    <3>3. EventMoves
      BY <2>1, <3>2 DEF EventMoves
    <3>4. QED
      BY <1>1, <1>2, <1>3, <2>1, <3>1, <3>3 DEF Start
  <2>2. CASE HandlerReturns(p, j) \/ MarkFailed(p, j)
    <3>1. ThreadMoves
      BY <2>2, <1>0, GoToEffect DEF HandlerReturns, MarkFailed, ThreadMoves, Walks
    <3>2. \A i \in Jobs : i # j => status'[i] = status[i]
      BY <2>2 DEF HandlerReturns, MarkFailed, TypeOK
    <3>3. StatusMoves
      BY <2>2, <3>2 DEF StatusMoves
    <3>4. QED
      BY <1>1, <1>2, <1>3, <2>2, <3>1, <3>3 DEF HandlerReturns, MarkFailed
  <2>3. CASE HandlerRaises(p, j)
    <3>1. ThreadMoves
      BY <2>3, <1>0, GoToEffect DEF HandlerRaises, ThreadMoves, Walks
    <3>2. QED
      BY <1>1, <1>2, <1>3, <2>3, <3>1 DEF HandlerRaises
  <2>4. CASE TellSucceeded(p, j)
    <3>1. ThreadMoves
      <4>1. GoTo(p, j, "none")
        BY <2>4 DEF TellSucceeded, LeavePool
      <4>2. thread'[p][j] = "none"
        BY <4>1, <1>0, GoToEffect
      <4>3. \A q \in Procs, i \in Jobs : q # p \/ i # j => thread'[q][i] = thread[q][i]
        BY <4>1, <1>0, GoToEffect
      <4>4. QED
        BY <2>4, <4>2, <4>3 DEF ThreadMoves, Walks
    <3>2. ActiveMoves
      BY <2>4, <1>0, <1>8 DEF TellSucceeded, AtStep
    <3>3. \A i \in Jobs : i # j => events'[i] = events[i]
      BY <2>4, <1>0, TellEffect DEF TellSucceeded
    <3>4. EventMoves
      BY <2>4, <3>3 DEF EventMoves
    <3>5. QED
      BY <1>1, <2>4, <3>1, <3>2, <3>4 DEF TellSucceeded
  <2>5. CASE TellFailed(p, j)
    <3>1. ThreadMoves
      BY <2>5, <1>0, GoToEffect DEF TellFailed, ThreadMoves, Walks
    <3>2. \A i \in Jobs : i # j => events'[i] = events[i]
      BY <2>5, <1>0, TellEffect DEF TellFailed
    <3>3. EventMoves
      BY <2>5, <3>2 DEF EventMoves
    <3>4. QED
      BY <1>1, <1>2, <1>3, <2>5, <3>1, <3>3 DEF TellFailed
  <2>6. CASE AuditFailure(p, j)
    <3>1. ThreadMoves
      <4>1. GoTo(p, j, "none")
        BY <2>6 DEF AuditFailure, LeavePool
      <4>2. thread'[p][j] = "none"
        BY <4>1, <1>0, GoToEffect
      <4>3. \A q \in Procs, i \in Jobs : q # p \/ i # j => thread'[q][i] = thread[q][i]
        BY <4>1, <1>0, GoToEffect
      <4>4. QED
        BY <2>6, <4>2, <4>3 DEF ThreadMoves, Walks
    <3>2. ActiveMoves
      BY <2>6, <1>0, <1>8 DEF AuditFailure, AtStep
    <3>3. QED
      BY <1>1, <2>6, <3>1, <3>2 DEF AuditFailure
  <2>7. CASE Progress(p, j)
    <3>1. FreshMoves
      BY <2>7 DEF Progress, FreshMoves, TypeOK
    <3>2. QED
      BY <1>1, <1>2, <1>3, <2>7, <3>1 DEF Progress
  <2>8. QED
    BY <1>9, <2>1, <2>2, <2>3, <2>4, <2>5, <2>6, <2>7 DEF Run
<1>10. CASE NightComes
  BY <1>1, <1>2, <1>3, <1>10 DEF NightComes, jobVars
<1>11. ASSUME NEW p \in Schedulers, Schedule(p) PROVE MovesOK
  <2>1. CASE SeeDue(p) \/ MarkTriggered(p) \/ MissTick(p)
    BY <1>1, <1>2, <1>3, <2>1 DEF SeeDue, MarkTriggered, MissTick, jobVars
  <2>2. ASSUME NEW j \in Jobs, AskForRefresh(p, j) PROVE MovesOK
    <3>1. Check(j)
      BY <2>2 DEF AskForRefresh
    <3>2. \A i \in Jobs : i # j => req'[i] = req[i]
      BY <3>1 DEF Check, TypeOK
    <3>3. RequestMoves
      BY <3>1, <3>2 DEF RequestMoves
    <3>4. QED
      BY <1>1, <1>2, <1>3, <3>1, <3>3 DEF Check
  <2>3. QED
    BY <1>11, <2>1, <2>2 DEF Schedule
<1>12. CASE Fault
  <2>1. ASSUME NEW p \in Procs, DispatchError(p) PROVE MovesOK
    <3>1. ReapedMoves
      BY <2>1, <1>0 DEF DispatchError, ReapedMoves, Faulty, TypeOK
    <3>2. FaultMoves
      BY <2>1, <1>0 DEF DispatchError, FaultMoves
    <3>3. QED
      BY <1>1, <1>2, <1>3, <2>1, <3>1, <3>2 DEF DispatchError
  <2>2. ASSUME NEW p \in Procs, Crash(p) PROVE MovesOK
    <3>1. FaultMoves /\ Faulty
      BY <2>2, <1>0 DEF Crash, FaultMoves, Faulty
    <3>2. ThreadMoves
      BY <2>2, <3>1, CrashEffect DEF ThreadMoves, Walks
    <3>3. ClaimedMoves
      BY <3>1 DEF ClaimedMoves
    <3>4. ReapedMoves
      BY <2>2, <3>1 DEF Crash, ReapedMoves, TypeOK
    <3>5. active'[p] = {} /\ \A q \in Procs : q # p => active'[q] = active[q]
      BY <2>2 DEF Crash, TypeOK
    <3>6. \A q \in Procs : ~Submit(q)
      BY <2>2 DEF Crash, Submit, TypeOK
    <3>7. ActiveMoves
      BY <2>2, <3>1, <3>5, <3>6, CrashEffect DEF ActiveMoves, Submits
    <3>8. QED
      BY <1>1, <2>2, <3>1, <3>2, <3>3, <3>4, <3>7 DEF Crash
  <2>3. ASSUME NEW p \in Procs, NEW j \in Jobs,
               StartError(p, j) \/ TellError(p, j) \/ ExceptError(p, j)
        PROVE  MovesOK
    <3>1. FaultMoves /\ Faulty /\ errors' # 0
      BY <2>3, <1>0 DEF StartError, TellError, ExceptError, FaultMoves, Faulty
    <3>2. ThreadMoves
      BY <2>3, <3>1, <1>0, GoToEffect DEF StartError, TellError, ExceptError, LeavePool,
                                          ThreadMoves, Walks
    <3>3. ActiveMoves
      BY <2>3, <3>1, <1>0, <1>2, <1>3, <1>8 DEF StartError, TellError, ExceptError
    <3>4. QED
      BY <1>1, <2>3, <3>1, <3>2, <3>3 DEF StartError, TellError, ExceptError
  <2>4. QED
    BY <1>12, <2>1, <2>2, <2>3 DEF Fault
<1>13. CASE UNCHANGED vars
  BY <1>1, <1>2, <1>3, <1>13 DEF vars, jobVars
<1>14. QED
  BY <1>4, <1>5, <1>6, <1>7, <1>9, <1>10, <1>11, <1>12, <1>13 DEF Next

-----------------------------------------------------------------------------
(* What is worked on runs, and is fresh, as long as heartbeats are on time *)

Works(p, j) ==
    \/ claimed[p] = j
    \/ thread[p][j] \in {"pool", "handler"}
    \/ thread[p][j] = "raised" /\ errors = 0

RunInv == CarryInv /\ WorkInv

LEMMA RunInit == Init => RunInv
<1> SUFFICES ASSUME Init PROVE RunInv
  OBVIOUS
<1>1. \A p \in Procs, j \in Jobs :
        claimed[p] # j /\ thread[p][j] = "none" /\ j \notin active[p]
  BY JobsArePositive DEF Init
<1>2. ThreadIsActive /\ CarriedIsFresh /\ WorkIsRunning
  BY <1>1 DEF ThreadIsActive, CarriedIsFresh, WorkIsRunning, Beating
<1>3. QED
  BY <1>2, CarryInit DEF RunInv, WorkInv

\* What a job's end is marked by works on it.
LEMMA MarkerWorks ==
    ASSUME CarryInv, MovesOK, NEW q \in Procs, NEW j \in Jobs,
           HandlerReturns(q, j) \/ MarkFailed(q, j)
    PROVE  /\ Carries(q, j) /\ claimed[q] # j
           /\ claimed' = claimed /\ errors' = errors
           /\ thread[q][j] \in {"handler", "raised"}
           /\ thread'[q][j] = IF thread[q][j] = "handler" THEN "returned" ELSE "failing"
           /\ status'[j] = IF thread[q][j] = "handler" THEN "succeeded" ELSE "failed"
<1>1. "returned" \in Steps /\ "failing" \in Steps
  BY DEF Steps
<1>2. Carries(q, j) /\ claimed[q] # j
  BY DEF HandlerReturns, MarkFailed, AtStep, Carries, CarryInv, OneCarrier
<1>3. CASE HandlerReturns(q, j)
  BY <1>1, <1>2, <1>3, GoToEffect
     DEF HandlerReturns, AtStep, CarryInv, TypeOK, dispatchVars, boundVars
<1>4. CASE MarkFailed(q, j)
  BY <1>1, <1>2, <1>4, GoToEffect
     DEF MarkFailed, AtStep, CarryInv, TypeOK, dispatchVars, boundVars
<1>5. QED
  BY <1>3, <1>4

\* Who works on a job after a step did so before, or claims it.
LEMMA WorkerStep ==
    ASSUME CarryInv, MovesOK, OneStepOK, NEW p \in Procs, NEW j \in Jobs, Works(p, j)'
    PROVE  Works(p, j) \/ Claim(p, j)
<1>1. CASE claimed'[p] = j
  BY <1>1 DEF OneStepOK, ClaimedStep, Works
<1>2. CASE thread'[p][j] = thread[p][j]
  <2>1. errors' = 0 => errors = 0
    BY DEF MovesOK, FaultMoves, CarryInv, TypeOK
  <2>2. QED
    BY <1>1, <1>2, <2>1 DEF Works
<1>3. CASE Walks(p, j)
  BY <1>1, <1>3 DEF Walks, Works, Submits, Start, CanStart, HandlerRaises, AtStep
<1>4. QED
  BY <1>1, <1>2, <1>3 DEF MovesOK, ThreadMoves

LEMMA RunStep == RunInv /\ [Next]_vars => RunInv'
<1> SUFFICES ASSUME RunInv, [Next]_vars PROVE RunInv'
  OBVIOUS
<1>1. CarryInv /\ TypeOK /\ CarryInv' /\ OneStepOK /\ MovesOK
  BY CarryStep, OneStep, Moves DEF RunInv, CarryInv
<1>2. ThreadIsActive'
  <2>1. ASSUME NEW p \in Procs, NEW j \in Jobs, thread'[p][j] # "none" PROVE j \in active'[p]
    <3>1. thread[p][j] # "none" \/ Submits(p, j)
      BY <1>1, <2>1 DEF OneStepOK, ThreadStep
    <3>2. QED
      BY <1>1, <2>1, <3>1 DEF MovesOK, ActiveMoves, RunInv, WorkInv, ThreadIsActive
  <2>2. QED
    BY <2>1 DEF ThreadIsActive
<1>3. \* Nothing that is carried gets stale, unless it is late.
      ASSUME NEW p \in Procs, NEW j \in Jobs, claimed[p] = j \/ j \in Beating(p), j \notin late'
      PROVE  fresh[j] /\ fresh'[j]
  <2>1. fresh[j] /\ Attended(j)
    BY <1>1, <1>3 DEF RunInv, WorkInv, CarriedIsFresh, Attended, MovesOK, FaultMoves
  <2>2. ~GoStale(j)
    BY <2>1, <1>3 DEF GoStale
  <2>3. QED
    BY <1>1, <2>1, <2>2 DEF MovesOK, FreshMoves
<1>4. CarriedIsFresh'
  <2>1. ASSUME NEW p \in Procs, NEW j \in Jobs, claimed'[p] = j \/ (j \in Beating(p))',
               j \notin late'
        PROVE  fresh'[j]
    <3>1. ASSUME NEW q \in Procs, Claim(q, j) PROVE fresh'[j]
      BY <3>1, <1>1 DEF Claim, TypeOK
    <3>2. CASE claimed'[p] = j
      BY <1>1, <1>3, <2>1, <3>1, <3>2 DEF OneStepOK, ClaimedStep
    <3>3. CASE (j \in Beating(p))'
      <4>1. status'[j] = "running" /\ (j \in active[p] \/ Submits(p, j))
        BY <1>1, <3>3 DEF Beating, MovesOK, ActiveMoves
      <4>2. CASE Submits(p, j)
        BY <1>3, <2>1, <4>2 DEF Submits
      <4>3. CASE status[j] = "running" /\ j \in active[p]
        BY <1>3, <2>1, <4>3 DEF Beating
      <4>4. CASE status[j] # "running"
        <5>1. ~InsertJob(j)
          BY <1>1, <4>1 DEF InsertJob, TypeOK
        <5>2. \A q \in Procs : ~HandlerReturns(q, j) /\ ~MarkFailed(q, j)
          BY <1>1, <4>1, MarkerWorks
        <5>3. QED
          BY <1>1, <3>1, <4>1, <4>4, <5>1, <5>2 DEF MovesOK, StatusMoves
      <4>5. QED
        BY <4>1, <4>2, <4>3, <4>4
    <3>4. QED
      BY <2>1, <3>2, <3>3
  <2>2. QED
    BY <2>1 DEF CarriedIsFresh
<1>5. WorkIsRunning'
  <2>1. ASSUME NEW p \in Procs, NEW j \in Jobs, Works(p, j)'
        PROVE  status'[j] = "running" \/ (j \in late' /\ status'[j] = "failed")
    <3>1. CASE Claim(p, j)
      BY <3>1, <1>1 DEF Claim, TypeOK
    <3>2. CASE Works(p, j)
      <4>1. /\ status[j] = "running" \/ (j \in late /\ status[j] = "failed")
            /\ Carries(p, j)
        BY <3>2 DEF RunInv, WorkInv, WorkIsRunning, Works, Carries
      <4>2. j \in Stale => j \in late
        <5>1. status[j] = "running" => claimed[p] = j \/ j \in Beating(p)
          BY <4>1 DEF Carries, Beating, RunInv, WorkInv, ThreadIsActive
        <5>2. QED
          BY <5>1 DEF Stale, RunInv, WorkInv, CarriedIsFresh
      <4>3. ~InsertJob(j) /\ late \subseteq late'
        BY <1>1, <4>1 DEF InsertJob, CarryInv, InsertedLater, MovesOK, FaultMoves
      <4>4. \A q \in Procs : ~Claim(q, j)
        BY <4>1 DEF Claim, Queued
      <4>5. ASSUME NEW q \in Procs, HandlerReturns(q, j) \/ MarkFailed(q, j) PROVE FALSE
        <5>1. q = p
          BY <1>1, <4>1, <4>5, MarkerWorks DEF CarryInv, OneCarrier
        <5>2. claimed'[p] # j /\ thread'[p][j] \in {"returned", "failing"}
          BY <1>1, <4>5, <5>1, MarkerWorks
        <5>3. QED
          BY <2>1, <5>2 DEF Works
      <4>6. status'[j] = status[j] \/ (j \in Stale /\ status'[j] = "failed")
        BY <1>1, <4>3, <4>4, <4>5 DEF MovesOK, StatusMoves
      <4>7. QED
        BY <4>1, <4>2, <4>3, <4>6
    <3>3. QED
      BY <1>1, <2>1, <3>1, <3>2, WorkerStep
  <2>2. QED
    BY <2>1 DEF WorkIsRunning, Works
<1>6. QED
  BY <1>1, <1>2, <1>4, <1>5 DEF RunInv, WorkInv

\* The row of an ended job changes only by the thread that has it.
LEMMA EndedMoves ==
    ASSUME CarryInv, MovesOK, NEW j \in Jobs, status[j] \in Ended
    PROVE  /\ status'[j] \in Ended
           /\ \/ status'[j] = status[j]
              \/ \E q \in Procs : HandlerReturns(q, j) \/ MarkFailed(q, j)
<1>1. ~InsertJob(j)
  BY DEF InsertJob, CarryInv, InsertedLater, Ended
<1>2. \A q \in Procs : ~Claim(q, j)
  BY DEF Claim, Queued, Ended
<1>3. j \notin Stale
  BY DEF Stale, Ended
<1>4. QED
  BY <1>1, <1>2, <1>3, MarkerWorks DEF MovesOK, StatusMoves, Ended

\* What a job has come to stays if no error comes in between, but for the reaper's
\* failed of a job that was late, over which its thread marks success (EndedStays).
THEOREM EndsForGood == Spec => EndedStays
<1>1. ASSUME RunInv, [Next]_vars, NEW j \in Jobs, errors' = 0, status[j] \in Ended,
             status'[j] # status[j]
      PROVE  j \in late /\ status[j] = "failed" /\ status'[j] = "succeeded"
  <2>1. CarryInv /\ TypeOK /\ MovesOK /\ errors = 0
    BY <1>1, Moves DEF RunInv, CarryInv, MovesOK, FaultMoves, TypeOK
  <2>2. PICK q \in Procs : HandlerReturns(q, j) \/ MarkFailed(q, j)
    BY <1>1, <2>1, EndedMoves
  <2>3. thread[q][j] \in {"handler", "raised"} /\ Works(q, j)
    BY <2>1, <2>2, MarkerWorks DEF Works
  <2>4. j \in late /\ status[j] = "failed"
    BY <1>1, <2>3 DEF RunInv, WorkInv, WorkIsRunning, Works, Ended
  <2>5. QED
    BY <1>1, <2>1, <2>2, <2>4, MarkerWorks
<1>2. RunInv /\ [Next]_vars =>
        [\A j \in Jobs :
            errors' = 0 /\ status[j] \in Ended /\ status'[j] # status[j]
              => j \in late /\ status[j] = "failed" /\ status'[j] = "succeeded"]_vars
  BY <1>1
<1>3. QED
  BY <1>2, RunInit, RunStep, PTL DEF Spec, EndedStays

-----------------------------------------------------------------------------
(* A scope has one open job, but for requests another one got in between *)

LEMMA ScopeInit == Init => ScopeInv
BY DEF Init, ScopeInv, CheckedIsFree, OneOpen, InEnqueue, Open

\* A job becomes open by its insert alone.
LEMMA OpensByInsert ==
    ASSUME CarryInv, MovesOK, NEW j \in Jobs, status'[j] \in Open, status[j] \notin Open
    PROVE  InsertJob(j)
<1>1. \A q \in Procs : ~HandlerReturns(q, j) /\ ~MarkFailed(q, j)
  BY MarkerWorks DEF Open
<1>2. \A q \in Procs : ~Claim(q, j)
  BY DEF Claim, Queued, Open
<1>3. QED
  BY <1>1, <1>2 DEF MovesOK, StatusMoves, Open

LEMMA ScopeStep ==
    ASSUME CarryInv, ScopeInv, [Next]_vars
    PROVE  ScopeInv'
<1>1. TypeOK /\ MovesOK /\ raced \subseteq raced'
  BY Moves DEF CarryInv, MovesOK, FaultMoves
\* An insert changes one row, finds its scope free unless it was raced, and races
\* the others that are in between.
<1>2. ASSUME NEW j \in Jobs, InsertJob(j)
      PROVE  /\ \A k \in Jobs : k # j => status'[k] = status[k]
             /\ req'[j] # "checked"
             /\ j \in InEnqueue
             /\ ScopeOf[j] # NoScope => j \in raced \/ Conflicting(j) = {}
             /\ \A k \in InEnqueue \ {j} : ScopeOf[k] = ScopeOf[j] => k \in raced'
  <2>1. j \in InEnqueue
    BY <1>2 DEF InsertJob, InEnqueue
  <2>2. \A k \in InEnqueue \ {j} : ScopeOf[k] = ScopeOf[j] => k \in raced'
    BY <1>2 DEF InsertJob
  <2>3. QED
    BY <1>1, <1>2, <2>1, <2>2 DEF InsertJob, ScopeInv, CheckedIsFree, TypeOK
<1>3. ASSUME NEW j \in InEnqueue', ScopeOf[j] # NoScope, j \notin raced'
      PROVE  Conflicting(j)' = {}
  <2>1. j \in Jobs /\ req'[j] = "checked" /\ j \notin raced
    BY <1>1, <1>3 DEF InEnqueue
  <2>2. CASE Check(j)
    <3>1. Conflicting(j) = {} /\ UNCHANGED status
      BY <1>1, <1>3, <2>1, <2>2 DEF Check, TypeOK
    <3>2. QED
      BY <3>1 DEF Conflicting
  <2>3. CASE req[j] = "checked"
    <3>1. j \in InEnqueue /\ Conflicting(j) = {}
      BY <1>3, <2>1, <2>3 DEF InEnqueue, ScopeInv, CheckedIsFree
    <3>2. ASSUME NEW k \in Jobs, ScopeOf[k] = ScopeOf[j], status'[k] \in Open PROVE FALSE
      <4>1. status[k] \notin Open
        BY <3>1, <3>2 DEF Conflicting
      <4>2. InsertJob(k)
        BY <1>1, <3>2, <4>1, OpensByInsert
      <4>3. j # k
        BY <1>2, <2>1, <4>2
      <4>4. QED
        BY <1>2, <1>3, <3>1, <3>2, <4>2, <4>3
    <3>3. QED
      BY <3>2 DEF Conflicting
  <2>4. QED
    BY <1>1, <2>1, <2>2, <2>3 DEF MovesOK, RequestMoves
<1>4. ASSUME NEW i \in Jobs, NEW j \in Jobs, i # j, ScopeOf[i] = ScopeOf[j],
             ScopeOf[i] # NoScope, status'[i] \in Open, status'[j] \in Open,
             i \notin raced', j \notin raced'
      PROVE  FALSE
  <2>1. ASSUME NEW k \in Jobs, NEW l \in Jobs, k # l, ScopeOf[k] = ScopeOf[l],
               ScopeOf[k] # NoScope, status[k] \notin Open, status'[k] \in Open,
               status'[l] \in Open, k \notin raced
        PROVE  FALSE
    <3>1. InsertJob(k)
      BY <1>1, <2>1, OpensByInsert
    <3>2. status[l] \in Open /\ Conflicting(k) = {}
      BY <1>2, <2>1, <3>1
    <3>3. QED
      BY <2>1, <3>2 DEF Conflicting
  <2>2. i \notin raced /\ j \notin raced
    BY <1>1, <1>4
  <2>3. status[i] \in Open /\ status[j] \in Open
    BY <1>4, <2>1, <2>2
  <2>4. QED
    BY <1>4, <2>2, <2>3 DEF ScopeInv, OneOpen
<1>5. CheckedIsFree'
  BY <1>3 DEF CheckedIsFree
<1>6. OneOpen'
  BY <1>4 DEF OneOpen
<1>7. QED
  BY <1>5, <1>6 DEF ScopeInv

\* Two jobs are at work on one scope only if one was requested while the other's
\* request was between its check and its insert, or was given up by a reaper
\* although it was at work; whatever crashes, fails or comes late (ScopeExclusive).
THEOREM OneJobPerScope == Spec => []ScopeExclusive
<1>1. ASSUME RunInv, ScopeInv PROVE ScopeExclusive
  <2>1. \A j \in Jobs : Handling(j) => status[j] = "running" \/ (j \in late /\ status[j] = "failed")
    BY <1>1 DEF Handling, AtStep, RunInv, WorkInv, WorkIsRunning
  <2>2. QED
    BY <1>1, <2>1 DEF ScopeInv, OneOpen, ScopeExclusive, Open
<1>2. RunInv /\ ScopeInv /\ [Next]_vars => ScopeInv'
  BY ScopeStep DEF RunInv
<1>3. QED
  BY <1>1, <1>2, RunInit, RunStep, ScopeInit, PTL DEF Spec

-----------------------------------------------------------------------------
(* Whoever ends a job says so *)

ReportInv == RunInv /\ TellInv

LEMMA ReportInit == Init => ReportInv
<1> SUFFICES ASSUME Init PROVE ReportInv
  OBVIOUS
<1>1. TellInv
  BY DEF Init, TellInv, SomebodyHasIt, EndIsMarked, LateIsReaped, EndIsAhead, Ended
<1>2. QED
  BY <1>1, RunInit DEF ReportInv

\* What was said stays said.
LEMMA SaidStays ==
    ASSUME TypeOK, OneStepOK, NEW j \in Jobs, NEW said,
           \E n \in DOMAIN events[j] : events[j][n] = said
    PROVE  \E n \in DOMAIN events'[j] : events'[j][n] = said
<1>1. CASE events'[j] = events[j]
  BY <1>1
<1>2. ASSUME NEW what \in {"started"} \cup Ended, events'[j] = Append(events[j], what)
      PROVE  \E n \in DOMAIN events'[j] : events'[j][n] = said
  <2>1. PICK n \in 1..Len(events[j]) : events[j][n] = said
    BY <1>2, OneMore
  <2>2. events[j] \in Seq({"started"} \cup Ended)
    BY DEF TypeOK
  <2>3. n \in DOMAIN Append(events[j], what)
    BY <1>2, <2>2
  <2>4. QED
    BY <1>2, <2>1, <2>3, OneMore
<1>3. ASSUME NEW p \in Procs, Start(p, j)
      PROVE  \E n \in DOMAIN events'[j] : events'[j][n] = said
  <2>1. events'[j] = Append(events[j], "started")
    BY <1>3, TellEffect DEF Start
  <2>2. QED
    BY <1>2, <2>1
<1>4. QED
  BY <1>1, <1>2, <1>3 DEF OneStepOK, EventStep, EndIsAdded

\* What a message about its end does to the messages of a job.
LEMMA ToldStep ==
    ASSUME TypeOK, NEW j \in Jobs, events'[j] = Append(events[j], status'[j])
    PROVE  SaysEnd(j)' /\ SaysItLast(j)'
<1>1. events[j] \in Seq({"started"} \cup Ended)
  BY DEF TypeOK
<1>2. /\ Len(events'[j]) = Len(events[j]) + 1 /\ events'[j][Len(events'[j])] = status'[j]
      /\ Len(events[j]) + 1 \in DOMAIN events'[j] /\ events'[j] # <<>>
  BY <1>1
<1>3. QED
  BY <1>2 DEF SaysEnd, SaysItLast

LEMMA ReportStep == ReportInv /\ [Next]_vars => ReportInv'
<1> SUFFICES ASSUME ReportInv, [Next]_vars PROVE ReportInv'
  OBVIOUS
<1>1. RunInv /\ CarryInv /\ TypeOK /\ RunInv' /\ CarryInv' /\ OneStepOK /\ MovesOK
  BY RunStep, OneStep, Moves DEF ReportInv, RunInv, CarryInv
<1>2. SUFFICES ASSUME crashes' = 0, errors' = 0
               PROVE  SomebodyHasIt' /\ EndIsMarked' /\ LateIsReaped' /\ EndIsAhead'
  BY <1>1 DEF ReportInv, TellInv
<1>3. ~Faulty /\ crashes = 0 /\ errors = 0 /\ late \subseteq late'
  BY <1>1, <1>2 DEF Faulty, MovesOK, FaultMoves, TypeOK
<1>4. SomebodyHasIt /\ EndIsMarked /\ LateIsReaped /\ EndIsAhead
  BY <1>3 DEF ReportInv, TellInv
\* What is stale was late.
<1>5. Stale \subseteq late
  <2>1. ASSUME NEW j \in Jobs, status[j] = "running", j \notin late PROVE fresh[j]
    BY <1>1, <1>4, <2>1 DEF SomebodyHasIt, Attended, RunInv, WorkInv, CarriedIsFresh
  <2>2. QED
    BY <2>1 DEF Stale
<1>6. LateIsReaped'
  <2>1. ASSUME NEW p \in Procs
        PROVE  reaped'[p] \subseteq late' /\ (reaped'[p] # {} => dpc'[p] = "tell")
    <3>1. reaped[p] \subseteq late /\ (reaped[p] # {} => dpc[p] = "tell")
      BY <1>4 DEF LateIsReaped
    <3>2. QED
      BY <1>1, <1>3, <1>5, <3>1 DEF MovesOK, ReapedMoves
  <2>2. QED
    BY <2>1 DEF LateIsReaped
<1>7. SomebodyHasIt'
  <2>1. ASSUME NEW j \in Jobs, status'[j] = "running" PROVE Attended(j)'
    <3>1. ASSUME NEW q \in Procs, Claim(q, j) PROVE claimed'[q] = j
      BY <1>1, <3>1 DEF Claim, TypeOK
    <3>2. CASE status[j] = "running"
      <4>1. PICK p \in Procs : j \in active[p] \/ claimed[p] = j
        BY <1>4, <3>2 DEF SomebodyHasIt, Attended, Beating
      <4>2. CASE j \in active[p]
        <5>1. thread[p][j] \notin {"returned", "auditing"}
          BY <1>4, <3>2 DEF EndIsMarked
        <5>2. j \in active'[p]
          BY <1>1, <1>3, <4>2, <5>1 DEF MovesOK, ActiveMoves
        <5>3. QED
          BY <2>1, <5>2 DEF Attended, Beating
      <4>3. CASE claimed[p] = j
        BY <1>1, <1>3, <2>1, <4>3 DEF MovesOK, ClaimedMoves, Attended, Beating
      <4>4. QED
        BY <4>1, <4>2, <4>3
    <3>3. CASE status[j] # "running"
      <4>1. ~InsertJob(j)
        BY <1>1, <2>1 DEF InsertJob, TypeOK
      <4>2. \A q \in Procs : ~HandlerReturns(q, j) /\ ~MarkFailed(q, j)
        BY <1>1, <2>1, MarkerWorks
      <4>3. QED
        BY <1>1, <2>1, <3>1, <3>3, <4>1, <4>2 DEF Attended, MovesOK, StatusMoves
    <3>4. QED
      BY <3>2, <3>3
  <2>2. QED
    BY <2>1 DEF SomebodyHasIt
<1>8. EndIsMarked'
  <2>1. ASSUME NEW p \in Procs, NEW j \in Jobs, thread'[p][j] = thread[p][j],
               thread[p][j] \in {"returned", "failing", "auditing"}
        PROVE  status'[j] = status[j]
    <3>1. status[j] \in Ended
      BY <1>4, <2>1 DEF EndIsMarked, Ended
    <3>2. ASSUME NEW q \in Procs, HandlerReturns(q, j) \/ MarkFailed(q, j) PROVE FALSE
      <4>1. Carries(p, j) /\ Carries(q, j) /\ thread[q][j] \in {"handler", "raised"}
        BY <1>1, <2>1, <3>2, MarkerWorks DEF Carries
      <4>2. QED
        BY <1>1, <2>1, <4>1 DEF CarryInv, OneCarrier
    <3>3. QED
      BY <1>1, <3>1, <3>2, EndedMoves
  <2>2. ASSUME NEW p \in Procs, NEW j \in Jobs, Walks(p, j)
        PROVE  /\ thread'[p][j] = "returned" => status'[j] = "succeeded"
               /\ thread'[p][j] \in {"failing", "auditing"} => status'[j] = "failed"
    <3>1. CASE HandlerReturns(p, j) \/ MarkFailed(p, j)
      BY <1>1, <3>1, MarkerWorks
    <3>2. CASE TellFailed(p, j) /\ thread'[p][j] = "auditing"
      BY <1>4, <3>2 DEF TellFailed, AtStep, EndIsMarked
    <3>3. QED
      BY <1>3, <2>2, <3>1, <3>2 DEF Walks, Faulty
  <2>3. QED
    BY <1>1, <1>4, <2>1, <2>2 DEF MovesOK, ThreadMoves, EndIsMarked
<1>9. EndIsAhead'
  <2>1. ASSUME NEW j \in Jobs, status'[j] \in Ended
        PROVE  \/ /\ SaysEnd(j)' /\ (j \in late' \/ SaysItLast(j)')
                  /\ j \in late' \/ \A p \in Procs : thread'[p][j] \in {"none", "auditing"}
               \/ status'[j] = "succeeded" /\ \E p \in Procs : thread'[p][j] = "returned"
               \/ status'[j] = "failed" /\ \E p \in Procs : thread'[p][j] = "failing"
               \/ status'[j] = "failed" /\ j \in late' /\ \E p \in Procs : j \in reaped'[p]
    <3>1. CASE status'[j] # status[j]
      <4>1. ~InsertJob(j)
        BY <1>1, <2>1 DEF InsertJob, TypeOK, Ended
      <4>2. \A q \in Procs : ~Claim(q, j)
        BY <1>1, <2>1 DEF Claim, TypeOK, Ended
      <4>3. CASE \E q \in Procs : HandlerReturns(q, j) \/ MarkFailed(q, j)
        BY <1>1, <4>3, MarkerWorks
      <4>4. CASE j \in Stale /\ status'[j] = "failed" /\ \E p \in Procs : Reap(p)
        <5>1. PICK p \in Procs : Reap(p)
          BY <4>4
        <5>2. reaped'[p] = Stale
          BY <1>1, <5>1 DEF Reap, TypeOK
        <5>3. QED
          BY <1>3, <1>5, <4>4, <5>2
      <4>5. QED
        BY <1>1, <3>1, <4>1, <4>2, <4>3, <4>4 DEF MovesOK, StatusMoves
    <3>2. CASE status'[j] = status[j]
      <4>1. status[j] \in Ended
        BY <2>1, <3>2
      <4>2. CASE SaysEnd(j) /\ j \in late'
        <5>1. SaysEnd(j)'
          BY <1>1, <3>2, <4>2, SaidStays DEF SaysEnd
        <5>2. QED
          BY <4>2, <5>1
      <4>3. CASE /\ Told(j) /\ j \notin late'
                 /\ \A p \in Procs : thread[p][j] \in {"none", "auditing"}
        <5>1. j \notin late /\ \A q \in Procs : ~Works(q, j) /\ j \notin reaped[q]
          BY <1>1, <1>3, <1>4, <4>1, <4>3
             DEF RunInv, WorkInv, WorkIsRunning, Works, Ended, LateIsReaped
        <5>2. \A q \in Procs : /\ ~Start(q, j) /\ ~HandlerReturns(q, j) /\ ~HandlerRaises(q, j)
                               /\ ~MarkFailed(q, j) /\ ~Submits(q, j) /\ ~TellReaped(q, j)
                               /\ ~TellSucceeded(q, j) /\ ~TellFailed(q, j)
          BY <4>3, <5>1 DEF Works, Start, CanStart, AtStep, HandlerReturns, HandlerRaises,
                            MarkFailed, Submits, TellReaped, TellSucceeded, TellFailed
        <5>3. events'[j] = events[j]
          BY <1>1, <5>2 DEF MovesOK, EventMoves
        <5>4. \A q \in Procs : thread'[q][j] \in {"none", "auditing"}
          BY <1>1, <1>2, <1>3, <4>3, <5>2 DEF MovesOK, ThreadMoves, Walks
        <5>5. SaysEnd(j)' /\ SaysItLast(j)'
          BY <3>2, <4>3, <5>1, <5>3 DEF Told, SaysEnd, SaysItLast
        <5>6. QED
          BY <5>4, <5>5
      <4>4. ASSUME NEW p \in Procs, thread[p][j] \in {"returned", "failing"},
                   thread'[p][j] # thread[p][j]
            PROVE  /\ SaysEnd(j)' /\ SaysItLast(j)'
                   /\ \A q \in Procs : thread'[q][j] \in {"none", "auditing"}
        <5>1. \/ TellSucceeded(p, j) /\ thread'[p][j] = "none"
              \/ TellFailed(p, j) /\ thread'[p][j] = "auditing"
          BY <1>1, <1>2, <1>3, <4>4 DEF MovesOK, ThreadMoves, Walks, Start, CanStart, Submits,
             HandlerReturns, HandlerRaises, MarkFailed, AuditFailure, AtStep, CarryInv, OneCarrier
        <5>2. events'[j] = Append(events[j], status'[j])
          <6>1. "succeeded" \in {"started"} \cup Ended /\ "failed" \in {"started"} \cup Ended
            BY DEF Ended
          <6>2. CASE TellSucceeded(p, j)
            BY <1>1, <1>4, <3>2, <6>1, <6>2, TellEffect DEF TellSucceeded, AtStep, EndIsMarked
          <6>3. CASE TellFailed(p, j)
            BY <1>1, <1>4, <3>2, <6>1, <6>3, TellEffect DEF TellFailed, AtStep, EndIsMarked
          <6>4. QED
            BY <5>1, <6>2, <6>3
        <5>3. \A q \in Procs : q # p => thread[q][j] = "none" /\ ~Submits(q, j)
          BY <1>1, <4>4 DEF CarryInv, OneCarrier, Carries, Submits
        <5>4. \A q \in Procs : q # p => thread'[q][j] = "none"
          BY <1>1, <5>3 DEF OneStepOK, ThreadStep
        <5>5. QED
          BY <1>1, <5>1, <5>2, <5>4, ToldStep
      <4>5. ASSUME NEW p \in Procs, j \in reaped[p], status[j] = "failed", j \in late
            PROVE  j \in late' /\ (SaysEnd(j)' \/ j \in reaped'[p])
        <5>1. dpc[p] = "tell" /\ ~Reap(p)
          BY <1>4, <4>5 DEF LateIsReaped, Reap
        <5>2. CASE TellReaped(p, j)
          <6>1. events'[j] = Append(events[j], status'[j])
            BY <1>1, <3>2, <4>5, <5>2, TellEffect DEF TellReaped, Ended
          <6>2. QED
            BY <1>1, <1>3, <4>5, <6>1, ToldStep
        <5>3. QED
          BY <1>1, <1>3, <4>5, <5>1, <5>2 DEF MovesOK, ReapedMoves
      <4>6. CASE Told(j) /\ (j \in late \/ \A p \in Procs : thread[p][j] \in {"none", "auditing"})
        BY <1>3, <4>2, <4>3, <4>6 DEF Told
      <4>7. CASE \/ status[j] = "succeeded" /\ \E p \in Procs : thread[p][j] = "returned"
                 \/ status[j] = "failed" /\ \E p \in Procs : thread[p][j] = "failing"
        BY <3>2, <4>4, <4>7
      <4>8. CASE status[j] = "failed" /\ j \in late /\ \E p \in Procs : j \in reaped[p]
        BY <3>2, <4>5, <4>8
      <4>9. QED
        BY <1>4, <4>1, <4>6, <4>7, <4>8 DEF EndIsAhead
    <3>3. QED
      BY <3>1, <3>2
  <2>2. QED
    BY <2>1 DEF EndIsAhead, Told
<1>10. QED
  BY <1>6, <1>7, <1>8, <1>9

\* Without crashes and errors, whoever has ended a job and is through has said how
\* it ended, the reaper and the thread it gave up too (EndIsTold).
THEOREM EndsAreTold == Spec => []EndIsTold
<1>1. ASSUME ReportInv PROVE EndIsTold
  <2>1. ASSUME crashes = 0, errors = 0, NEW j \in Jobs, status[j] \in Ended, Reported(j)
        PROVE  Told(j)
    BY <1>1, <2>1 DEF ReportInv, TellInv, EndIsAhead, Reported, AtStep
  <2>2. QED
    BY <2>1 DEF EndIsTold, Told, SaysEnd, SaysItLast
<1>2. QED
  BY <1>1, ReportInit, ReportStep, PTL DEF Spec

-----------------------------------------------------------------------------
(* What a reader of the rows sees: JobTable *)

Underway == {"handler", "returned", "raised", "failing", "auditing"}

\* A thread that is past its start has said so.
UnderwayHasStarted == \A p \in Procs, j \in Jobs : thread[p][j] \in Underway => HasStarted(j)

\* What a thread is about to say is so.
MarkIsSaid ==
    \A p \in Procs, j \in Jobs :
        /\ thread[p][j] = "returned" => status[j] = "succeeded"
        /\ thread[p][j] = "failing" => status[j] = "failed"

\* What a reaper is about to say was so; the job may have succeeded since.
ReapedHasEnded == \A p \in Procs : \A j \in reaped[p] : status[j] \in Ended

SaidToSucceed(j) == \E n \in DOMAIN events[j] : events[j][n] = "succeeded"

\* Nobody carries a job that is said to have succeeded.
SuccessIsLast ==
    \A j \in Jobs : SaidToSucceed(j) => j \notin Untaken /\ \A p \in Procs : ~Carries(p, j)

TableInv ==
    StartInv /\ UnderwayHasStarted /\ MarkIsSaid /\ ReapedHasEnded /\ SuccessIsLast

LEMMA TableInit == Init => TableInv
<1> SUFFICES ASSUME Init PROVE TableInv
  OBVIOUS
<1>1. \A j \in Jobs : events[j] = <<>> /\ DOMAIN events[j] = {}
  BY DEF Init
<1>2. \A p \in Procs : reaped[p] = {} /\ \A j \in Jobs : thread[p][j] = "none"
  BY DEF Init
<1>3. UnderwayHasStarted /\ MarkIsSaid /\ ReapedHasEnded /\ SuccessIsLast
  BY <1>1, <1>2 DEF UnderwayHasStarted, Underway, MarkIsSaid, ReapedHasEnded, SuccessIsLast,
                    SaidToSucceed
<1>4. QED
  BY <1>3, StartInit DEF TableInv

\* A job of which nothing else is added, or something else than success, is not
\* newly said to have succeeded.
LEMMA NotSucceeded ==
    ASSUME TypeOK, NEW j \in Jobs, NEW what \in {"started", "failed"},
           events'[j] = Append(events[j], what), SaidToSucceed(j)'
    PROVE  SaidToSucceed(j)
<1>1. events[j] \in Seq({"started"} \cup Ended)
  BY DEF TypeOK
<1>2. DOMAIN events'[j] = 1..(Len(events[j]) + 1)
  BY <1>1
<1>3. PICK n \in DOMAIN events'[j] : events'[j][n] = "succeeded"
  BY DEF SaidToSucceed
<1>4. n \in 1..Len(events[j])
  BY <1>2, <1>3, OneMore
<1>5. QED
  BY <1>3, <1>4, OneMore DEF SaidToSucceed

\* Only a thread whose handler has returned says that the job succeeded.
LEMMA SuccessIsSaid ==
    ASSUME TypeOK, MovesOK, NEW j \in Jobs, SaidToSucceed(j)'
    PROVE  SaidToSucceed(j) \/ \E p \in Procs : TellSucceeded(p, j)
<1>1. CASE events'[j] = events[j]
  BY <1>1 DEF SaidToSucceed
<1>2. ASSUME NEW p \in Procs, Start(p, j) \/ TellReaped(p, j) \/ TellFailed(p, j)
      PROVE  SaidToSucceed(j)
  <2>1. PICK what \in {"started", "failed"} : Tell(j, what)
    BY <1>2 DEF Start, TellReaped, TellFailed
  <2>2. events'[j] = Append(events[j], what)
    BY <2>1, TellEffect DEF Ended
  <2>3. QED
    BY <2>2, NotSucceeded
<1>3. QED
  BY <1>1, <1>2 DEF MovesOK, EventMoves

LEMMA TableStep == TableInv /\ [Next]_vars => TableInv'
<1> SUFFICES ASSUME TableInv, [Next]_vars PROVE TableInv'
  OBVIOUS
<1>1. /\ StartInv' /\ CarryInv /\ TypeOK /\ OneStepOK /\ MovesOK
  BY StartStep, OneStep, Moves DEF TableInv, StartInv, CarryInv
<1>2. ASSUME NEW p \in Procs, NEW j \in Jobs, thread'[p][j] \in Underway PROVE HasStarted(j)'
  <2>1. CASE Start(p, j)
    <3>1. events'[j] = Append(events[j], "started")
      BY <1>1, <2>1, StartTakesIt
    <3>2. events[j] \in Seq({"started"} \cup Ended)
      BY <1>1 DEF TypeOK
    <3>3. Len(events[j]) + 1 \in DOMAIN Append(events[j], "started")
      BY <3>2
    <3>4. QED
      BY <1>1, <3>1, <3>3, OneMore DEF HasStarted
  <2>2. CASE thread[p][j] \in Underway
    BY <1>1, <2>2, SaidStays DEF TableInv, UnderwayHasStarted, HasStarted
  <2>3. thread[p][j] \in Underway \/ Start(p, j)
    <3>1. CASE thread'[p][j] = thread[p][j]
      BY <1>2, <3>1
    <3>2. CASE Walks(p, j)
      BY <1>2, <3>2 DEF Walks, Underway, HandlerReturns, HandlerRaises, MarkFailed, TellFailed,
                        TellError, AtStep
    <3>3. QED
      BY <1>1, <3>1, <3>2 DEF MovesOK, ThreadMoves
  <2>4. QED
    BY <2>1, <2>2, <2>3
<1>3. ASSUME NEW p \in Procs, NEW j \in Jobs
      PROVE  /\ thread'[p][j] = "returned" => status'[j] = "succeeded"
             /\ thread'[p][j] = "failing" => status'[j] = "failed"
  <2>1. CASE thread'[p][j] = thread[p][j] /\ thread[p][j] \in {"returned", "failing"}
    <3>1. status[j] \in Ended
      BY <2>1 DEF TableInv, MarkIsSaid, Ended
    <3>2. ASSUME NEW q \in Procs, HandlerReturns(q, j) \/ MarkFailed(q, j) PROVE FALSE
      <4>1. Carries(p, j) /\ Carries(q, j) /\ thread[q][j] \in {"handler", "raised"}
        BY <1>1, <2>1, <3>2, MarkerWorks DEF Carries
      <4>2. QED
        BY <1>1, <2>1, <4>1 DEF CarryInv, OneCarrier
    <3>3. status'[j] = status[j]
      BY <1>1, <3>1, <3>2, EndedMoves
    <3>4. QED
      BY <2>1, <3>3 DEF TableInv, MarkIsSaid
  <2>2. CASE HandlerReturns(p, j) \/ MarkFailed(p, j)
    BY <1>1, <2>2, MarkerWorks
  <2>3. CASE thread'[p][j] \notin {"returned", "failing"}
    BY <2>3
  <2>4. QED
    BY <1>1, <2>1, <2>2, <2>3 DEF MovesOK, ThreadMoves, Walks
<1>4. ASSUME NEW p \in Procs, NEW j \in reaped'[p] PROVE status'[j] \in Ended
  <2>1. CASE j \in reaped[p]
    <3>1. j \in Jobs /\ status[j] \in Ended
      BY <1>1, <2>1 DEF TableInv, ReapedHasEnded, TypeOK
    <3>2. QED
      BY <1>1, <3>1, EndedMoves
  <2>2. CASE Reap(p) /\ j \in Stale
    BY <2>2 DEF Reap, Stale, Ended
  <2>3. QED
    BY <1>1, <1>4, <2>1, <2>2 DEF MovesOK, ReapedMoves
<1>5. ASSUME NEW j \in Jobs, SaidToSucceed(j)'
      PROVE  j \notin Untaken' /\ \A q \in Procs : ~Carries(q, j)'
  <2>1. CASE SaidToSucceed(j)
    <3>1. j \notin Untaken /\ \A q \in Procs : ~Carries(q, j)
      BY <2>1 DEF TableInv, SuccessIsLast
    <3>2. \A q \in Procs : ~Claim(q, j)
      BY <1>1, <3>1, ClaimFindsIt
    <3>3. QED
      BY <1>1, <3>1, <3>2, CarrierStep DEF OneStepOK, StatusStep
  <2>2. ASSUME NEW p \in Procs, TellSucceeded(p, j)
        PROVE  j \notin Untaken' /\ \A q \in Procs : ~Carries(q, j)'
    <3>1. thread[p][j] = "returned" /\ thread'[p][j] = "none" /\ UNCHANGED claimed
      BY <1>1, <2>2, GoToEffect DEF TellSucceeded, LeavePool, AtStep, Steps, dispatchVars
    <3>2. Carries(p, j) /\ j \notin Untaken /\ claimed[p] # j
      BY <1>1, <3>1 DEF Carries, CarryInv, OneCarrier
    <3>3. \A q \in Procs : ~Claim(q, j)
      BY <1>1, <3>2, ClaimFindsIt
    <3>4. ~Carries(p, j)'
      BY <3>1, <3>2 DEF Carries
    <3>5. ASSUME NEW q \in Procs, Carries(q, j)' PROVE FALSE
      <4>1. Carries(q, j)
        BY <1>1, <3>3, <3>5, CarrierStep
      <4>2. q = p
        BY <1>1, <3>2, <4>1 DEF CarryInv, OneCarrier
      <4>3. QED
        BY <3>4, <3>5, <4>2
    <3>6. QED
      BY <1>1, <3>2, <3>5 DEF OneStepOK, StatusStep
  <2>3. QED
    BY <1>1, <1>5, <2>1, <2>2, SuccessIsSaid
<1>6. UnderwayHasStarted' /\ MarkIsSaid' /\ ReapedHasEnded' /\ SuccessIsLast'
  BY <1>2, <1>3, <1>4, <1>5 DEF UnderwayHasStarted, MarkIsSaid, ReapedHasEnded, SuccessIsLast
<1>7. QED
  BY <1>1, <1>6 DEF TableInv

LEMMA TableInitially == Init => JobView!Init
BY DEF Init, JobView!Init

\* A job somebody carries is past the queue.
LEMMA CarriedIsTaken ==
    ASSUME CarryInv, NEW p \in Procs, NEW j \in Jobs, thread[p][j] # "none"
    PROVE  status[j] \in {"running"} \cup Ended
BY DEF CarryInv, OneCarrier, Carries, Untaken, TypeOK, Open

\* Every step is a step of the abstract table, or leaves it alone.
LEMMA TableSees == TableInv /\ [Next]_vars => [JobView!Next]_(JobView!vars)
<1> SUFFICES ASSUME TableInv, [Next]_vars PROVE [JobView!Next]_(JobView!vars)
  OBVIOUS
<1>1. StartInv /\ CarryInv /\ TypeOK
  BY DEF TableInv, StartInv, CarryInv
<1>2. ASSUME NEW j \in Jobs, InsertJob(j) PROVE JobView!Request(j)
  BY <1>1, <1>2 DEF InsertJob, CarryInv, InsertedLater, JobView!Request
<1>3. ASSUME NEW p \in Procs, Reap(p) PROVE JobView!GiveUp(Stale) /\ Stale \in SUBSET Jobs
  BY <1>3 DEF Reap, Stale, JobView!GiveUp
<1>4. ASSUME NEW p \in Procs, NEW j \in Jobs, TellReaped(p, j) PROVE JobView!SayFailed(j)
  BY <1>4 DEF TellReaped, Tell, TableInv, ReapedHasEnded, Ended, JobView!SayFailed, JobView!Ended
<1>5. ASSUME NEW p \in Procs, NEW j \in Jobs, Claim(p, j) PROVE JobView!Take(j)
  BY <1>5 DEF Claim, Queued, JobView!Take
<1>6. ASSUME NEW p \in Procs, NEW j \in Jobs, Start(p, j) PROVE JobView!Begin(j)
  <2>1. status[j] \in {"running"} \cup Ended
    BY <1>1, <1>6, CarriedIsTaken DEF Start, CanStart, AtStep
  <2>2. ~HasStarted(j)
    BY <1>6 DEF Start, CanStart, AtStep, TableInv, StartInv, StartIsAhead
  <2>3. QED
    BY <1>6, <2>1, <2>2 DEF Start, Tell, HasStarted, Ended, JobView!Begin, JobView!Said, JobView!Ended
\* What is underway has begun and is not over.
<1>7. ASSUME NEW p \in Procs, NEW j \in Jobs, thread[p][j] \in Underway
      PROVE  /\ JobView!Said(j, "started") /\ ~JobView!Said(j, "succeeded")
             /\ status[j] \in {"running"} \cup JobView!Ended
  <2>1. HasStarted(j) /\ ~SaidToSucceed(j) /\ status[j] \in {"running"} \cup Ended
    BY <1>1, <1>7, CarriedIsTaken
       DEF TableInv, UnderwayHasStarted, SuccessIsLast, Carries, Underway
  <2>2. QED
    BY <2>1 DEF HasStarted, SaidToSucceed, JobView!Said, Ended, JobView!Ended
<1>8. ASSUME NEW p \in Procs, NEW j \in Jobs, HandlerReturns(p, j)
      PROVE  JobView!End(j, "succeeded")
  BY <1>7, <1>8 DEF HandlerReturns, AtStep, Underway, JobView!End
<1>9. ASSUME NEW p \in Procs, NEW j \in Jobs, MarkFailed(p, j) PROVE JobView!End(j, "failed")
  BY <1>7, <1>9 DEF MarkFailed, AtStep, Underway, JobView!End
<1>10. ASSUME NEW p \in Procs, NEW j \in Jobs, TellSucceeded(p, j) PROVE JobView!SaySucceeded(j)
  BY <1>7, <1>10 DEF TellSucceeded, Tell, AtStep, Underway, TableInv, MarkIsSaid,
                     JobView!SaySucceeded
<1>11. ASSUME NEW p \in Procs, NEW j \in Jobs, TellFailed(p, j) PROVE JobView!SayFailed(j)
  BY <1>11 DEF TellFailed, Tell, AtStep, TableInv, MarkIsSaid, JobView!SayFailed, JobView!Ended
<1>12. "succeeded" \in JobView!Ended /\ "failed" \in JobView!Ended
  BY DEF JobView!Ended
<1>13. CASE UNCHANGED <<status, events>>
  BY <1>13 DEF JobView!vars
<1>14. ASSUME NEW j \in Jobs, Request(j) \/ GoStale(j)
       PROVE  [JobView!Next]_(JobView!vars)
  BY <1>2, <1>13, <1>14 DEF Request, CheckScope, Check, LoseRequest, GoStale,
                            JobView!Next
<1>15. ASSUME NEW p \in Procs, Dispatch(p) \/ Heartbeat(p) PROVE [JobView!Next]_(JobView!vars)
  BY <1>3, <1>4, <1>5, <1>13, <1>15 DEF Dispatch, Submit, EndPass, Heartbeat, JobView!Next
<1>16. ASSUME NEW p \in Procs, NEW j \in Jobs, Run(p, j) \/ Progress(p, j)
       PROVE  [JobView!Next]_(JobView!vars)
  <2>1. CASE HandlerRaises(p, j) \/ AuditFailure(p, j) \/ Progress(p, j)
    BY <1>13, <2>1 DEF HandlerRaises, AuditFailure, Progress
  <2>2. QED
    BY <1>6, <1>8, <1>9, <1>10, <1>11, <1>12, <1>16, <2>1 DEF Run, JobView!Next
<1>17. CASE NightComes
  BY <1>13, <1>17 DEF NightComes, jobVars
<1>18. ASSUME NEW p \in Schedulers, Schedule(p) PROVE [JobView!Next]_(JobView!vars)
  BY <1>13, <1>18 DEF Schedule, SeeDue, MarkTriggered, AskForRefresh, Check, MissTick, jobVars
<1>19. CASE Fault
  BY <1>13, <1>19 DEF Fault, DispatchError, Crash, StartError, TellError, ExceptError
<1>20. CASE UNCHANGED vars
  BY <1>13, <1>20 DEF vars, jobVars
<1>21. QED
  BY <1>14, <1>15, <1>16, <1>17, <1>18, <1>19, <1>20 DEF Next

\* The committed rows of the jobs live as JobTable says, however many processes
\* take them, crash, stall and report too late (ImplementsJobTable).
THEOREM JobsRefineTable == Spec => ImplementsJobTable
<1>1. QED
  BY TableInit, TableStep, TableInitially, TableSees, PTL
     DEF Spec, ImplementsJobTable, JobView!Spec

-----------------------------------------------------------------------------
(* The event streams of the jobs *)

USE StreamAssumption

\* Ids are natural numbers, whatever the sequence and the streams have done.
IdsAreIds ==
    /\ nextId \in Nat
    /\ open \subseteq Ids
    /\ log \subseteq Ids
    /\ batch \subseteq Ids
    /\ received \in Seq(Ids)

\* Nothing is in hand that was sent before.
BatchAhead == \A i \in batch : i > lastId

\* A client that is connected and has received something is at its last id; one
\* that has not been connected has received nothing.
CursorKept ==
    /\ conn = "new" => received = <<>>
    /\ conn # "up" => batch = {}
    /\ conn = "up" /\ received # <<>> => lastId = received[Len(received)]

StreamInv == IdsAreIds /\ BatchAhead /\ CursorKept /\ InOrder

\* Whoever is last in an increasing sequence is its largest, so that what is
\* larger may follow.
LEMMA AppendLarger ==
    ASSUME MaxEvents \in Nat, NEW s \in Seq(Ids), NEW i \in Ids,
           \A m, n \in DOMAIN s : m < n => s[m] < s[n],
           s # <<>> => i > s[Len(s)]
    PROVE  \A m, n \in DOMAIN Append(s, i) : m < n => Append(s, i)[m] < Append(s, i)[n]
<1> DEFINE t == Append(s, i)
<1>1. /\ Len(s) \in Nat
      /\ DOMAIN s = 1..Len(s)
      /\ DOMAIN t = 1..(Len(s) + 1)
      /\ \A k \in 1..Len(s) : t[k] = s[k] /\ s[k] \in Nat
      /\ t[Len(s) + 1] = i /\ i \in Nat
  BY DEF Ids
<1>2. ASSUME NEW m \in DOMAIN t, NEW n \in DOMAIN t, m < n PROVE t[m] < t[n]
  <2>1. CASE n =< Len(s)
    BY <1>1, <1>2, <2>1
  <2>2. CASE n = Len(s) + 1
    <3>1. m \in 1..Len(s) /\ s # <<>>
      BY <1>1, <1>2, <2>2
    <3>2. s[m] =< s[Len(s)]
      <4>1. CASE m = Len(s)
        BY <1>1, <3>1, <4>1
      <4>2. CASE m < Len(s)
        BY <1>1, <3>1, <4>2
      <4>3. QED
        BY <1>1, <3>1, <4>1, <4>2
    <3>3. i > s[Len(s)] /\ s[Len(s)] \in Nat
      BY <1>1, <3>1
    <3>4. QED
      BY <1>1, <2>2, <3>1, <3>2, <3>3
  <2>3. QED
    BY <1>1, <1>2, <2>1, <2>2
<1> HIDE DEF t
<1>3. QED
  BY <1>2 DEF t

\* Nothing has been emitted, and nobody is connected.
LEMMA StreamBegins == StreamInit => StreamInv
BY DEF StreamInit, StreamInv, IdsAreIds, BatchAhead, CursorKept, InOrder

\* Every step of an emitter, of the server and of the client keeps the
\* invariant.
LEMMA StreamStep ==
    ASSUME StreamInv, [StreamNext]_streamVars PROVE StreamInv'
<1> USE DEF StreamInv, IdsAreIds, BatchAhead, CursorKept, InOrder, logVars
<1>1. CASE Emit
  BY <1>1 DEF Emit, Ids
<1>2. ASSUME NEW i \in Ids, CommitEmit(i) \/ AbortEmit(i) PROVE StreamInv'
  BY <1>2 DEF CommitEmit, AbortEmit
<1>3. ASSUME NEW r \in Routes, Connect(r) PROVE StreamInv'
  BY <1>3 DEF Connect
<1>4. CASE Reconnect
  BY <1>4 DEF Reconnect
<1>5. CASE Poll
  BY <1>5 DEF Poll, Page, After
<1>6. CASE Send
  <2>1. PICK i \in batch : /\ \A j \in batch : i =< j
                           /\ lastId' = i
                           /\ received' = Append(received, i)
                           /\ batch' = batch \ {i}
    BY <1>6 DEF Send
  <2>2. UNCHANGED <<nextId, open, log, conn>> /\ conn = "up"
    BY <1>6 DEF Send
  <2>3. i \in Ids /\ received \in Seq(Ids)
    OBVIOUS
  <2>4. /\ received' \in Seq(Ids)
        /\ received' # <<>>
        /\ received'[Len(received')] = i
    BY <2>1, <2>3
  <2>5. BatchAhead'
    BY <2>1 DEF Ids
  <2>6. InOrder'
    <3>1. received # <<>> => i > received[Len(received)]
      BY <2>2
    <3>2. QED
      BY <2>1, <2>3, <3>1, AppendLarger
  <2>7. QED
    BY <2>1, <2>2, <2>4, <2>5, <2>6
<1>7. CASE Drop
  BY <1>7 DEF Drop
<1>8. CASE UNCHANGED streamVars
  BY <1>8 DEF streamVars
<1>9. QED
  BY <1>1, <1>2, <1>3, <1>4, <1>5, <1>6, <1>7, <1>8 DEF StreamNext

\* Events reach a client in the order of their ids, each at most once: a poll
\* asks for what is above the last id sent, and a reconnection for what is above
\* the last id received (_event_stream, _resume_from).
THEOREM ReceivedInOrder == StreamSpec => []InOrder
<1>1. StreamInv => InOrder
  BY DEF StreamInv
<1>2. StreamInv /\ [StreamNext]_streamVars => StreamInv'
  BY StreamStep
<1>3. QED
  BY StreamBegins, <1>1, <1>2, PTL DEF StreamSpec

-----------------------------------------------------------------------------
(* The migration runner *)

USE MigrationsAssumption

\* Whoever is between taking the lock and giving it back holds it.
HolderApplies == \A a \in Admins : pc[a] \in Applying => lock = a

\* While a transaction has inserted the row of a file, no other can commit one.
InsertedUnrecorded ==
    \A a \in Admins : pc[a] = "inserted" => recorded[file[a]] = Unrecorded

\* What has run is recorded, and ran once.
RanRecorded ==
    \A f \in Files : \/ ran[f] = <<>>
                     \/ Len(ran[f]) = 1 /\ recorded[f] # Unrecorded

RunnerInv == RunnerTypeOK /\ HolderApplies /\ InsertedUnrecorded /\ RanRecorded

-----------------------------------------------------------------------------
(* Types of the migration runner *)

\* No call has begun and nothing is recorded: of the right types.
LEMMA RunnerTypeInit ==
    ASSUME RunnerInit PROVE RunnerTypeOK
<1>1. (CHOOSE f \in Files : TRUE) \in Files
  OBVIOUS
<1>2. 1 \in Versions /\ <<>> \in Seq(Versions)
  BY DEF Versions
<1>3. QED
  BY <1>1, <1>2 DEF RunnerInit, RunnerTypeOK, Unrecorded

\* Every step of a runner, an edit and a crash keep the types.
LEMMA RunnerTypeStep ==
    ASSUME RunnerTypeOK, [RunnerNext]_runnerVars
    PROVE  RunnerTypeOK'
<1> USE DEF RunnerTypeOK, MoveTo, readVars
<1>1. ASSUME NEW a \in Admins, Apply(a) PROVE RunnerTypeOK'
  <2>1. CASE ReadChecksum(a)
    BY <2>1 DEF ReadChecksum
  <2>2. CASE TryLock(a)
    BY <2>2 DEF TryLock
  <2>3. CASE FindRecorded(a)
    BY <2>3 DEF FindRecorded
  <2>4. CASE RunSql(a)
    BY <2>4 DEF RunSql
  <2>5. CASE InsertRow(a)
    BY <2>5 DEF InsertRow
  <2>6. CASE Commit(a)
    <3>1. Append(ran[file[a]], text[a]) \in Seq(Versions)
      OBVIOUS
    <3>2. QED
      BY <2>6, <3>1 DEF Commit
  <2>7. CASE RunFails(a)
    BY <2>7 DEF RunFails
  <2>8. CASE Unlock(a)
    BY <2>8 DEF Unlock
  <2>9. CASE MarkApplied(a)
    BY <2>9 DEF MarkApplied
  <2>10. QED
    BY <1>1, <2>1, <2>2, <2>3, <2>4, <2>5, <2>6, <2>7, <2>8, <2>9 DEF Apply
<1>2. ASSUME NEW a \in Admins, CrashCall(a) PROVE RunnerTypeOK'
  BY <1>2 DEF CrashCall
<1>3. ASSUME NEW a \in Admins, NEW f \in Files, ReadSql(a, f) PROVE RunnerTypeOK'
  BY <1>3 DEF ReadSql
<1>4. ASSUME NEW a \in Admins, NEW f \in Files, MarkChecksum(a, f) PROVE RunnerTypeOK'
  BY <1>4 DEF MarkChecksum
<1>5. ASSUME NEW f \in Files, Edit(f) PROVE RunnerTypeOK'
  BY <1>5 DEF Edit, Versions
<1>6. CASE UNCHANGED runnerVars
  BY <1>6 DEF runnerVars
<1>7. QED
  BY <1>1, <1>2, <1>3, <1>4, <1>5, <1>6 DEF RunnerNext

\* Every variable keeps its type, in particular no call ends up at a step the
\* runner does not have (apply_migration, mark_applied).
THEOREM RunnerTypeCorrect == RunnerSpec => []RunnerTypeOK
<1>1. RunnerInit => RunnerTypeOK
  BY RunnerTypeInit
<1>2. RunnerTypeOK /\ [RunnerNext]_runnerVars => RunnerTypeOK'
  BY RunnerTypeStep
<1>3. QED
  BY <1>1, <1>2, PTL DEF RunnerSpec

-----------------------------------------------------------------------------
(* The lock of the migration runner *)

\* No step gives a second runner the way into the locked part (try_advisory_lock).
LEMMA LockStep ==
    ASSUME RunnerTypeOK, HolderApplies, [RunnerNext]_runnerVars
    PROVE  HolderApplies'
<1> USE DEF RunnerTypeOK, HolderApplies, Applying, MoveTo, readVars
<1>1. ASSUME NEW a \in Admins, Apply(a) PROVE HolderApplies'
  <2>1. CASE TryLock(a)
    BY <2>1 DEF TryLock
  <2>2. CASE Unlock(a)
    BY <2>2 DEF Unlock
  <2>3. CASE ReadChecksum(a) \/ MarkApplied(a)
    BY <2>3 DEF ReadChecksum, MarkApplied
  <2>4. CASE FindRecorded(a) \/ RunSql(a) \/ InsertRow(a)
             \/ Commit(a) \/ RunFails(a)
    BY <2>4 DEF FindRecorded, RunSql, InsertRow, Commit, RunFails
  <2>5. QED
    BY <1>1, <2>1, <2>2, <2>3, <2>4 DEF Apply
<1>2. ASSUME NEW a \in Admins, CrashCall(a) PROVE HolderApplies'
  BY <1>2 DEF CrashCall
<1>3. ASSUME NEW a \in Admins, NEW f \in Files, ReadSql(a, f) \/ MarkChecksum(a, f)
      PROVE HolderApplies'
  BY <1>3 DEF ReadSql, MarkChecksum
<1>4. ASSUME NEW f \in Files, Edit(f) PROVE HolderApplies'
  BY <1>4 DEF Edit
<1>5. CASE UNCHANGED runnerVars
  BY <1>5 DEF runnerVars
<1>6. QED
  BY <1>1, <1>2, <1>3, <1>4, <1>5 DEF RunnerNext

\* Two applies never interleave, for any number of calls: the advisory lock of
\* apply_migration has one holder (NeverInterleave).
THEOREM OneApplyAtATime == RunnerSpec => []NeverInterleave
<1> DEFINE I == RunnerTypeOK /\ HolderApplies
<1>1. RunnerInit => I
  BY RunnerTypeInit DEF RunnerInit, HolderApplies, Applying
<1>2. I /\ [RunnerNext]_runnerVars => I'
  BY RunnerTypeStep, LockStep
<1>3. I => NeverInterleave
  BY DEF HolderApplies, NeverInterleave
<1>4. QED
  BY <1>1, <1>2, <1>3, PTL DEF RunnerSpec

-----------------------------------------------------------------------------
(* The rows of the migration runner *)

\* No step records a file that an open transaction is about to record.
LEMMA InsertedStep ==
    ASSUME RunnerTypeOK, HolderApplies, InsertedUnrecorded, [RunnerNext]_runnerVars
    PROVE  InsertedUnrecorded'
<1> USE DEF RunnerTypeOK, InsertedUnrecorded, MoveTo, readVars
<1>1. ASSUME NEW a \in Admins, Apply(a) PROVE InsertedUnrecorded'
  <2>1. CASE InsertRow(a)
    BY <2>1 DEF InsertRow
  <2>2. CASE Commit(a)
    <3>1. \A b \in Admins : pc[b] = "inserted" => b = a
      BY <2>2 DEF Commit, HolderApplies, Applying
    <3>2. QED
      BY <2>2, <3>1 DEF Commit
  <2>3. CASE MarkApplied(a)
    BY <2>3 DEF MarkApplied
  <2>4. CASE ReadChecksum(a) \/ TryLock(a) \/ Unlock(a)
    BY <2>4 DEF ReadChecksum, TryLock, Unlock
  <2>5. CASE FindRecorded(a) \/ RunSql(a) \/ RunFails(a)
    BY <2>5 DEF FindRecorded, RunSql, RunFails
  <2>6. QED
    BY <1>1, <2>1, <2>2, <2>3, <2>4, <2>5 DEF Apply
<1>2. ASSUME NEW a \in Admins, CrashCall(a) PROVE InsertedUnrecorded'
  BY <1>2 DEF CrashCall
<1>3. ASSUME NEW a \in Admins, NEW f \in Files, ReadSql(a, f) \/ MarkChecksum(a, f)
      PROVE InsertedUnrecorded'
  BY <1>3 DEF ReadSql, MarkChecksum
<1>4. ASSUME NEW f \in Files, Edit(f) PROVE InsertedUnrecorded'
  BY <1>4 DEF Edit
<1>5. CASE UNCHANGED runnerVars
  BY <1>5 DEF runnerVars
<1>6. QED
  BY <1>1, <1>2, <1>3, <1>4, <1>5 DEF RunnerNext

\* No step commits SQL and leaves it unrecorded, or the other way round.
LEMMA RanStep ==
    ASSUME RunnerTypeOK, InsertedUnrecorded, RanRecorded, [RunnerNext]_runnerVars
    PROVE  RanRecorded'
<1> USE DEF RunnerTypeOK, RanRecorded, Unrecorded, Versions, readVars
<1>1. ASSUME NEW a \in Admins, Commit(a) PROVE RanRecorded'
  <2>1. ran[file[a]] = <<>>
    BY <1>1 DEF Commit, InsertedUnrecorded
  <2>2. Len(Append(<<>>, text[a])) = 1
    OBVIOUS
  <2>3. \A f \in Files : f # file[a] => ran'[f] = ran[f] /\ recorded'[f] = recorded[f]
    BY <1>1 DEF Commit
  <2>4. ran'[file[a]] = Append(<<>>, text[a]) /\ recorded'[file[a]] = sum[a]
    BY <1>1, <2>1 DEF Commit
  <2>5. sum[a] # Unrecorded
    OBVIOUS
  <2>6. QED
    BY <2>2, <2>3, <2>4, <2>5
<1>2. ASSUME NEW a \in Admins, MarkApplied(a) PROVE RanRecorded'
  BY <1>2 DEF MarkApplied
<1>3. CASE UNCHANGED <<ran, recorded>>
  BY <1>3
<1>4. QED
  BY <1>1, <1>2, <1>3
     DEF RunnerNext, Apply, ReadChecksum, TryLock, FindRecorded,
         RunSql, InsertRow, RunFails, Unlock, CrashCall,
         ReadSql, MarkChecksum, Edit, runnerVars

\* The SQL of a file is committed at most once and leaves its row behind, for any
\* number of calls, files and edits (RunsOnce; apply_migration).
THEOREM SqlRunsOnce == RunnerSpec => []RunsOnce
<1>1. RunnerInit => RunnerInv
  BY RunnerTypeInit
     DEF RunnerInit, RunnerInv, HolderApplies, Applying, InsertedUnrecorded, RanRecorded
<1>2. RunnerInv /\ [RunnerNext]_runnerVars => RunnerInv'
  BY RunnerTypeStep, LockStep, InsertedStep, RanStep DEF RunnerInv
<1>3. RunnerInv => RunsOnce
  <2>1. Len(<<>>) =< 1 /\ 1 =< 1
    OBVIOUS
  <2>2. QED
    BY <2>1 DEF RunnerInv, RanRecorded, RunsOnce
<1>4. QED
  BY <1>1, <1>2, <1>3, PTL DEF RunnerSpec
=============================================================================
