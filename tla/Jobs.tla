-------------------------------- MODULE Jobs --------------------------------
(***************************************************************************)
(* Durable jobs of the admin API: requests insert rows of admin_job, the   *)
(* dispatcher of each API process reaps, claims and submits them, pool     *)
(* threads run them, a heartbeat keeps them alive.                         *)
(*                                                                         *)
(* Every statement below commits by itself; only the rows are shared.      *)
(* Jobs are numbered by created_at, the start of the inserting             *)
(* transaction.  Handlers are abstract: they return, or they raise.  The   *)
(* audit row a request writes after its job is committed is left out:      *)
(* nothing reads it.                                                       *)
(*                                                                         *)
(* The refresh scheduler requests a job when its schedule is due.  The     *)
(* schedule itself is external: a night is due as long as its date is not  *)
(* the one that was marked last.                                           *)
(***************************************************************************)
EXTENDS Naturals, Sequences, FiniteSets

CONSTANTS
    MaxJobs,        \* bound: requests ever made
    Procs,          \* API processes
    Scopes,         \* what two jobs may not work on at once
    NoScope,        \* the scope of the job types that have none
    ScopeOf,        \* [Jobs -> Scopes \cup {NoScope}]: _SCOPED applied to the parameters
    JobWorkers,     \* JOB_WORKERS: threads of one process's pool
    Schedulers,     \* processes that run a RefreshScheduler
    MaxNights,      \* bound: nights of the schedule
    MaxRequests,    \* bound: requests inside enqueue at the same time
    MaxFaults       \* bound: processes that die and restart, database errors while a job
                    \* or the dispatcher reports, and heartbeats of a live job that are
                    \* late by JOB_STALE_SECONDS

Jobs == 1..MaxJobs

ASSUME JobsAssumption ==
    /\ MaxJobs \in Nat
    /\ IsFiniteSet(Procs)
    /\ JobWorkers \in Nat \ {0}
    /\ Schedulers \subseteq Procs
    /\ MaxNights \in Nat
    /\ MaxRequests \in Nat \ {0}
    /\ MaxFaults \in Nat
    /\ NoScope \notin Scopes
    /\ ScopeOf \in [Jobs -> Scopes \cup {NoScope}]

VARIABLES
    \* committed in the central database
    status,     \* admin_job.status
    fresh,      \* heartbeat_at is at most JOB_STALE_SECONDS old
    events,     \* admin_job_event of the job, progress left out
    \* each request
    req,
    \* each process: the dispatcher's control, what it is busy with, _active
    dpc, reaped, claimed, active,
    \* each process and job: where the pool thread that has it is
    thread,
    \* the schedule: the last night, the one marked last; where each scheduler
    \* thread is, and the night a job was requested for, or 0
    night, marked, tick, nightOf,
    \* history: requests that another one of their scope got in between, jobs
    \* whose heartbeat was late
    raced, late,
    \* how much of each bound is used
    crashes, errors, stalls

dispatchVars == <<dpc, reaped, claimed>>
threadVars   == <<thread, active>>
scheduleVars == <<night, marked, tick, nightOf>>
boundVars    == <<raced, late, crashes, errors, stalls>>
jobVars      == <<status, fresh, events, req, dispatchVars, threadVars, boundVars>>
vars == <<jobVars, scheduleVars>>

-----------------------------------------------------------------------------
(* The state *)

Ended == {"succeeded", "failed"}
Open  == {"queued", "running"}
NoJob == 0
Steps == {"none", "pool", "handler", "returned", "raised", "failing", "auditing"}

\* A tick of a scheduler: its control and the night it started in.
Tick    == [at : {"wait", "mark", "ask"}, of : 0..MaxNights]
Waiting == [at |-> "wait", of |-> 0]

TypeOK ==
    /\ status \in [Jobs -> {"absent"} \cup Open \cup Ended]
    /\ fresh \in [Jobs -> BOOLEAN]
    /\ events \in [Jobs -> Seq({"started"} \cup Ended)]
    /\ req \in [Jobs -> {"new", "checked", "inserted", "refused", "lost"}]
    /\ dpc \in [Procs -> {"reap", "tell", "claim", "submit"}]
    /\ reaped \in [Procs -> SUBSET Jobs]
    /\ claimed \in [Procs -> Jobs \cup {NoJob}]
    /\ active \in [Procs -> SUBSET Jobs]
    /\ thread \in [Procs -> [Jobs -> Steps]]
    /\ night \in 0..MaxNights
    /\ marked \in 0..MaxNights
    /\ tick \in [Schedulers -> Tick]
    /\ nightOf \in [Jobs -> 0..MaxNights]
    /\ raced \subseteq Jobs
    /\ late \subseteq Jobs
    /\ crashes \in 0..MaxFaults
    /\ errors \in 0..MaxFaults
    /\ stalls \in 0..MaxFaults

Init ==
    /\ status = [j \in Jobs |-> "absent"]
    /\ fresh = [j \in Jobs |-> TRUE]
    /\ events = [j \in Jobs |-> <<>>]
    /\ req = [j \in Jobs |-> "new"]
    /\ dpc = [p \in Procs |-> "reap"]
    /\ reaped = [p \in Procs |-> {}]
    /\ claimed = [p \in Procs |-> NoJob]
    /\ active = [p \in Procs |-> {}]
    /\ thread = [p \in Procs |-> [j \in Jobs |-> "none"]]
    /\ night = 0 /\ marked = 0
    /\ tick = [p \in Schedulers |-> Waiting]
    /\ nightOf = [j \in Jobs |-> 0]
    /\ raced = {} /\ late = {}
    /\ crashes = 0 /\ errors = 0 /\ stalls = 0

MoreFaults == crashes + errors + stalls < MaxFaults

-----------------------------------------------------------------------------
(* A request: enqueue *)

InEnqueue == {j \in Jobs : req[j] = "checked"}

\* Mutation: only running jobs count as conflicting.
Conflicting_RunningOnly(j) == {k \in Jobs : ScopeOf[k] = ScopeOf[j] /\ status[k] = "running"}

\* The rows the check of enqueue selects.
Conflicting(j) == {k \in Jobs : ScopeOf[k] = ScopeOf[j] /\ status[k] \in Open}

\* The request's transaction starts, and looks for a job on the same scope.
Check(j) ==
    /\ req[j] = "new"
    /\ \A k \in Jobs : k < j => req[k] # "new"
    /\ Cardinality(InEnqueue) < MaxRequests
    /\ req' = [req EXCEPT ![j] = IF ScopeOf[j] # NoScope /\ Conflicting(j) # {}
                                 THEN "refused" ELSE "checked"]
    /\ UNCHANGED <<status, fresh, events, dispatchVars, threadVars, boundVars>>

CheckScope(j) == Check(j) /\ UNCHANGED scheduleVars

\* Nothing holds the scope between the SELECT and the commit of the INSERT.
InsertJob(j) ==
    /\ req[j] = "checked"
    /\ status' = [status EXCEPT ![j] = "queued"]
    /\ req' = [req EXCEPT ![j] = "inserted"]
    /\ raced' = raced \cup {k \in InEnqueue \ {j} : ScopeOf[k] = ScopeOf[j]}
    /\ UNCHANGED <<fresh, events, dispatchVars, threadVars, late, crashes, errors,
                   stalls, scheduleVars>>

\* The request dies on the way: its process or its connection is gone.
LoseRequest(j) ==
    /\ req[j] = "checked"
    /\ req' = [req EXCEPT ![j] = "lost"]
    /\ UNCHANGED <<status, fresh, events, dispatchVars, threadVars, boundVars, scheduleVars>>

-----------------------------------------------------------------------------
(* The scheduler thread of a process: trigger_scheduled_refresh *)

\* Another night of the schedule.
NightComes ==
    /\ night < MaxNights
    /\ night' = night + 1
    /\ UNCHANGED <<jobVars, marked, tick, nightOf>>

\* get_schedule and is_due: this night has not been triggered yet.
SeeDue(p) ==
    /\ tick[p] = Waiting
    /\ marked # night
    /\ tick' = [tick EXCEPT ![p] = [at |-> "mark", of |-> night]]
    /\ UNCHANGED <<jobVars, night, marked, nightOf>>

\* Mutation: the date is not marked.
MarkTriggered_Never(p) ==
    /\ tick[p].at = "mark"
    /\ tick' = [tick EXCEPT ![p].at = "ask"]
    /\ UNCHANGED <<jobVars, night, marked, nightOf>>

\* mark_triggered commits by itself, before the job is requested.
MarkTriggered(p) ==
    /\ tick[p].at = "mark"
    /\ marked' = tick[p].of
    /\ tick' = [tick EXCEPT ![p].at = "ask"]
    /\ UNCHANGED <<jobVars, night, nightOf>>

\* enqueue; a conflicting job means that this night is left out.
AskForRefresh(p, j) ==
    /\ tick[p].at = "ask"
    /\ Check(j)
    /\ nightOf' = [nightOf EXCEPT ![j] = tick[p].of]
    /\ tick' = [tick EXCEPT ![p] = Waiting]
    /\ UNCHANGED <<night, marked>>

\* Whatever is raised on the way is swallowed, until the next tick.
MissTick(p) ==
    /\ tick[p] # Waiting
    /\ tick' = [tick EXCEPT ![p] = Waiting]
    /\ UNCHANGED <<jobVars, night, marked, nightOf>>

-----------------------------------------------------------------------------
(* The dispatcher thread of a process *)

Tell(j, what) == events' = [events EXCEPT ![j] = Append(@, what)]

\* Mutation: the reaper looks only at jobs that reported a start.
Stale_Started == {j \in Jobs : status[j] = "running" /\ ~fresh[j] /\ events[j] # <<>>}

Stale == {j \in Jobs : status[j] = "running" /\ ~fresh[j]}

\* _reap: running jobs with an old heartbeat are failed, whoever runs them.
Reap(p) ==
    /\ dpc[p] = "reap"
    /\ status' = [j \in Jobs |-> IF j \in Stale THEN "failed" ELSE status[j]]
    /\ reaped' = [reaped EXCEPT ![p] = Stale]
    /\ dpc' = [dpc EXCEPT ![p] = IF Stale = {} THEN "claim" ELSE "tell"]
    /\ UNCHANGED <<fresh, events, req, claimed, threadVars, boundVars, scheduleVars>>

\* The reaper reports one of the jobs it failed, and after the last one claims.
TellReaped(p, j) ==
    /\ dpc[p] = "tell"
    /\ j \in reaped[p]
    /\ Tell(j, "failed")
    /\ reaped' = [reaped EXCEPT ![p] = @ \ {j}]
    /\ dpc' = [dpc EXCEPT ![p] = IF reaped[p] = {j} THEN "claim" ELSE "tell"]
    /\ UNCHANGED <<status, fresh, req, claimed, threadVars, boundVars, scheduleVars>>

\* Mutation: the claim does not skip jobs that are already running.
Queued_OrRunning == {j \in Jobs : status[j] \in Open}

\* Mutation: the claim does not look at the status.
Queued_Any == {j \in Jobs : status[j] # "absent"}

Queued == {j \in Jobs : status[j] = "queued"}

\* Another dispatcher that is in its claim has locked one queued job at most.
MayBeLocked(S, p) == Cardinality(S) =< Cardinality({q \in Procs \ {p} : dpc[q] = "claim"})

\* _claim: the oldest queued job becomes running; SKIP LOCKED passes over those
\* other dispatchers are claiming.
Claim(p, j) ==
    /\ dpc[p] = "claim"
    /\ j \in Queued
    /\ MayBeLocked({k \in Queued : k < j}, p)
    /\ status' = [status EXCEPT ![j] = "running"]
    /\ fresh' = [fresh EXCEPT ![j] = TRUE]
    /\ claimed' = [claimed EXCEPT ![p] = j]
    /\ dpc' = [dpc EXCEPT ![p] = "submit"]
    /\ UNCHANGED <<events, req, reaped, threadVars, boundVars, scheduleVars>>

\* The claimed job joins _active and the pool's queue.
Submit(p) ==
    /\ dpc[p] = "submit"
    /\ active' = [active EXCEPT ![p] = @ \cup {claimed[p]}]
    /\ thread' = [thread EXCEPT ![p][claimed[p]] = "pool"]
    /\ claimed' = [claimed EXCEPT ![p] = NoJob]
    /\ dpc' = [dpc EXCEPT ![p] = "claim"]
    /\ UNCHANGED <<status, fresh, events, req, reaped, boundVars, scheduleVars>>

\* Nothing left to claim: wait for a wake-up or a second, and start again.
EndPass(p) ==
    /\ dpc[p] = "claim"
    /\ Queued = {}
    /\ dpc' = [dpc EXCEPT ![p] = "reap"]
    /\ UNCHANGED <<status, fresh, events, req, reaped, claimed, threadVars, boundVars, scheduleVars>>

\* An error ends the pass; jobs reaped and not yet reported are forgotten.
DispatchError(p) ==
    /\ MoreFaults
    /\ dpc[p] \in {"tell", "claim"}
    /\ errors' = errors + 1
    /\ dpc' = [dpc EXCEPT ![p] = "reap"]
    /\ reaped' = [reaped EXCEPT ![p] = {}]
    /\ UNCHANGED <<status, fresh, events, req, claimed, threadVars, raced, late, crashes, stalls, scheduleVars>>

-----------------------------------------------------------------------------
(* Heartbeats and time *)

Beating(p) == {j \in active[p] : status[j] = "running"}

\* The heartbeat thread of a process.
Heartbeat(p) ==
    /\ Beating(p) # {}
    /\ fresh' = [j \in Jobs |-> fresh[j] \/ j \in Beating(p)]
    /\ UNCHANGED <<status, events, req, dispatchVars, threadVars, boundVars, scheduleVars>>

\* A process is about to beat for the job, so only a stall lets it go stale.
Attended(j) == \E p \in Procs : j \in Beating(p) \/ claimed[p] = j

\* JOB_STALE_SECONDS pass without a heartbeat.
GoStale(j) ==
    /\ status[j] = "running"
    /\ fresh[j]
    /\ Attended(j) => MoreFaults
    /\ stalls' = IF Attended(j) THEN stalls + 1 ELSE stalls
    /\ late' = IF Attended(j) THEN late \cup {j} ELSE late
    /\ fresh' = [fresh EXCEPT ![j] = FALSE]
    /\ UNCHANGED <<status, events, req, dispatchVars, threadVars, raced, crashes, errors, scheduleVars>>

-----------------------------------------------------------------------------
(* A pool thread: _run *)

Busy(p) == {j \in Jobs : thread[p][j] \notin {"none", "pool"}}

AtStep(p, j, step) == thread[p][j] = step

GoTo(p, j, step) == thread' = [thread EXCEPT ![p][j] = step]

\* The thread ends, through finally: _active.discard.
LeavePool(p, j) ==
    /\ GoTo(p, j, "none")
    /\ active' = [active EXCEPT ![p] = @ \ {j}]

CanStart(p, j) == AtStep(p, j, "pool") /\ Cardinality(Busy(p)) < JobWorkers

Start(p, j) ==
    /\ CanStart(p, j)
    /\ Tell(j, "started")
    /\ GoTo(p, j, "handler")
    /\ UNCHANGED <<status, fresh, req, dispatchVars, active, boundVars, scheduleVars>>

\* emit("started") raises: the thread ends outside try, the job stays active.
StartError(p, j) ==
    /\ MoreFaults
    /\ CanStart(p, j)
    /\ errors' = errors + 1
    /\ GoTo(p, j, "none")
    /\ UNCHANGED <<status, fresh, events, req, dispatchVars, active, raced, late, crashes, stalls, scheduleVars>>

\* ctx.progress refreshes the heartbeat too.
Progress(p, j) ==
    /\ AtStep(p, j, "handler")
    /\ fresh' = [fresh EXCEPT ![j] = TRUE]
    /\ UNCHANGED <<status, events, req, dispatchVars, threadVars, boundVars, scheduleVars>>

\* The handler returns: the row is marked whatever it says by now.
HandlerReturns(p, j) ==
    /\ AtStep(p, j, "handler")
    /\ status' = [status EXCEPT ![j] = "succeeded"]
    /\ GoTo(p, j, "returned")
    /\ UNCHANGED <<fresh, events, req, dispatchVars, active, boundVars, scheduleVars>>

HandlerRaises(p, j) ==
    /\ AtStep(p, j, "handler")
    /\ GoTo(p, j, "raised")
    /\ UNCHANGED <<status, fresh, events, req, dispatchVars, active, boundVars, scheduleVars>>

TellSucceeded(p, j) ==
    /\ AtStep(p, j, "returned")
    /\ Tell(j, "succeeded")
    /\ LeavePool(p, j)
    /\ UNCHANGED <<status, fresh, req, dispatchVars, boundVars, scheduleVars>>

MarkFailed(p, j) ==
    /\ AtStep(p, j, "raised")
    /\ status' = [status EXCEPT ![j] = "failed"]
    /\ GoTo(p, j, "failing")
    /\ UNCHANGED <<fresh, events, req, dispatchVars, active, boundVars, scheduleVars>>

\* Mutation: only success is reported.
TellFailed_Silent(p, j) ==
    /\ AtStep(p, j, "failing")
    /\ GoTo(p, j, "auditing")
    /\ UNCHANGED <<status, fresh, events, req, dispatchVars, active, boundVars, scheduleVars>>

TellFailed(p, j) ==
    /\ AtStep(p, j, "failing")
    /\ Tell(j, "failed")
    /\ GoTo(p, j, "auditing")
    /\ UNCHANGED <<status, fresh, req, dispatchVars, active, boundVars, scheduleVars>>

\* The failure's own audit row, and the end of the thread.
AuditFailure(p, j) ==
    /\ AtStep(p, j, "auditing")
    /\ LeavePool(p, j)
    /\ UNCHANGED <<status, fresh, events, req, dispatchVars, boundVars, scheduleVars>>

\* emit("succeeded") raises inside try: the except clause runs for a job that succeeded.
TellError(p, j) ==
    /\ MoreFaults
    /\ AtStep(p, j, "returned")
    /\ errors' = errors + 1
    /\ GoTo(p, j, "raised")
    /\ UNCHANGED <<status, fresh, events, req, dispatchVars, active, raced, late, crashes, stalls, scheduleVars>>

\* The except clause itself raises.
ExceptError(p, j) ==
    /\ MoreFaults
    /\ thread[p][j] \in {"raised", "failing", "auditing"}
    /\ errors' = errors + 1
    /\ LeavePool(p, j)
    /\ UNCHANGED <<status, fresh, events, req, dispatchVars, raced, late, crashes, stalls, scheduleVars>>

\* A process dies with its threads and restarts with an empty runner.
Crash(p) ==
    /\ MoreFaults
    /\ crashes' = crashes + 1
    /\ thread' = [thread EXCEPT ![p] = [j \in Jobs |-> "none"]]
    /\ active' = [active EXCEPT ![p] = {}]
    /\ dpc' = [dpc EXCEPT ![p] = "reap"]
    /\ reaped' = [reaped EXCEPT ![p] = {}]
    /\ claimed' = [claimed EXCEPT ![p] = NoJob]
    /\ tick' = [x \in Schedulers |-> IF x = p THEN Waiting ELSE tick[x]]
    /\ UNCHANGED <<status, fresh, events, req, raced, late, errors, stalls, night, marked,
                   nightOf>>

-----------------------------------------------------------------------------
(* The specification *)

Request(j) == CheckScope(j) \/ InsertJob(j) \/ LoseRequest(j)

Dispatch(p) ==
    \/ Reap(p)
    \/ \E j \in Jobs : TellReaped(p, j) \/ Claim(p, j)
    \/ Submit(p)
    \/ EndPass(p)

Run(p, j) ==
    \/ Start(p, j)
    \/ HandlerReturns(p, j) \/ HandlerRaises(p, j)
    \/ TellSucceeded(p, j)
    \/ MarkFailed(p, j) \/ TellFailed(p, j) \/ AuditFailure(p, j)

Schedule(p) ==
    \/ SeeDue(p)
    \/ MarkTriggered(p)
    \/ \E j \in Jobs : AskForRefresh(p, j)
    \/ MissTick(p)

Fault ==
    \E p \in Procs :
        \/ DispatchError(p) \/ Crash(p)
        \/ \E j \in Jobs : StartError(p, j) \/ TellError(p, j) \/ ExceptError(p, j)

Next ==
    \/ \E j \in Jobs : Request(j) \/ GoStale(j)
    \/ \E p \in Procs : Dispatch(p) \/ Heartbeat(p)
    \/ \E p \in Procs, j \in Jobs : Run(p, j) \/ Progress(p, j)
    \/ NightComes
    \/ \E p \in Schedulers : Schedule(p)
    \/ Fault

Spec == Init /\ [][Next]_vars

\* The dispatcher loops for ever, pool threads run until they end (handlers
\* return or raise), and time passes for a job nobody beats for.
Fairness ==
    /\ \A p \in Procs : WF_vars(Dispatch(p))
    /\ \A p \in Procs, j \in Jobs : WF_vars(Run(p, j))
    /\ \A j \in Jobs : WF_vars(GoStale(j) /\ ~Attended(j))

FairSpec == Spec /\ Fairness

-----------------------------------------------------------------------------
(* Properties *)

Handling(j) == \E p \in Procs : AtStep(p, j, "handler")

\* Two jobs work on one scope at a time only if the second was inserted between the
\* check and the INSERT of the other, or the reaper gave one of them up while it
\* was at work; nothing else lets a destructive job in beside another, neither
\* crashes and restarts nor errors nor the order of claims (_SCOPED, enqueue, _reap).
ScopeExclusive ==
    \A i, j \in Jobs :
        i # j /\ ScopeOf[i] = ScopeOf[j] /\ ScopeOf[i] # NoScope /\ Handling(i) /\ Handling(j)
            => \/ raced \cap {i, j} # {}
               \/ \E k \in {i, j} \cap late : status[k] = "failed"

\* A second job of a scope is refused while the first is at work, as
\* openspec/specs/job-orchestration/spec.md:41 promises: "a second concurrent deploy,
\* refresh, or migration apply targeting the same scope SHALL receive an HTTP 409".
SecondIsRefused ==
    \A i, j \in Jobs :
        i # j /\ ScopeOf[i] = ScopeOf[j] /\ ScopeOf[i] # NoScope
            => ~(Handling(i) /\ Handling(j))

\* A job is started once, however many dispatchers compete for it and however
\* often they crash (_claim under SKIP LOCKED).
StartedOnce ==
    \A j \in Jobs : \A m, n \in 1..Len(events[j]) :
        events[j][m] = "started" /\ events[j][n] = "started" => m = n

\* What a job has come to stays, as long as no database error has come in between.
\* The reaper is wrong about a job whose heartbeat was late, and the thread that
\* still has it marks it succeeded over the reaper's failed; that is the only
\* change of an end, and a success is never taken back (_run against _reap).
EndedStays ==
    [][\A j \in Jobs :
          errors' = 0 /\ status[j] \in Ended /\ status'[j] # status[j]
            => j \in late /\ status[j] = "failed" /\ status'[j] = "succeeded"]_vars

\* One scheduler asks for at most one refresh a night, however its ticks fail, its
\* process dies and restarts, and jobs are requested by hand meanwhile
\* (trigger_scheduled_refresh marks the date before it enqueues).
OnceANight ==
    (\A p, q \in Schedulers : p = q) =>
        \A i, j \in Jobs : nightOf[i] = nightOf[j] /\ nightOf[i] # 0 => i = j

\* Nobody is about to report the end of the job.
Reported(j) ==
    \A p \in Procs : AtStep(p, j, "none") /\ j \notin reaped[p]

\* Each end has its event, as long as nothing crashed and no error came in between:
\* once a job has ended and whoever ended it is through, how it ended has been
\* said, and it was said last unless reaper and thread both ended it, a job whose
\* heartbeat was late (_run, _reap).
EndIsTold ==
    crashes = 0 /\ errors = 0 =>
        \A j \in Jobs : status[j] \in Ended /\ Reported(j) =>
            /\ \E n \in DOMAIN events[j] : events[j][n] = status[j]
            /\ j \notin late => events[j][Len(events[j])] = status[j]

\* Every job that was accepted ends, unless a database error has come in between:
\* the reaper sees to those whose process is gone.  An error while a job reports
\* its start leaves it in _active with no thread (_dispatch_loop, _reap, _run).
JobEnds ==
    \A j \in Jobs : status[j] \in Open ~> (status[j] \in Ended \/ errors > 0)

-----------------------------------------------------------------------------
(* The abstract specification *)

JobView == INSTANCE JobTable

\* What a reader of admin_job and admin_job_event sees is the life of jobs as
\* JobTable tells it, whatever crashes, fails or comes late: a job is taken once
\* and never goes back to the queue, none starts twice or before it was taken, and
\* a success is said once, of a job that has started and succeeded, and stays
\* (enqueue, _reap, _claim, _run).
ImplementsJobTable == JobView!Spec
=============================================================================
