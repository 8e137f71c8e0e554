----------------------------- MODULE Migrations -----------------------------
(***************************************************************************)
(* The migration runner: apply_migration runs a file's SQL and records its *)
(* checksum in one transaction, under a session advisory lock;             *)
(* mark_applied records a checksum without running anything and takes no   *)
(* lock.  A file's content is its version; its checksum is that version.   *)
(***************************************************************************)
EXTENDS Naturals, Sequences, FiniteSets

CONSTANTS
    Admins,         \* calls of apply_migration or mark_applied in progress
    Files,          \* MIGRATION_FILES
    MaxVersion,     \* bound: versions of a file on disk
    MaxCalls        \* bound: calls ever made

Free == "free"
Unrecorded == 0
Versions == 1..MaxVersion

ASSUME MigrationsAssumption ==
    /\ Files # {}
    /\ Free \notin Admins
    /\ MaxVersion \in Nat \ {0}
    /\ MaxCalls \in Nat

VARIABLES
    disk,       \* the version of each file on disk
    recorded,   \* schema_migrations: the checksum of a file, or Unrecorded
    ran,        \* the versions of a file's SQL that were committed, in order
    lock,       \* who holds the advisory lock
    pc, file,   \* each call's control and file
    text, sum,  \* sql_text and checksum, as the call read them
    calls

runnerVars == <<disk, recorded, ran, lock, pc, file, text, sum, calls>>
readVars == <<file, text, sum>>

RunnerTypeOK ==
    /\ disk \in [Files -> Versions]
    /\ recorded \in [Files -> {Unrecorded} \cup Versions]
    /\ ran \in [Files -> Seq(Versions)]
    /\ lock \in Admins \cup {Free}
    /\ pc \in [Admins -> {"idle", "read", "summed", "locked", "running", "inserted",
                       "unlock", "marking"}]
    /\ file \in [Admins -> Files]
    /\ text \in [Admins -> Versions]
    /\ sum \in [Admins -> Versions]
    /\ calls \in 0..MaxCalls

RunnerInit ==
    /\ disk = [f \in Files |-> 1]
    /\ recorded = [f \in Files |-> Unrecorded]
    /\ ran = [f \in Files |-> <<>>]
    /\ lock = Free
    /\ pc = [a \in Admins |-> "idle"]
    /\ file = [a \in Admins |-> CHOOSE f \in Files : TRUE]
    /\ text = [a \in Admins |-> 1]
    /\ sum = [a \in Admins |-> 1]
    /\ calls = 0

\* Somebody edits a file.
Edit(f) ==
    /\ disk[f] < MaxVersion
    /\ disk' = [disk EXCEPT ![f] = @ + 1]
    /\ UNCHANGED <<recorded, ran, lock, pc, readVars, calls>>

-----------------------------------------------------------------------------
(* apply_migration *)

MoveTo(a, step) == pc' = [pc EXCEPT ![a] = step]

\* The SQL is read first, and the file again for its checksum.
ReadSql(a, f) ==
    /\ pc[a] = "idle"
    /\ calls < MaxCalls
    /\ calls' = calls + 1
    /\ file' = [file EXCEPT ![a] = f]
    /\ text' = [text EXCEPT ![a] = disk[f]]
    /\ MoveTo(a, "read")
    /\ UNCHANGED <<disk, recorded, ran, lock, sum>>

ReadChecksum(a) ==
    /\ pc[a] = "read"
    /\ sum' = [sum EXCEPT ![a] = disk[file[a]]]
    /\ MoveTo(a, "summed")
    /\ UNCHANGED <<disk, recorded, ran, lock, file, text, calls>>

\* Mutation: the result of pg_try_advisory_lock is not looked at.
TryLock_Ignored(a) ==
    /\ pc[a] = "summed"
    /\ lock' = IF lock = Free THEN a ELSE lock
    /\ MoveTo(a, "locked")
    /\ UNCHANGED <<disk, recorded, ran, readVars, calls>>

\* pg_try_advisory_lock: who does not get it raises ConflictError.
TryLock(a) ==
    /\ pc[a] = "summed"
    /\ IF lock = Free
       THEN lock' = a /\ MoveTo(a, "locked")
       ELSE MoveTo(a, "idle") /\ UNCHANGED lock
    /\ UNCHANGED <<disk, recorded, ran, readVars, calls>>

\* Recorded already: nothing runs, whether the checksum matches or not.
FindRecorded(a) ==
    /\ pc[a] = "locked"
    /\ recorded[file[a]] # Unrecorded
    /\ MoveTo(a, "unlock")
    /\ UNCHANGED <<disk, recorded, ran, lock, readVars, calls>>

\* Not recorded: the SQL runs, in a transaction that stays open.
RunSql(a) ==
    /\ pc[a] = "locked"
    /\ recorded[file[a]] = Unrecorded
    /\ MoveTo(a, "running")
    /\ UNCHANGED <<disk, recorded, ran, lock, readVars, calls>>

\* The INSERT of the row; one that mark_applied committed meanwhile makes it
\* fail (RunFails).
InsertRow(a) ==
    /\ pc[a] = "running"
    /\ recorded[file[a]] = Unrecorded
    /\ MoveTo(a, "inserted")
    /\ UNCHANGED <<disk, recorded, ran, lock, readVars, calls>>

\* Mutation: the row is left to be recorded later.
Commit_Unrecorded(a) ==
    /\ pc[a] = "inserted"
    /\ ran' = [ran EXCEPT ![file[a]] = Append(@, text[a])]
    /\ MoveTo(a, "unlock")
    /\ UNCHANGED <<disk, recorded, lock, readVars, calls>>

\* conn.commit(): the SQL and its row together.
Commit(a) ==
    /\ pc[a] = "inserted"
    /\ ran' = [ran EXCEPT ![file[a]] = Append(@, text[a])]
    /\ recorded' = [recorded EXCEPT ![file[a]] = sum[a]]
    /\ MoveTo(a, "unlock")
    /\ UNCHANGED <<disk, lock, readVars, calls>>

\* The SQL or the INSERT raises: rolled back.
RunFails(a) ==
    /\ pc[a] \in {"running", "inserted"}
    /\ MoveTo(a, "unlock")
    /\ UNCHANGED <<disk, recorded, ran, lock, readVars, calls>>

\* Mutation: a failed apply keeps the lock, as it would without finally.
Unlock_SuccessOnly(a) ==
    /\ pc[a] = "unlock"
    /\ lock' = IF recorded[file[a]] = Unrecorded THEN lock ELSE Free
    /\ MoveTo(a, "idle")
    /\ UNCHANGED <<disk, recorded, ran, readVars, calls>>

\* finally: pg_advisory_unlock.
Unlock(a) ==
    /\ pc[a] = "unlock"
    /\ lock' = Free
    /\ MoveTo(a, "idle")
    /\ UNCHANGED <<disk, recorded, ran, readVars, calls>>

\* The process dies: its session ends, its transaction and its lock with it.
CrashCall(a) ==
    /\ pc[a] # "idle"
    /\ lock' = IF lock = a THEN Free ELSE lock
    /\ MoveTo(a, "idle")
    /\ UNCHANGED <<disk, recorded, ran, readVars, calls>>

-----------------------------------------------------------------------------
(* mark_applied *)

MarkChecksum(a, f) ==
    /\ pc[a] = "idle"
    /\ calls < MaxCalls
    /\ calls' = calls + 1
    /\ file' = [file EXCEPT ![a] = f]
    /\ sum' = [sum EXCEPT ![a] = disk[f]]
    /\ MoveTo(a, "marking")
    /\ UNCHANGED <<disk, recorded, ran, lock, text>>

\* The upsert waits for a transaction that has inserted the same file.
MarkApplied(a) ==
    /\ pc[a] = "marking"
    /\ \A b \in Admins : ~(pc[b] = "inserted" /\ file[b] = file[a])
    /\ recorded' = [recorded EXCEPT ![file[a]] = sum[a]]
    /\ MoveTo(a, "idle")
    /\ UNCHANGED <<disk, ran, lock, readVars, calls>>

-----------------------------------------------------------------------------
(* The specification *)

Apply(a) ==
    \/ ReadChecksum(a) \/ TryLock(a) \/ FindRecorded(a) \/ RunSql(a) \/ InsertRow(a)
    \/ Commit(a) \/ RunFails(a) \/ Unlock(a) \/ MarkApplied(a)

RunnerNext ==
    \/ \E a \in Admins :
          \/ Apply(a) \/ CrashCall(a)
          \/ \E f \in Files : ReadSql(a, f) \/ MarkChecksum(a, f)
    \/ \E f \in Files : Edit(f)

RunnerSpec == RunnerInit /\ [][RunnerNext]_runnerVars

\* A call runs to its end unless its process dies.
RunnerFairness == \A a \in Admins : WF_runnerVars(Apply(a))

FairRunnerSpec == RunnerSpec /\ RunnerFairness

-----------------------------------------------------------------------------
(* Properties *)

Applying == {"locked", "running", "inserted", "unlock"}

\* Two applies never interleave, through failures and crashes of either
\* (the advisory lock of apply_migration).
NeverInterleave ==
    \A a, b \in Admins :
        pc[a] \in Applying /\ pc[b] \in Applying => a = b

\* The SQL of a file is committed at most once and leaves its row behind, with
\* applies, marks, edits and crashes in any order (apply_migration).
RunsOnce ==
    \A f \in Files : Len(ran[f]) =< 1 /\ (ran[f] # <<>> => recorded[f] # Unrecorded)

\* The lock comes free again, whatever became of its holder (finally).
LockComesFree == lock # Free ~> lock = Free
=============================================================================
