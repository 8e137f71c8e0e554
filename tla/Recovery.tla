------------------------------ MODULE Recovery ------------------------------
(***************************************************************************)
(* Rebuilding the target database and bringing it back: the nightly run    *)
(* (source restore, backup, drop, create, seed, redeliver), the rebuild on *)
(* its own, the restore of a backup, and the uploads it can be made from.  *)
(* They are started from the job runner, from plain HTTP requests, from    *)
(* the agent and from command lines, and nothing keeps one from running    *)
(* while another does.                                                     *)
(*                                                                         *)
(* Every statement on the target is a step, since the connections are on   *)
(* autocommit; redelivering one entity is one step (Refresh has its        *)
(* inside).  A table's rows are the set of loads that wrote them.          *)
(***************************************************************************)
EXTENDS Naturals, FiniteSets, FiniteSetsExt, Functions

CONSTANTS
    Sessions,       \* processes and requests
    NTables,        \* tables, numbered in topological order
    Lookups,        \* those that are seeded (Registry's SeedTables)
    Uploadable,     \* files an operator may upload
    Operations,     \* what is started
    MaxStarts,      \* bound: operations ever started
    MaxFaults       \* bound: statements and commands that fail by themselves, and crashes

Tables   == 1..NTables
Entities == Tables \ Lookups    \* an entity writes one table
FileIds  == 1..(MaxStarts + 1)  \* an operation writes one file at most

Kinds   == {"source_dump", "target_backup"}
Sources == {"old", "fresh", "torn"}

\* One load of rows into a table: the seed statements, or a delivery of the source.
Load    == [no : Nat, of : Sources \cup {"ddl"}]
Seed    == [no |-> 0, of |-> "ddl"]
NoLoad  == [no |-> 0, of |-> "old"]

\* The tables of a database or of a dump, and their rows.
Contents == UNION {[T -> SUBSET Load] : T \in SUBSET Tables}
Nothing  == [t \in {} |-> {}]

\* What a file starts with, whether it names the source schema, and what is in
\* it; whole: the dump in it is complete.
Heads == {"nothing", "PGDMP", "UTF-16", "binary", "text", "SQL"}
File  == [head : Heads, irimsv : BOOLEAN, whole : BOOLEAN, rows : Contents]
NoFile == [head |-> "nothing", irimsv |-> FALSE, whole |-> FALSE, rows |-> Nothing]

\* What the constants have to be (Rebuild assumes it).
RecoveryAssumption ==
    /\ NTables \in Nat
    /\ Lookups \subseteq Tables
    /\ \A f \in Uploadable :
          /\ f = [head |-> f.head, irimsv |-> f.irimsv, whole |-> f.whole, rows |-> f.rows]
          /\ f.head \in Heads
          /\ DOMAIN f.rows \subseteq Tables   \* others are left out
    /\ Operations \subseteq {"nightly", "reset", "restore_target", "upload", "restore_source"}
    /\ MaxStarts \in Nat /\ MaxFaults \in Nat

VARIABLES
    \* the source, and the target database
    source, created, target, crosswalk,
    files,      \* backup directory and upload directory
    listed,     \* files in the backup directory
    uploads,    \* recovery_upload: the rows, by file
    \* each session
    op, pc, todo,
    file,       \* the file it writes or replays
    image,      \* what its dump's transaction sees, or the dump it replays
    dropped,    \* tables dropped since that transaction began
    restored,   \* it has restored the source
    \* history
    taken,      \* the target as it was when a backup began
    shared,     \* files that two runs of one second wrote their backup to
    alone,      \* no other session was at work since it started
    failed,     \* something failed in it
    harmed,     \* tables may be missing or empty: a session failed or died at them, or
                \* replayed half a dump; until one that was alone has ended well
    loads, starts, faults, crashed

dbVars      == <<source, created, target, crosswalk>>
fileVars    == <<files, listed, uploads>>
workVars    == <<file, image, dropped, restored>>
historyVars == <<taken, shared, alone, failed, harmed>>
boundVars   == <<loads, starts, faults, crashed>>
vars == <<dbVars, fileVars, op, pc, todo, workVars, historyVars, boundVars>>

Steps == {"idle", "restore", "open", "connect", "dump", "drop", "create", "tables", "truncate",
          "load", "deliver", "replay", "fill", "psql", "mark", "record", "done"}

TypeOK ==
    /\ source \in Sources
    /\ created \in BOOLEAN
    /\ DOMAIN target \subseteq Tables /\ \A t \in DOMAIN target : target[t] \subseteq Load
    /\ crosswalk \in [Entities -> Load]
    /\ DOMAIN files \subseteq FileIds /\ \A f \in DOMAIN files : files[f].head \in Heads
    /\ listed \subseteq FileIds
    /\ DOMAIN uploads \subseteq FileIds
    /\ \A u \in DOMAIN uploads : uploads[u] \in [kind : Kinds, valid : BOOLEAN, used : BOOLEAN]
    /\ op \in [Sessions -> Operations \cup {"none"}]
    /\ pc \in [Sessions -> Steps]
    /\ todo \in [Sessions -> SUBSET Tables]
    /\ file \in [Sessions -> FileIds \cup {0}]
    /\ \A s \in Sessions : DOMAIN image[s].rows \subseteq Tables
    /\ dropped \in [Sessions -> SUBSET Tables]
    /\ restored \in [Sessions -> BOOLEAN]
    /\ DOMAIN taken \subseteq FileIds /\ shared \subseteq FileIds
    /\ alone \in [Sessions -> BOOLEAN] /\ failed \in [Sessions -> BOOLEAN]
    /\ harmed \in BOOLEAN
    /\ loads \in Nat /\ starts \in 0..MaxStarts
    /\ faults \in 0..MaxFaults /\ crashed \in BOOLEAN

\* What a nightly run leaves: the lookups, and one load of every entity.
Rebuilt(no) ==
    [t \in Tables |-> {IF t \in Lookups THEN Seed ELSE [no |-> no, of |-> "old"]}]

\* Two nights have gone by; the backup the second one began with is there.
Init ==
    /\ source = "old"
    /\ created = TRUE
    /\ target = Rebuilt(2)
    /\ crosswalk = [e \in Entities |-> [no |-> 2, of |-> "old"]]
    /\ files = [f \in {1} |-> [head |-> "SQL", irimsv |-> FALSE, whole |-> TRUE,
                               rows |-> Rebuilt(1)]]
    /\ listed = {1} /\ uploads = Nothing
    /\ op = [s \in Sessions |-> "none"]
    /\ pc = [s \in Sessions |-> "idle"]
    /\ todo = [s \in Sessions |-> {}]
    /\ file = [s \in Sessions |-> 0]
    /\ image = [s \in Sessions |-> NoFile]
    /\ dropped = [s \in Sessions |-> {}]
    /\ restored = [s \in Sessions |-> FALSE]
    /\ taken = [f \in {1} |-> Rebuilt(1)] /\ shared = {}
    /\ alone = [s \in Sessions |-> FALSE]
    /\ failed = [s \in Sessions |-> FALSE]
    /\ harmed = FALSE
    /\ loads = 2 /\ starts = 0 /\ faults = 0 /\ crashed = FALSE

-----------------------------------------------------------------------------
(* Sessions *)

GoTo(s, step) == pc' = [pc EXCEPT ![s] = step]

\* The step's work is done for table t: the next one, or the next step.
Turn(s, t, next, T) ==
    IF todo[s] = {t} THEN GoTo(s, next) /\ todo' = [todo EXCEPT ![s] = T]
    ELSE UNCHANGED pc /\ todo' = [todo EXCEPT ![s] = @ \ {t}]

Leave(s) ==
    /\ op' = [op EXCEPT ![s] = "none"]
    /\ GoTo(s, "idle")
    /\ todo' = [todo EXCEPT ![s] = {}]
    /\ file' = [file EXCEPT ![s] = 0]
    /\ image' = [image EXCEPT ![s] = NoFile]
    /\ dropped' = [dropped EXCEPT ![s] = {}]
    /\ restored' = [restored EXCEPT ![s] = FALSE]
    /\ alone' = [alone EXCEPT ![s] = FALSE]
    /\ failed' = [failed EXCEPT ![s] = FALSE]

Start(s, o, step) ==
    /\ o \in Operations
    /\ starts < MaxStarts
    /\ starts' = starts + 1
    /\ pc[s] = "idle"
    /\ op' = [op EXCEPT ![s] = o]
    /\ GoTo(s, step)
    /\ alone' = [x \in Sessions |-> x = s /\ \A y \in Sessions \ {s} : pc[y] = "idle"]

\* Something goes wrong by itself: a statement, a command, a commit.
Failure == faults < MaxFaults /\ faults' = faults + 1

With(c, t, rows) == [u \in DOMAIN c \cup {t} |-> IF u = t THEN rows ELSE c[u]]

\* Dumps in progress cannot read a table that was dropped or truncated.
Drops(T) == dropped' = [x \in Sessions |-> IF pc[x] = "dump" THEN dropped[x] \cup T
                                           ELSE dropped[x]]

\* run_nightly_refresh: the restore of the source is opt-in.
StartNightly(s, restore) ==
    /\ Start(s, "nightly", IF restore THEN "restore" ELSE "open")
    /\ file' = [file EXCEPT ![s] = starts' + 1]
    /\ UNCHANGED <<dbVars, fileVars, todo, image, dropped, restored, taken, shared, failed,
                   harmed, loads, faults, crashed>>

\* recreate_target_database: by itself, or for a target drift or a swap.
StartReset(s) ==
    /\ Start(s, "reset", "drop")
    /\ UNCHANGED <<dbVars, fileVars, todo, workVars, taken, shared, failed, harmed,
                   loads, faults, crashed>>

\* stage_upload writes the file; one over the size cap is removed again.
StartUpload(s, f) ==
    /\ Start(s, "upload", "record")
    /\ file' = [file EXCEPT ![s] = starts' + 1]
    /\ files' = With(files, starts' + 1, f)
    /\ UNCHANGED <<dbVars, listed, uploads, todo, image, dropped, restored, taken, shared,
                   failed, harmed, loads, faults, crashed>>

-----------------------------------------------------------------------------
(* run_nightly_refresh: the source, and the backup *)

\* restore_source_dump: psql replays the fresh dump.
RestoreSource(s) ==
    /\ pc[s] = "restore"
    /\ source' = "fresh"
    /\ restored' = [restored EXCEPT ![s] = TRUE]
    /\ GoTo(s, "open")
    /\ UNCHANGED <<created, target, crosswalk, fileVars, op, todo, file, image, dropped,
                   historyVars, boundVars>>

\* It fails before or after it has begun to replace the source: the run ends here.
RestoreSourceFails(s) ==
    /\ pc[s] = "restore"
    /\ Failure
    /\ source' \in {source, "torn"}
    /\ Leave(s)
    /\ UNCHANGED <<created, target, crosswalk, fileVars, taken, shared, harmed, loads, starts,
                   crashed>>

\* The backup of a run that is still there, and opened it in this second.
SameSecond(s) == {file[x] : x \in {y \in Sessions \ {s} : /\ op[y] = "nightly"
                                                        /\ pc[y] \notin {"restore", "open"}}}

\* backup_target opens the file under its final name, the time to the second,
\* and empties it if it is there.
OpenBackup(s) ==
    /\ pc[s] = "open"
    /\ \E f \in {file[s]} \cup SameSecond(s) :
          /\ file' = [file EXCEPT ![s] = f]
          /\ files' = With(files, f, NoFile)
          /\ listed' = listed \cup {f}
          /\ shared' = shared \cup ({f} \ {file[s]})
    /\ GoTo(s, "connect")
    /\ UNCHANGED <<dbVars, uploads, op, todo, image, dropped, restored, taken, alone, failed,
                   harmed, boundVars>>

\* mysqldump writes its header, begins its transaction (--single-transaction) and lists
\* the tables: what it does by itself is one step.
ConnectDump(s) ==
    /\ pc[s] = "connect"
    /\ created
    /\ files' = [files EXCEPT ![file[s]].head = "SQL"]
    /\ image' = [image EXCEPT ![s].rows = target]
    /\ taken' = With(taken, file[s], target)
    /\ todo' = [todo EXCEPT ![s] = DOMAIN target]
    /\ GoTo(s, "dump")
    /\ UNCHANGED <<dbVars, listed, uploads, op, file, dropped, restored, shared, alone, failed,
                   harmed, boundVars>>

\* Mutation: every table is read when its turn comes.
DumpedRows_Live(s, t) == target[t]

\* The rows the transaction sees.
DumpedRows(s, t) == image[s].rows[t]

\* One table after the other.
DumpTable(s, t) ==
    /\ pc[s] = "dump"
    /\ t \in todo[s]
    /\ t = Min(todo[s])
    /\ t \notin dropped[s]
    /\ files' = [files EXCEPT ![file[s]].rows = With(@, t, DumpedRows(s, t))]
    /\ todo' = [todo EXCEPT ![s] = @ \ {t}]
    /\ UNCHANGED <<dbVars, listed, uploads, op, pc, workVars, historyVars, boundVars>>

\* What two dumps leave in one file may be whole or not.
EndDump(s) ==
    /\ pc[s] = "dump"
    /\ todo[s] = {}
    /\ \E whole \in IF file[s] \in shared THEN BOOLEAN ELSE {TRUE} :
          files' = [files EXCEPT ![file[s]].whole = whole]
    /\ GoTo(s, "drop")
    /\ UNCHANGED <<dbVars, listed, uploads, op, todo, workVars, historyVars, boundVars>>

\* _discard_partial_backup.
Discard(s) ==
    /\ files' = Restrict(files, DOMAIN files \ {file[s]})
    /\ listed' = listed \ {file[s]}

\* mysqldump fails: there is no database, a table is gone, or by itself.  The
\* run goes on with a warning.
BackupFails(s) ==
    /\ \/ pc[s] = "connect" /\ ~created /\ UNCHANGED faults
       \/ pc[s] = "dump" /\ todo[s] \cap dropped[s] # {} /\ Min(todo[s]) \in dropped[s]
             /\ UNCHANGED faults
       \/ pc[s] \in {"connect", "dump"} /\ Failure
    /\ Discard(s)
    /\ todo' = [todo EXCEPT ![s] = {}]
    /\ GoTo(s, "drop")
    /\ UNCHANGED <<dbVars, uploads, op, workVars, historyVars, loads, starts, crashed>>

-----------------------------------------------------------------------------
(* recreate_target_database *)

\* Mutation: the tables that are there are left alone.
Dropped_Kept == target

\* What is left of the tables after DROP DATABASE.
Dropped == Nothing

DropDatabase(s) ==
    /\ pc[s] = "drop"
    /\ created' = FALSE
    /\ target' = Dropped
    /\ Drops(Tables)
    /\ GoTo(s, "create")
    /\ UNCHANGED <<source, crosswalk, fileVars, op, todo, file, image, restored, historyVars,
                   boundVars>>

CreateDatabase(s) ==
    /\ pc[s] = "create"
    /\ ~created
    /\ created' = TRUE
    /\ GoTo(s, "tables")
    /\ todo' = [todo EXCEPT ![s] = Tables]
    /\ UNCHANGED <<source, target, crosswalk, fileVars, op, workVars, historyVars, boundVars>>

\* CREATE TABLE IF NOT EXISTS, parents first.
CreateTable(s, t) ==
    /\ pc[s] = "tables"
    /\ t \in todo[s] /\ t = Min(todo[s])
    /\ created
    /\ target' = IF t \in DOMAIN target THEN target ELSE With(target, t, {})
    /\ Turn(s, t, "truncate", Lookups)
    /\ UNCHANGED <<source, created, crosswalk, fileVars, op, workVars, historyVars, boundVars>>

\* Each lookup table is emptied; a dump in progress cannot read it any more.
TruncateLookup(s, t) ==
    /\ pc[s] = "truncate"
    /\ t \in todo[s] /\ t = Min(todo[s])
    /\ t \in DOMAIN target
    /\ target' = With(target, t, {})
    /\ Drops({t})
    /\ Turn(s, t, "load", Lookups)
    /\ UNCHANGED <<source, created, crosswalk, fileVars, op, file, image, restored, historyVars,
                   boundVars>>

\* Mutation: a duplicate key ends the loading, and the rebuild is reported done.
LoadLookup_CatchesDuplicate(s, t) ==
    /\ pc[s] = "load"
    /\ t \in todo[s]
    /\ t \in DOMAIN target
    /\ target' = IF target[t] = {} THEN With(target, t, {Seed}) ELSE target
    /\ IF target[t] # {} THEN GoTo(s, "done") /\ todo' = [todo EXCEPT ![s] = {}]
       ELSE IF op[s] = "nightly" THEN Turn(s, t, "deliver", Entities)
       ELSE Turn(s, t, "done", {})
    /\ UNCHANGED <<source, created, crosswalk, fileVars, op, workVars, historyVars, boundVars>>

\* The canonical dump's INSERT statements for it, in the order of the dump.
LoadLookup(s, t) ==
    /\ pc[s] = "load"
    /\ t \in todo[s]
    /\ t \in DOMAIN target
    /\ target[t] = {}
    /\ target' = With(target, t, {Seed})
    /\ IF op[s] = "nightly" THEN Turn(s, t, "deliver", Entities) ELSE Turn(s, t, "done", {})
    /\ UNCHANGED <<source, created, crosswalk, fileVars, op, workVars, historyVars, boundVars>>

\* The statement cannot be run: another session has created the database, or
\* dropped it with the table, or loaded the rows.
Refused(s) ==
    \/ pc[s] = "create" /\ created
    \/ pc[s] \in {"tables", "replay"} /\ ~created
    \/ pc[s] \in {"truncate", "fill"} /\ Min(todo[s]) \notin DOMAIN target
    \/ pc[s] = "load" /\ \E t \in todo[s] : t \in DOMAIN target => target[t] # {}
    \/ pc[s] = "fill" /\ Min(todo[s]) \in DOMAIN target
          /\ {} \notin {target[Min(todo[s])], image[s].rows[Min(todo[s])]}

\* The operation ends with that error.
RefusedStep(s) ==
    /\ Refused(s)
    /\ harmed' = (harmed \/ pc[s] \in {"load", "fill"})
    /\ Leave(s)
    /\ UNCHANGED <<dbVars, fileVars, taken, shared, boundVars>>

\* A statement fails by itself.
StatementFails(s) ==
    /\ pc[s] \in {"drop", "create", "tables", "truncate", "load", "replay", "fill"}
    /\ Failure
    /\ harmed' = (harmed \/ pc[s] # "drop")
    /\ Leave(s)
    /\ UNCHANGED <<dbVars, fileVars, taken, shared, loads, starts, crashed>>

-----------------------------------------------------------------------------
(* redeliver_all *)

\* refresh_entity: the rows the crosswalk lists are replaced by the source's.
\* Rows it does not list may have the same ids, and go too.
DeliverEntity(s, e) ==
    LET load == [no |-> loads + 1, of |-> source]
    IN  /\ pc[s] = "deliver"
        /\ e \in todo[s] /\ e = Min(todo[s])
        /\ e \in DOMAIN target
        /\ \E gone \in SUBSET target[e] :
              /\ crosswalk[e] \in target[e] => crosswalk[e] \in gone
              /\ crosswalk[e] = NoLoad => gone = {}
              /\ target' = With(target, e, (target[e] \ gone) \cup {load})
        /\ crosswalk' = [crosswalk EXCEPT ![e] = load]
        /\ loads' = loads + 1
        /\ Turn(s, e, "done", {})
        /\ UNCHANGED <<source, created, fileVars, op, workVars, historyVars, starts, faults,
                       crashed>>

\* An entity fails; the run goes on with the next one.
DeliverFails(s, e) ==
    /\ pc[s] = "deliver"
    /\ e \in todo[s] /\ e = Min(todo[s])
    /\ (e \notin DOMAIN target /\ UNCHANGED faults) \/ Failure
    /\ failed' = [failed EXCEPT ![s] = TRUE]
    /\ Turn(s, e, "done", {})
    /\ UNCHANGED <<dbVars, fileVars, op, workVars, taken, shared, alone, harmed, loads, starts,
                   crashed>>

-----------------------------------------------------------------------------
(* Uploads and restores *)

\* validate_upload, on the first 64 kB; only the schema name is looked for
\* further on.
ValidateUpload(f, kind) ==
    \/ f.head = "PGDMP" /\ kind = "source_dump" /\ f.irimsv
    \/ f.head = "SQL" /\ (kind = "source_dump" => f.irimsv)

\* The row is recorded, valid or not.
RecordUpload(s, kind) ==
    /\ pc[s] = "record"
    /\ uploads' = With(uploads, file[s],
                       [kind |-> kind, valid |-> ValidateUpload(files[file[s]], kind),
                        used |-> FALSE])
    /\ GoTo(s, "done")
    /\ UNCHANGED <<dbVars, files, listed, op, todo, workVars, historyVars, boundVars>>

\* A file of the backup directory is validated now, an upload was when it was staged.
MayRestore(o, f) ==
    /\ f \in DOMAIN files
    /\ IF f \in listed THEN o = "restore_target" /\ ValidateUpload(files[f], "target_backup")
       ELSE /\ f \in DOMAIN uploads
            /\ uploads[f].valid
            /\ \/ o = "restore_target" /\ uploads[f].kind = "target_backup"
               \/ o = "restore_source" /\ uploads[f].kind = "source_dump"

\* restore_target and restore_source, with the confirmation typed.  The client
\* opens the file as it is now.
StartRestore(s, o, f) ==
    /\ MayRestore(o, f)
    /\ Start(s, o, IF o = "restore_target" THEN "replay" ELSE "psql")
    /\ file' = [file EXCEPT ![s] = f]
    /\ image' = [image EXCEPT ![s] = files[f]]
    /\ todo' = [todo EXCEPT ![s] = DOMAIN files[f].rows]
    /\ UNCHANGED <<dbVars, fileVars, dropped, restored, taken, shared, failed, harmed,
                   loads, faults, crashed>>

\* The mysql client replays DROP TABLE IF EXISTS and CREATE TABLE ...
ReplayTable(s, t) ==
    /\ pc[s] = "replay"
    /\ created
    /\ t \in todo[s] /\ t = Min(todo[s])
    /\ target' = With(target, t, {})
    /\ Drops({t})
    /\ GoTo(s, "fill")
    /\ UNCHANGED <<source, created, crosswalk, fileVars, op, todo, file, image, restored,
                   historyVars, boundVars>>

\* ... and its INSERT, if the dump has rows of it.
FillTable(s, t) ==
    /\ pc[s] = "fill"
    /\ t \in todo[s] /\ t = Min(todo[s])
    /\ t \in DOMAIN target
    /\ {} \in {target[t], image[s].rows[t]}
    /\ target' = With(target, t, target[t] \cup image[s].rows[t])
    /\ todo' = [todo EXCEPT ![s] = @ \ {t}]
    /\ GoTo(s, "replay")
    /\ UNCHANGED <<source, created, crosswalk, fileVars, op, workVars, historyVars, boundVars>>

\* The end of the file.  The client does not know whether the dump is whole.
EndReplay(s) ==
    /\ pc[s] = "replay"
    /\ created
    /\ todo[s] = {}
    /\ harmed' = (harmed \/ ~image[s].whole \/ DOMAIN image[s].rows # Tables
                         \/ \E t \in Lookups : image[s].rows[t] = {})
    /\ GoTo(s, IF file[s] \in DOMAIN uploads THEN "mark" ELSE "done")
    /\ UNCHANGED <<dbVars, fileVars, op, todo, workVars, taken, shared, alone, failed, boundVars>>

\* restore_source_dump's command on the uploaded dump; psql takes no archive.
ReplaySource(s) ==
    /\ pc[s] = "psql"
    /\ image[s].head = "SQL"
    /\ source' = IF image[s].whole THEN "fresh" ELSE "torn"
    /\ GoTo(s, "mark")
    /\ UNCHANGED <<created, target, crosswalk, fileVars, op, todo, workVars, historyVars, boundVars>>

ReplaySourceFails(s) ==
    /\ pc[s] = "psql"
    /\ \/ image[s].head # "SQL" /\ UNCHANGED <<source, faults>>
       \/ image[s].head = "SQL" /\ Failure /\ source' \in {source, "torn"}
    /\ Leave(s)
    /\ UNCHANGED <<created, target, crosswalk, fileVars, taken, shared, harmed, loads, starts,
                   crashed>>

\* _mark_used, and the commit.
MarkUsed(s) ==
    /\ pc[s] = "mark"
    /\ uploads' = [uploads EXCEPT ![file[s]].used = TRUE]
    /\ GoTo(s, "done")
    /\ UNCHANGED <<dbVars, files, listed, op, todo, workVars, historyVars, boundVars>>

\* The commit fails: the restore is reported failed, after it was made.
MarkFails(s) ==
    /\ pc[s] = "mark"
    /\ Failure
    /\ Leave(s)
    /\ UNCHANGED <<dbVars, fileVars, taken, shared, harmed, loads, starts, crashed>>

-----------------------------------------------------------------------------
(* Ends *)

\* The operation is reported done.
Finish(s) ==
    /\ pc[s] = "done"
    /\ harmed' = (harmed /\ ~(alone[s] /\ op[s] \in {"nightly", "reset"}))
    /\ Leave(s)
    /\ UNCHANGED <<dbVars, fileVars, taken, shared, boundVars>>

\* The process dies, and the command it was running with it.
Crash(s) ==
    /\ Failure
    /\ crashed' = TRUE
    /\ pc[s] # "idle"
    /\ harmed' = (harmed \/ pc[s] \in {"create", "tables", "truncate", "load", "replay", "fill"})
    /\ Leave(s)
    /\ UNCHANGED <<dbVars, fileVars, taken, shared, loads, starts>>

Next ==
    \E s \in Sessions :
        \/ \E restore \in BOOLEAN : StartNightly(s, restore)
        \/ StartReset(s)
        \/ \E o \in {"restore_target", "restore_source"}, f \in FileIds : StartRestore(s, o, f)
        \/ \E f \in Uploadable : StartUpload(s, f)
        \/ RestoreSource(s) \/ RestoreSourceFails(s)
        \/ OpenBackup(s) \/ ConnectDump(s) \/ EndDump(s) \/ BackupFails(s)
        \/ DropDatabase(s) \/ CreateDatabase(s)
        \/ \E t \in Tables :
              \/ DumpTable(s, t) \/ CreateTable(s, t) \/ TruncateLookup(s, t) \/ LoadLookup(s, t)
              \/ DeliverEntity(s, t) \/ DeliverFails(s, t)
              \/ ReplayTable(s, t) \/ FillTable(s, t)
        \/ RefusedStep(s) \/ StatementFails(s)
        \/ \E kind \in Kinds : RecordUpload(s, kind)
        \/ EndReplay(s) \/ ReplaySource(s) \/ ReplaySourceFails(s) \/ MarkUsed(s) \/ MarkFails(s)
        \/ Finish(s) \/ Crash(s)

Spec == Init /\ [][Next]_vars

-----------------------------------------------------------------------------
(* Properties *)

\* A whole backup is the target of the moment it began, whatever was rebuilt,
\* delivered and restored while the dump was made, and a restore of it that
\* nothing else disturbed brings that moment back (backup_target:
\* --single-transaction; restore_target).  Not so of a file that two runs
\* opened in one second, whose dumps mix in it.
RestoreBringsBack ==
    /\ \A f \in listed \ shared : files[f].whole => files[f].rows = taken[f]
    /\ \A s \in Sessions :
        pc[s] = "done" /\ op[s] = "restore_target" /\ alone[s] /\ file[s] \in listed \ shared
            /\ image[s].whole =>
                \A t \in DOMAIN taken[file[s]] : target[t] = taken[file[s]][t]

\* A backup that restore_target would take and that is not whole is still being
\* written, or the process that wrote it died: a failed mysqldump leaves none
\* (_discard_partial_backup, list_target_backups), unless two runs shared it.
HalfBackupsExplained ==
    \A f \in listed \ shared :
        ~files[f].whole /\ ValidateUpload(files[f], "target_backup") =>
            crashed \/ \E s \in Sessions : file[s] = f /\ pc[s] \in {"connect", "dump"}

\* What the list of backups offers can be relied on, and half a backup is there
\* for a reason.
BackupsAreSound == RestoreBringsBack /\ HalfBackupsExplained

\* Whenever nobody is at work the target has all its tables and every lookup
\* its rows, however rebuilds and restores overlapped, unless one of them
\* failed or died at the tables, found seeds another had loaded, or replayed
\* half a dump (recreate_target_database: drop, create if not exists, truncate,
\* load).
LeftComplete ==
    (\A s \in Sessions : pc[s] = "idle") /\ ~harmed =>
        created /\ DOMAIN target = Tables /\ \A t \in Lookups : target[t] # {}

\* A nightly run that nothing disturbed and that reports no failed entity leaves
\* exactly the current source in the target, in step with the crosswalk, and
\* the lookups seeded: also after crashes, half restores and old backups.  If
\* it restored the source, the source is whole (run_nightly_refresh).
RebuildIsFresh ==
    \A s \in Sessions :
        pc[s] = "done" /\ op[s] = "nightly" /\ alone[s] /\ ~failed[s] =>
            /\ DOMAIN target = Tables
            /\ \A t \in Lookups : target[t] = {Seed}
            /\ \A e \in Entities : target[e] = {crosswalk[e]} /\ crosswalk[e].of = source
            /\ restored[s] => source = "fresh"
=============================================================================
