------------------------------ MODULE Rebuild -------------------------------
(***************************************************************************)
(* The plan and its execution: recreate_target_database asks the registry  *)
(* for the order of the tables and for the lookups to seed, and then drops *)
(* creates and seeds.  Registry computes plans, Recovery executes one: the *)
(* registry is parsed once and cached (get_registry), so every operation   *)
(* on the target follows the plan of the canonical schema.                 *)
(*                                                                         *)
(* Recovery numbers the tables by their place in that plan.                *)
(***************************************************************************)
EXTENDS Registry

CONSTANTS
    canonical,      \* the schema of the canonical DDL file
    Sessions, NTables, Lookups, Uploadable, Operations, MaxStarts, MaxFaults

VARIABLES
    source, created, target, crosswalk, files, listed, uploads,
    op, step, todo, file, image, dropped, restored,
    taken, shared, alone, failed, harmed, loads, starts, faults, crashed

targetVars ==
    <<source, created, target, crosswalk, files, listed, uploads,
      op, step, todo, file, image, dropped, restored,
      taken, shared, alone, failed, harmed, loads, starts, faults, crashed>>

Target == INSTANCE Recovery WITH pc <- step

ASSUME RecoveryConstants == Target!RecoveryAssumption

ASSUME CanonicalAssumption == canonical \in Schemas

\* The plan of the canonical schema is there, and Recovery's tables are its own.
Planned ==
    /\ pc = "done"
    /\ schema = canonical
    /\ names = schema.known
    /\ NTables = Len(ordered)
    /\ Lookups = {i \in 1..NTables : ordered[i] \in SeedTables}

RebuildInit == Init /\ Target!Init

\* A plan is made, of any schema or subset; or the target is worked on.
RebuildNext ==
    \/ Next /\ UNCHANGED targetVars
    \/ Planned /\ Target!Next /\ UNCHANGED vars

RebuildSpec == RebuildInit /\ [][RebuildNext]_<<vars, targetVars>>

-----------------------------------------------------------------------------
(* Properties *)

\* Recovery's promises for backups and restores (Recovery.BackupsAreSound:
\* backup_target, list_target_backups, restore_target).
BackupsAreSound == Target!BackupsAreSound

\* The target is whole when nobody is at work (Recovery.LeftComplete), and what
\* the plan seeds is enough for the pipeline's inserts: a lookup that a foreign key
\* of a written or a seeded table leads to has rows (seed_tables,
\* recreate_target_database).
LeftComplete ==
    /\ Target!LeftComplete
    /\ Planned /\ (\A s \in Sessions : step[s] = "idle") /\ ~harmed =>
          \A i, j \in 1..NTables :
              /\ ordered[i] \in writeSet \cup SeedTables
              /\ ordered[j] \in ParentTables(ordered[i]) \ writeSet
              => target[j] # {}

\* A nightly run leaves the fresh source (Recovery.RebuildIsFresh).
RebuildIsFresh == Target!RebuildIsFresh
=============================================================================
