----------------------------- MODULE Migrations -----------------------------
(***************************************************************************)
(* The migration runner (hosted/control-plane/migrate.go): instances that  *)
(* start at once, an operator who reverses, the advisory lock of a session *)
(* that may be lost while the work goes on over other connections of the   *)
(* pool, and crashes between any two statements.                           *)
(***************************************************************************)
EXTENDS Naturals, FiniteSets

CONSTANTS
  Instances,
  Versions,   \* how many migrations are embedded
  LockBreaks, \* whether the connection that holds the lock may be lost
  NoInstance

ASSUME MigrationAssumption ==
  Versions \in Nat \ {0} /\ LockBreaks \in BOOLEAN /\ NoInstance \notin Instances

VARIABLES
  schema,    \* versions whose statements have been run and committed
  recorded,  \* schema_migrations
  holder,    \* the session with the advisory lock
  runner,    \* the instances
  broken     \* the lock was lost at some time

migrationVars == <<schema, recorded, holder, runner, broken>>

All == 1..Versions

(* applied is what appliedVersions read; doing the version whose           *)
(* transaction is open, 0 outside one.                                     *)
Runner == [at : {"off", "lock", "read", "loop", "row", "commit", "unlock"},
           way : {"up", "down"}, applied : SUBSET All, doing : 0..Versions]

Off == [at |-> "off", way |-> "up", applied |-> {}, doing |-> 0]

MigrationTypeOK ==
  /\ schema \subseteq All
  /\ recorded \subseteq All
  /\ holder \in Instances \cup {NoInstance}
  /\ runner \in [Instances -> Runner]
  /\ broken \in BOOLEAN

MigrationInit ==
  /\ schema = {}
  /\ recorded = {}
  /\ holder = NoInstance
  /\ runner = [i \in Instances |-> Off]
  /\ broken = FALSE

Run(i, new) == runner' = [runner EXCEPT ![i] = new]

migrateStart(i, way) ==
  /\ runner[i].at = "off"
  /\ Run(i, [Off EXCEPT !.at = "lock", !.way = way])
  /\ UNCHANGED <<schema, recorded, holder, broken>>

withoutMigrationLock(i) ==
  /\ runner[i].at = "lock"
  /\ Run(i, [runner[i] EXCEPT !.at = "read"])
  /\ UNCHANGED <<schema, recorded, holder, broken>>

withMigrationLock(i) ==
  /\ runner[i].at = "lock"
  /\ holder = NoInstance
  /\ holder' = i
  /\ Run(i, [runner[i] EXCEPT !.at = "read"])
  /\ UNCHANGED <<schema, recorded, broken>>

appliedVersions(i) ==
  /\ runner[i].at = "read"
  /\ Run(i, [runner[i] EXCEPT !.at = "loop", !.applied = recorded])
  /\ UNCHANGED <<schema, recorded, holder, broken>>

(* What the loop has still to do, by what it read: the lowest that is      *)
(* missing on the way up, the highest that is there on the way down.       *)
Rest(i) == IF runner[i].way = "up" THEN All \ runner[i].applied ELSE runner[i].applied

IsNext(i, v) ==
  /\ v \in Rest(i)
  /\ \A w \in Rest(i) : IF runner[i].way = "up" THEN v <= w ELSE v >= w

(* The statements of the file.  They wait for those of another transaction *)
(* on the same version and fail when it was done or undone already.        *)
execMigration(i, v) ==
  /\ runner[i].at = "loop"
  /\ IsNext(i, v)
  /\ \A j \in Instances : runner[j].doing # v
  /\ IF (v \in schema) = (runner[i].way = "up")
       THEN Run(i, [runner[i] EXCEPT !.at = "unlock"])
       ELSE Run(i, [runner[i] EXCEPT !.at = "row", !.doing = v])
  /\ UNCHANGED <<schema, recorded, holder, broken>>

(* A reversal of some steps stops before everything is undone. *)
migrateDone(i) ==
  /\ runner[i].at = "loop"
  /\ Rest(i) = {} \/ runner[i].way = "down"
  /\ Run(i, [runner[i] EXCEPT !.at = "unlock"])
  /\ UNCHANGED <<schema, recorded, holder, broken>>

Apply(set, i) == IF runner[i].way = "up" THEN set \cup {runner[i].doing} ELSE set \ {runner[i].doing}

recordVersion(i) ==
  /\ runner[i].at = "row"
  /\ Run(i, [runner[i] EXCEPT !.at = "commit"])
  /\ UNCHANGED <<schema, recorded, holder, broken>>

commitMigration(i) ==
  /\ runner[i].at = "commit"
  /\ schema' = Apply(schema, i)
  /\ recorded' = Apply(recorded, i)
  /\ Run(i, [runner[i] EXCEPT !.at = "loop", !.applied = Apply(@, i), !.doing = 0])
  /\ UNCHANGED <<holder, broken>>

unlockMigration(i) ==
  /\ runner[i].at = "unlock"
  /\ holder' = IF holder = i THEN NoInstance ELSE holder
  /\ Run(i, Off)
  /\ UNCHANGED <<schema, recorded, broken>>

(* The instance dies: its transaction and its sessions go with it. *)
instanceDies(i) ==
  /\ runner[i].at # "off"
  /\ holder' = IF holder = i THEN NoInstance ELSE holder
  /\ Run(i, Off)
  /\ UNCHANGED <<schema, recorded, broken>>

(* The one connection that holds the lock goes; the pool has others. *)
lockLost(i) ==
  /\ LockBreaks
  /\ holder = i
  /\ holder' = NoInstance
  /\ broken' = TRUE
  /\ UNCHANGED <<schema, recorded, runner>>

migrate(i) ==
  \/ withMigrationLock(i) \/ appliedVersions(i) \/ migrateDone(i)
  \/ recordVersion(i) \/ commitMigration(i) \/ unlockMigration(i)

MigrationNext ==
  \/ \E i \in Instances, way \in {"up", "down"} : migrateStart(i, way)
  \/ \E i \in Instances, v \in All : execMigration(i, v)
  \/ \E i \in Instances : migrate(i) \/ instanceDies(i) \/ lockLost(i)

MigrationSpec == MigrationInit /\ [][MigrationNext]_migrationVars

-----------------------------------------------------------------------------
(* Properties *)

(* migrate.go:84: each migration in its own transaction: whatever dies     *)
(* when, a version is recorded exactly when the schema has it.             *)
RecordedIsDone == recorded = schema

(* migrate.go:159: while nobody loses the lock, instances that start at    *)
(* once and reversals leave a first part of the list, never a gap.         *)
NoGaps == ~broken => \A v \in recorded : 1..v \subseteq recorded

(* Both: the record of the migrations is the schema, without gaps.         *)
SchemaSound == RecordedIsDone /\ NoGaps
=============================================================================
