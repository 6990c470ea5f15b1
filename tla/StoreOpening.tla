----------------------------- MODULE StoreOpening -----------------------------
(***************************************************************************)
(* SnapshotStore::open (stillflow-storage/src/store.rs): a process takes   *)
(* the managed root's lock and migrates metadata.sqlite3, one IMMEDIATE    *)
(* transaction per schema version, the version number set last in it.      *)
(* A column of a table is abstracted to the version that added it.         *)
(***************************************************************************)
EXTENDS Integers, FiniteSets

CONSTANTS
    Openers,            \* processes
    OldestVersion,      \* the schema version of the build that wrote the root
    MaxOpenings         \* bound: calls of open

ASSUME OpeningAssumption ==
    /\ IsFiniteSet(Openers) /\ MaxOpenings \in Nat
    /\ OldestVersion \subseteq Nat

SchemaVersion == 13   \* STORAGE_SCHEMA_VERSION

VARIABLES
    opnVersion,  \* PRAGMA user_version
    opnTables,   \* the tables that exist
    opnRows,     \* the version whose code wrote the Job rows of the root
    opnHolder,   \* the processes that hold .stillflow.lock
    opnPc,       \* per process: closed, migrating, open or refused
    opnSpent

opnVars == <<opnVersion, opnTables, opnRows, opnHolder, opnPc, opnSpent>>

\* migrate_to_version_*: the tables each version creates, and the tables its
\* foreign keys name.
Step(creates, references) == [creates |-> creates, references |-> references]
VersionOne == Step({"publications", "snapshots", "partitions"}, {"snapshots"})
VersionTwo == Step({"bundle_publications", "verification_bundles", "artifact_manifests"}, {"verification_bundles"})
VersionThree == Step({"export_publications", "export_journal", "export_manifests", "export_tombstones"}, {})
VersionFour ==
    Step({"cp_workspaces", "cp_sessions", "cp_connections", "cp_assets", "cp_datasets", "cp_plans",
          "cp_plan_versions", "cp_jobs", "cp_runs", "cp_events", "cp_idempotency_keys", "cp_artifact_refs"},
         {"snapshots", "verification_bundles", "cp_workspaces", "cp_sessions", "cp_jobs"})
VersionFive == Step({"cp_artifact_bodies"}, {"cp_artifact_refs", "cp_jobs", "cp_runs"})
VersionSix == Step({"qd1_profile_history"}, {"cp_workspaces", "cp_datasets", "cp_artifact_refs", "cp_runs"})
VersionSeven == Step({"qd1_drift_comparisons"},
                     {"cp_workspaces", "cp_datasets", "qd1_profile_history", "cp_artifact_refs", "cp_runs"})
VersionEight == Step({"sec_members", "sec_roles", "sec_role_capabilities", "sec_member_roles",
                      "sec_service_accounts", "sec_credentials"}, {"cp_workspaces"})
VersionNine == Step({"audit_events"}, {"cp_workspaces"})
VersionTen == Step({"retention_tombstones"}, {})
VersionEleven == Step({"aut_schedules"}, {"cp_workspaces"})
VersionTwelve == Step({"aut_executions"}, {"cp_workspaces", "aut_schedules"})
VersionThirteen == Step({"cp_graph_revisions"}, {"cp_workspaces", "cp_graph_revisions"})
Steps == <<VersionOne, VersionTwo, VersionThree, VersionFour, VersionFive, VersionSix, VersionSeven, VersionEight,
           VersionNine, VersionTen, VersionEleven, VersionTwelve, VersionThirteen>>
Creates(v) == IF v \in DOMAIN Steps THEN Steps[v].creates ELSE {}
References(v) == IF v \in DOMAIN Steps THEN Steps[v].references ELSE {}
TablesAt(v) == UNION {Creates(u) : u \in 1..v}

OpeningInit ==
    /\ opnVersion \in OldestVersion
    /\ opnTables = TablesAt(opnVersion)
    /\ opnRows = opnVersion
    /\ opnHolder = {} /\ opnSpent = 0
    /\ opnPc = [p \in Openers |-> "closed"]

\* try_lock_exclusive on the root's lock file.  The mutant opens regardless.
LockIgnored == TRUE
RootIsFree == opnHolder = {}
OpenRoot(p) ==
    /\ opnPc[p] \in {"closed", "refused"} /\ opnSpent < MaxOpenings
    /\ opnSpent' = opnSpent + 1
    /\ IF RootIsFree
       THEN opnHolder' = opnHolder \cup {p} /\ opnPc' = [opnPc EXCEPT ![p] = "migrating"]
       ELSE UNCHANGED opnHolder /\ opnPc' = [opnPc EXCEPT ![p] = "refused"]
    /\ UNCHANGED <<opnVersion, opnTables, opnRows>>

\* migrate reads user_version once and runs the steps above it in order; a step
\* whose table exists already, or whose references do not, fails.  The mutant
\* sets the version before the transaction.
StepFits(v) == Creates(v) \cap opnTables = {} /\ References(v) \subseteq opnTables \cup Creates(v)
MigrateVersionFirst(p) ==
    /\ opnPc[p] = "migrating" /\ opnVersion < SchemaVersion
    /\ \/ opnVersion' = opnVersion + 1 /\ UNCHANGED opnTables
       \/ opnTables' = TablesAt(opnVersion) /\ UNCHANGED opnVersion
    /\ UNCHANGED <<opnRows, opnHolder, opnPc, opnSpent>>
Migrate(p) ==
    LET v == opnVersion + 1 IN
    /\ opnPc[p] = "migrating" /\ opnVersion < SchemaVersion /\ StepFits(v)
    /\ opnTables' = opnTables \cup Creates(v)
    /\ opnVersion' = v
    /\ UNCHANGED <<opnRows, opnHolder, opnPc, opnSpent>>
FinishOpen(p) ==
    /\ opnPc[p] = "migrating" /\ opnVersion >= SchemaVersion
    /\ IF opnVersion = SchemaVersion
       THEN opnPc' = [opnPc EXCEPT ![p] = "open"] /\ UNCHANGED opnHolder
       ELSE opnPc' = [opnPc EXCEPT ![p] = "refused"] /\ opnHolder' = opnHolder \ {p}
    /\ UNCHANGED <<opnVersion, opnTables, opnRows, opnSpent>>

\* The process closes the store or dies; the lock goes with it, an open
\* transaction is rolled back.
CloseRoot(p) ==
    /\ opnPc[p] \in {"migrating", "open"}
    /\ opnPc' = [opnPc EXCEPT ![p] = "closed"]
    /\ opnHolder' = opnHolder \ {p}
    /\ UNCHANGED <<opnVersion, opnTables, opnRows, opnSpent>>

OpeningNext == \E p \in Openers : OpenRoot(p) \/ Migrate(p) \/ FinishOpen(p) \/ CloseRoot(p)
OpeningSpec == OpeningInit /\ [][OpeningNext]_opnVars

-----------------------------------------------------------------------------
\* open and migrate: whichever build wrote the root and wherever earlier
\* migrations died, one process at a time owns it; an open store has exactly
\* the tables of the current version, and a store of a newer build is refused
\* and left as it is.
OpenIsCurrent ==
    /\ Cardinality(opnHolder) <= 1
    /\ opnTables = TablesAt(opnVersion)
    /\ opnRows > SchemaVersion => opnVersion = opnRows
    /\ \A p \in Openers : opnPc[p] = "open" => opnVersion = SchemaVersion
    /\ \A p \in opnHolder : opnPc[p] = "migrating" /\ opnVersion < SchemaVersion => StepFits(opnVersion + 1)
=============================================================================
