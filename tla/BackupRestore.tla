---------------------------- MODULE BackupRestore ----------------------------
(***************************************************************************)
(* SnapshotStore::backup and restore (stillflow-storage/src/backup.rs).    *)
(* A backup copies the database and the files under partitions/ one by     *)
(* one into a staging directory beside its destination, then the manifest, *)
(* and is renamed to the destination; restore verifies and copies back.    *)
(* The database is the set of Snapshots it lists; a partition file is      *)
(* named after its Snapshot.                                               *)
(***************************************************************************)
EXTENDS Integers, FiniteSets

CONSTANTS
    BackedSnapshots,  \* Snapshots published and collected meanwhile
    MaxBackupFaults   \* bound: deaths of the process and damaged files

ASSUME BackupAssumption == IsFiniteSet(BackedSnapshots) /\ MaxBackupFaults \in Nat

VARIABLES
    bakRows,      \* the source database: Snapshots it lists
    bakFiles,     \* the source's partition files
    bakWriter,    \* publications and collections in progress (activity permits)
    bakPc,        \* where the backup or the restore is
    bakStage,     \* staging: file -> its content; {} where absent
    bakBackup,    \* the published backup: [files, manifest] or nothing
    bakDamaged,   \* files of the backup whose bytes changed
    bakRestored,  \* the restored root, once published
    bakTaken,     \* history: the source when the backup was published
    bakSpent

bakVars == <<bakRows, bakFiles, bakWriter, bakPc, bakStage, bakBackup, bakDamaged, bakRestored,
             bakTaken, bakSpent>>

Database == "metadata.sqlite3"
NoRoot == [published |-> FALSE]

BackupInit ==
    /\ bakRows = {} /\ bakFiles = {} /\ bakWriter = {}
    /\ bakPc = "idle" /\ bakStage = {}
    /\ bakBackup = NoRoot /\ bakDamaged = {} /\ bakRestored = NoRoot
    /\ bakTaken = NoRoot /\ bakSpent = 0

\* acquire_maintenance: refused while a permit is held, and refuses permits.
\* The mutant copies beside the writers.
GateIgnored == TRUE
MayBackup == bakWriter = {}
Gated == bakPc \in {"copy", "publish"}

\* The source's other users: a publication installs the file, then the row; a
\* collection removes the row, then the file.
PublishFile(s) ==
    /\ ~Gated /\ s \notin bakRows \cup bakWriter
    /\ bakFiles' = bakFiles \cup {s} /\ bakWriter' = bakWriter \cup {s}
    /\ UNCHANGED <<bakRows, bakPc, bakStage, bakBackup, bakDamaged, bakRestored, bakTaken, bakSpent>>
PublishRow(s) ==
    /\ s \in bakWriter \ bakRows /\ s \in bakFiles
    /\ bakRows' = bakRows \cup {s} /\ bakWriter' = bakWriter \ {s}
    /\ UNCHANGED <<bakFiles, bakPc, bakStage, bakBackup, bakDamaged, bakRestored, bakTaken, bakSpent>>
CollectSource(s) ==
    /\ ~Gated /\ s \in bakRows \ bakWriter
    /\ bakRows' = bakRows \ {s} /\ bakFiles' = bakFiles \ {s}
    /\ UNCHANGED <<bakWriter, bakPc, bakStage, bakBackup, bakDamaged, bakRestored, bakTaken, bakSpent>>

\* prepare_new_destination, StagingDirectory::new, checkpoint_database.
StartBackup ==
    /\ bakPc = "idle" /\ MayBackup /\ ~bakBackup.published
    /\ bakPc' = "copy" /\ bakStage' = {}
    /\ UNCHANGED <<bakRows, bakFiles, bakWriter, bakBackup, bakDamaged, bakRestored, bakTaken, bakSpent>>

\* source_files is the database and every file under partitions/, copied in
\* that order; the manifest records what was copied and is written last.
CopySource ==
    /\ bakPc = "copy"
    /\ \/ /\ bakStage = {} /\ bakStage' = {<<Database, bakRows>>} /\ UNCHANGED bakPc
       \/ \E s \in bakFiles :
            /\ bakStage # {} /\ <<s, {s}>> \notin bakStage
            /\ bakStage' = bakStage \cup {<<s, {s}>>} /\ UNCHANGED bakPc
       \/ /\ bakStage # {} /\ \A s \in bakFiles : <<s, {s}>> \in bakStage
          /\ bakPc' = "publish" /\ UNCHANGED bakStage
    /\ UNCHANGED <<bakRows, bakFiles, bakWriter, bakBackup, bakDamaged, bakRestored, bakTaken, bakSpent>>
PublishBackup ==
    /\ bakPc = "publish"
    /\ bakBackup' = [published |-> TRUE, files |-> bakStage]
    /\ bakTaken' = [published |-> TRUE, rows |-> bakRows, files |-> bakFiles]
    /\ bakPc' = "idle" /\ bakStage' = {}
    /\ UNCHANGED <<bakRows, bakFiles, bakWriter, bakDamaged, bakRestored, bakSpent>>

\* The process dies: the staging directory stays, unseen; or the disk damages
\* a file of the published backup.
BackupFault ==
    /\ bakSpent < MaxBackupFaults /\ bakSpent' = bakSpent + 1
    /\ \/ bakPc # "idle" /\ bakPc' = "idle" /\ bakStage' = {} /\ bakWriter' = {} /\ UNCHANGED bakDamaged
       \/ /\ bakBackup.published
          /\ \E x \in bakBackup.files : bakDamaged' = bakDamaged \cup {x}
          /\ UNCHANGED <<bakPc, bakStage, bakWriter>>
    /\ UNCHANGED <<bakRows, bakFiles, bakBackup, bakRestored, bakTaken>>

\* restore: validate, validate_backup_shape, then each file against its size
\* and digest, then validate_database.  The mutant copies without comparing.
FileUnchecked(x) == TRUE
FileMatches(x) == x \notin bakDamaged

\* BackupManifest::validate: the database is listed, and no path twice.
ManifestValid(files) ==
    /\ Database \in {x[1] : x \in files}
    /\ \A x, y \in files : x[1] = y[1] => x = y
StartRestore ==
    /\ bakPc = "idle" /\ bakBackup.published /\ ~bakRestored.published
    /\ ManifestValid(bakBackup.files)
    /\ bakPc' = "restore" /\ bakStage' = {}
    /\ UNCHANGED <<bakRows, bakFiles, bakWriter, bakBackup, bakDamaged, bakRestored, bakTaken, bakSpent>>
RestoreFile ==
    /\ bakPc = "restore"
    /\ \E x \in bakBackup.files :
        /\ x[1] \notin {y[1] : y \in bakStage}
        /\ IF FileMatches(x)
           THEN bakStage' = bakStage \cup {IF x \in bakDamaged THEN <<x[1], {Database}>> ELSE x} /\ UNCHANGED bakPc
           ELSE bakStage' = {} /\ bakPc' = "idle"
    /\ UNCHANGED <<bakRows, bakFiles, bakWriter, bakBackup, bakDamaged, bakRestored, bakTaken, bakSpent>>
PublishRestore ==
    /\ bakPc = "restore" /\ {x[1] : x \in bakStage} = {x[1] : x \in bakBackup.files}
    /\ bakRestored' = [published |-> TRUE, files |-> bakStage]
    /\ bakPc' = "idle" /\ bakStage' = {}
    /\ UNCHANGED <<bakRows, bakFiles, bakWriter, bakBackup, bakDamaged, bakTaken, bakSpent>>

BackupNext ==
    \/ \E s \in BackedSnapshots : PublishFile(s) \/ PublishRow(s) \/ CollectSource(s)
    \/ StartBackup \/ CopySource \/ PublishBackup \/ BackupFault
    \/ StartRestore \/ RestoreFile \/ PublishRestore
BackupSpec == BackupInit /\ [][BackupNext]_bakVars

-----------------------------------------------------------------------------
\* backup: the copy is one state of the store, although it is taken file by
\* file while others want to publish and collect: the database it holds is that
\* of the files it holds.
BackupIsOneState ==
    bakBackup.published =>
        bakBackup.files = {<<Database, bakTaken.rows>>} \cup {<<s, {s}>> : s \in bakTaken.files}

\* restore: a restored root is the backup as it was taken, every Snapshot it
\* lists has its file, or there is no restored root.
RestoreIsBackup ==
    bakRestored.published =>
        /\ bakRestored.files = bakBackup.files
        /\ \A s \in bakTaken.rows : <<s, {s}>> \in bakRestored.files
=============================================================================
