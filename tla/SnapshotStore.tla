---------------------------- MODULE SnapshotStore ----------------------------
(***************************************************************************)
(* Publication, reading, recovery and collection of Snapshots             *)
(* (stillflow-storage/src/store.rs, manifest.rs, retention.rs).  A        *)
(* Snapshot is a manifest row in SQLite and a directory of Parquet         *)
(* partitions; no transaction spans the two, so the order of the steps is  *)
(* what keeps them consistent when the process dies between any two.       *)
(*                                                                         *)
(* The file system is the set of directories and of files in the areas     *)
(* staging/ and partitions/ ("final").  SQLite (WAL, synchronous = FULL)   *)
(* is durable at commit; the file system is durable where it was synced.   *)
(***************************************************************************)
EXTENDS Integers, FiniteSets

CONSTANTS
    Snapshots,        \* Snapshot identities
    Readers,          \* callers of read_batches
    MaxParts,         \* bound: partitions of one Snapshot
    MaxPublishers,    \* max_active_publishers
    MaxReaders,       \* max_active_readers
    RetentionWindow,  \* the Snapshot duration of the RetentionPolicy: 0 or more
    MaxCrashes,       \* bound: deaths of the process
    MaxPowerLosses,   \* bound: deaths of the machine
    MaxFaults,        \* bound: failures of best-effort clean-up
    NoSnapshot

ASSUME SnapshotStoreAssumption ==
    /\ IsFiniteSet(Snapshots) /\ IsFiniteSet(Readers)
    /\ NoSnapshot \notin Snapshots
    /\ {MaxParts, MaxPublishers, MaxReaders} \subseteq Nat \ {0}
    /\ {RetentionWindow, MaxCrashes, MaxPowerLosses, MaxFaults} \subseteq Nat

VARIABLES
    snapRow,     \* snapshots.state: none, visible or tombstoned
    manifest,    \* the number of partitions the row lists
    journal,     \* publications: the Snapshots with a journal row
    snapDir,     \* the <<area, snapshot>> directories that exist
    snapFile,    \* the <<area, snapshot, partition>> files that exist
    durable,     \* the Snapshots whose final directory was synced
    published,   \* history: the identities that were ever visible
    snapWriter,  \* per Snapshot: its SnapshotWriter
    snapReader,  \* per reader: the open SnapshotBatchReader
    maint,       \* the maintenance operation that holds the gate
    spent        \* how much of each environment bound was used

dbVars    == <<snapRow, manifest, journal, published>>
fsVars    == <<snapDir, snapFile, durable>>
diskVars  == <<dbVars, fsVars>>
storeVars == <<diskVars, snapWriter, snapReader, maint, spent>>

Parts == 0..(MaxParts - 1)
Areas == {"staging", "final"}

NoWriter == [pc |-> "none", staged |-> 0, moved |-> 0, installed |-> FALSE]
NoReader == [snap |-> NoSnapshot, next |-> 0]
NoMaint  == [pc |-> "idle", todo |-> {}, cur |-> NoSnapshot, fresh |-> {}, gone |-> {}]

Publishing == {s \in Snapshots : snapWriter[s].pc # "none"}
Reading    == {r \in Readers : snapReader[r] # NoReader}
Visible    == {s \in Snapshots : snapRow[s] = "visible"}
Tombstoned == {s \in Snapshots : snapRow[s] = "tombstoned"}
FilesOf(area, s) == {p \in Parts : <<area, s, p>> \in snapFile}

StoreInit ==
    /\ snapRow = [s \in Snapshots |-> "none"]
    /\ manifest = [s \in Snapshots |-> 0]
    /\ journal = {} /\ snapDir = {} /\ snapFile = {} /\ durable = {} /\ published = {}
    /\ snapWriter = [s \in Snapshots |-> NoWriter]
    /\ snapReader = [r \in Readers |-> NoReader]
    /\ maint = NoMaint
    /\ spent = [crash |-> 0, power |-> 0, fault |-> 0]

-----------------------------------------------------------------------------
(* The activity gate and the file system.                                  *)

\* acquire_activity of a publisher and of a reader.  The mutant admits one
\* reader too many.
MayPublish == maint = NoMaint /\ Cardinality(Publishing) < MaxPublishers
MayReadOffByOne == maint = NoMaint /\ Cardinality(Reading) <= MaxReaders
MayRead == maint = NoMaint /\ Cardinality(Reading) < MaxReaders

\* acquire_maintenance: no other maintenance, reader or publisher.  The mutant
\* forgets the readers.
MayMaintainWhileRead == maint = NoMaint /\ Publishing = {}
MayMaintain == maint = NoMaint /\ Publishing = {} /\ Reading = {}

\* remove_uuid_directory is remove_dir_all: one file after the other, then the
\* directory; a missing directory is removed already.
Unlinked(area, s) ==
    \E p \in FilesOf(area, s) : snapFile' = snapFile \ {<<area, s, p>>} /\ UNCHANGED <<snapDir, durable>>
Removed(area, s) ==
    /\ FilesOf(area, s) = {}
    /\ snapDir' = snapDir \ {<<area, s>>}
    /\ durable' = IF area = "final" THEN durable \ {s} ELSE durable
    /\ UNCHANGED snapFile

-----------------------------------------------------------------------------
(* SnapshotWriter: begin_snapshot, append, commit, and Drop.               *)

WriterGoto(s, label) == snapWriter' = [snapWriter EXCEPT ![s].pc = label]
At(s, label) == snapWriter[s].pc = label

\* insert_publication; an identity that was visible once is not used again.
BeginSnapshot(s) ==
    /\ MayPublish
    /\ At(s, "none")
    /\ snapRow[s] = "none" /\ s \notin journal
    /\ s \notin published
    /\ journal' = journal \cup {s}
    /\ WriterGoto(s, "begun")
    /\ UNCHANGED <<snapRow, manifest, published, fsVars, snapReader, maint, spent>>

\* create_exact_directory; on an error begin_snapshot takes the journal back.
CreateStaging(s) ==
    /\ At(s, "begun")
    /\ \/ /\ <<"staging", s>> \notin snapDir
          /\ snapDir' = snapDir \cup {<<"staging", s>>}
          /\ WriterGoto(s, "open")
       \/ WriterGoto(s, "abortJournal") /\ UNCHANGED snapDir
    /\ UNCHANGED <<dbVars, snapFile, durable, snapReader, maint, spent>>

\* append: the next partition is written and synced; a failure may leave its
\* file behind and fails the writer.
AppendPartition(s) ==
    LET p == snapWriter[s].staged IN
    /\ At(s, "open") /\ p \in Parts
    /\ \/ /\ snapFile' = snapFile \cup {<<"staging", s, p>>}
          /\ snapWriter' = [snapWriter EXCEPT ![s].staged = @ + 1]
       \/ /\ snapFile' \in {snapFile, snapFile \cup {<<"staging", s, p>>}}
          /\ WriterGoto(s, "failed")
    /\ UNCHANGED <<dbVars, snapDir, durable, snapReader, maint, spent>>

\* The caller drops an open or failed writer, or commit refuses a failed one.
DropWriter(s) ==
    /\ At(s, "open") \/ At(s, "failed")
    /\ WriterGoto(s, "abortStaging")
    /\ UNCHANGED <<diskVars, snapReader, maint, spent>>

\* commit: create_final_snapshot_directory refuses one that exists already.
\* The mutant is create_dir_all, which takes it over.
CreateFinalReuses(s) ==
    /\ At(s, "open")
    /\ snapDir' = snapDir \cup {<<"final", s>>}
    /\ snapWriter' = [snapWriter EXCEPT ![s].pc = "installing", ![s].installed = TRUE]
    /\ UNCHANGED <<dbVars, snapFile, durable, snapReader, maint, spent>>
CreateFinal(s) ==
    /\ At(s, "open")
    /\ \/ /\ <<"final", s>> \notin snapDir
          /\ snapDir' = snapDir \cup {<<"final", s>>}
          /\ snapWriter' = [snapWriter EXCEPT ![s].pc = "installing", ![s].installed = TRUE]
       \/ WriterGoto(s, "abortStaging") /\ UNCHANGED snapDir
    /\ UNCHANGED <<dbVars, snapFile, durable, snapReader, maint, spent>>

\* install_partitions: rename the partitions in order ...
InstallPartition(s) ==
    LET p == snapWriter[s].moved IN
    /\ At(s, "installing") /\ p < snapWriter[s].staged
    /\ \/ /\ snapFile' = (snapFile \ {<<"staging", s, p>>}) \cup {<<"final", s, p>>}
          /\ snapWriter' = [snapWriter EXCEPT ![s].moved = @ + 1]
       \/ WriterGoto(s, "abortStaging") /\ UNCHANGED snapFile
    /\ UNCHANGED <<dbVars, snapDir, durable, snapReader, maint, spent>>

\* ... then sync the directory and its parent.  The mutant does not.
SyncSkipped(s) ==
    /\ At(s, "installing") /\ snapWriter[s].moved = snapWriter[s].staged
    /\ WriterGoto(s, "synced")
    /\ UNCHANGED <<diskVars, snapReader, maint, spent>>
SyncFinal(s) ==
    /\ At(s, "installing") /\ snapWriter[s].moved = snapWriter[s].staged
    /\ \/ durable' = durable \cup {s} /\ WriterGoto(s, "synced")
       \/ UNCHANGED durable /\ WriterGoto(s, "abortStaging")
    /\ UNCHANGED <<dbVars, snapDir, snapFile, snapReader, maint, spent>>

\* commit_manifest: the row becomes visible and the journal row goes, in one
\* transaction.  An error aborts, with the transaction rolled back.  The
\* mutant leaves the journal row to recovery.
CommitKeepsJournal(s) ==
    /\ At(s, "synced")
    /\ snapRow' = [snapRow EXCEPT ![s] = "visible"]
    /\ manifest' = [manifest EXCEPT ![s] = snapWriter[s].staged]
    /\ published' = published \cup {s}
    /\ WriterGoto(s, "cleanup")
    /\ UNCHANGED <<journal, fsVars, snapReader, maint, spent>>
CommitManifest(s) ==
    /\ At(s, "synced")
    /\ \/ /\ s \in journal /\ snapRow[s] = "none"
          /\ snapRow' = [snapRow EXCEPT ![s] = "visible"]
          /\ manifest' = [manifest EXCEPT ![s] = snapWriter[s].staged]
          /\ journal' = journal \ {s}
          /\ published' = published \cup {s}
          /\ WriterGoto(s, "cleanup")
       \/ WriterGoto(s, "abortStaging") /\ UNCHANGED dbVars
    /\ UNCHANGED <<fsVars, snapReader, maint, spent>>

\* The removals of commit and Drop, in order; the result of each is ignored,
\* so a failing one (a fault) is passed over.  The mutant does not know that
\* the final directory was created.
NextRemovalForgets(s) == IF At(s, "cleanup") THEN "none" ELSE "abortJournal"
NextRemoval(s) ==
    CASE At(s, "abortStaging") -> IF snapWriter[s].installed THEN "abortFinal" ELSE "abortJournal"
      [] At(s, "abortFinal")   -> "abortJournal"
      [] At(s, "cleanup")      -> "none"

Advance(s, label) ==
    snapWriter' = IF label = "none" THEN [snapWriter EXCEPT ![s] = NoWriter]
                                ELSE [snapWriter EXCEPT ![s].pc = label]

RemoveBestEffort(s) ==
    LET area == IF At(s, "abortFinal") THEN "final" ELSE "staging" IN
    /\ snapWriter[s].pc \in {"abortStaging", "abortFinal", "cleanup"}
    /\ \/ Unlinked(area, s) /\ UNCHANGED <<snapWriter, spent>>
       \/ Removed(area, s) /\ Advance(s, NextRemoval(s)) /\ UNCHANGED spent
       \/ /\ spent.fault < MaxFaults
          /\ spent' = [spent EXCEPT !.fault = @ + 1]
          /\ Advance(s, NextRemoval(s))
          /\ UNCHANGED fsVars
    /\ UNCHANGED <<dbVars, snapReader, maint>>

\* abort_publication: the last step of an abort, also best effort.
AbortJournal(s) ==
    /\ At(s, "abortJournal")
    /\ \/ journal' = journal \ {s} /\ UNCHANGED spent
       \/ /\ spent.fault < MaxFaults
          /\ spent' = [spent EXCEPT !.fault = @ + 1]
          /\ UNCHANGED journal
    /\ Advance(s, "none")
    /\ UNCHANGED <<snapRow, manifest, published, fsVars, snapReader, maint>>

WriterStep(s) ==
    \/ BeginSnapshot(s) \/ CreateStaging(s) \/ AppendPartition(s) \/ DropWriter(s)
    \/ CreateFinal(s) \/ InstallPartition(s) \/ SyncFinal(s) \/ CommitManifest(s)
    \/ RemoveBestEffort(s) \/ AbortJournal(s)

-----------------------------------------------------------------------------
(* Readers, and tombstone_snapshot (under a reader's guard, one step).      *)

OpenReader(r, s) ==
    /\ MayRead
    /\ snapReader[r] = NoReader
    /\ snapRow[s] = "visible"
    /\ snapReader' = [snapReader EXCEPT ![r] = [snap |-> s, next |-> 0]]
    /\ UNCHANGED <<diskVars, snapWriter, maint, spent>>

ReadPartition(r) ==
    LET s == snapReader[r].snap IN
    /\ snapReader[r] # NoReader
    /\ snapReader[r].next < manifest[s]
    /\ <<"final", s, snapReader[r].next>> \in snapFile
    /\ snapReader' = [snapReader EXCEPT ![r].next = @ + 1]
    /\ UNCHANGED <<diskVars, snapWriter, maint, spent>>

CloseReader(r) ==
    /\ snapReader[r] # NoReader
    /\ snapReader' = [snapReader EXCEPT ![r] = NoReader]
    /\ UNCHANGED <<diskVars, snapWriter, maint, spent>>

TombstoneSnapshot(s) ==
    /\ MayRead
    /\ snapRow[s] = "visible"
    /\ snapRow' = [snapRow EXCEPT ![s] = "tombstoned"]
    /\ UNCHANGED <<manifest, journal, published, fsVars, snapWriter, snapReader, maint, spent>>

-----------------------------------------------------------------------------
(* recover.                                                                *)

MaintGoto(label) == maint' = [maint EXCEPT !.pc = label]
MaintAt(label) == maint.pc = label
\* Turn to the next of the candidates.
Pick(s, label) ==
    /\ s \in maint.todo
    /\ maint' = [maint EXCEPT !.pc = label, !.cur = s, !.todo = @ \ {s}]

\* stale_publications: the journal rows not newer than the cutoff.
BeginRecover(stale) ==
    /\ MayMaintain
    /\ stale \subseteq journal
    /\ maint' = [NoMaint EXCEPT !.pc = "recover", !.todo = stale]
    /\ UNCHANGED <<diskVars, snapWriter, snapReader, spent>>

RecoverPublication(s) ==
    /\ MaintAt("recover")
    /\ Pick(s, "recStaging")
    /\ UNCHANGED <<diskVars, snapWriter, snapReader, spent>>

\* The staging residue; of an unpublished Snapshot also what was installed.
Unpublished(s) == snapRow[s] # "visible"

RemoveStagingResidue ==
    /\ MaintAt("recStaging")
    /\ \/ Unlinked("staging", maint.cur) /\ UNCHANGED maint
       \/ /\ Removed("staging", maint.cur)
          /\ MaintGoto(IF Unpublished(maint.cur) THEN "recFinal" ELSE "recJournal")
    /\ UNCHANGED <<dbVars, snapWriter, snapReader, spent>>

RemoveInstalledResidue ==
    /\ MaintAt("recFinal")
    /\ \/ Unlinked("final", maint.cur) /\ UNCHANGED maint
       \/ Removed("final", maint.cur) /\ MaintGoto("recJournal")
    /\ UNCHANGED <<dbVars, snapWriter, snapReader, spent>>

DeletePublication ==
    /\ MaintAt("recJournal")
    /\ journal' = journal \ {maint.cur}
    /\ MaintGoto("recover")
    /\ UNCHANGED <<snapRow, manifest, published, fsVars, snapWriter, snapReader, spent>>

\* scan_orphan_staging: the staging directories without a journal row.  The
\* mutant looks only at Snapshots that were never published.
OrphansOfAborts == {s \in Snapshots : <<"staging", s>> \in snapDir /\ s \notin journal /\ Unpublished(s)}
Orphans == {s \in Snapshots : <<"staging", s>> \in snapDir /\ s \notin journal}

ScanOrphans ==
    /\ MaintAt("recover") /\ maint.todo = {}
    /\ \/ Orphans = {} /\ MaintGoto("recovered")
       \/ \E s \in Orphans : maint' = [maint EXCEPT !.pc = "orphan", !.cur = s]
    /\ UNCHANGED <<diskVars, snapWriter, snapReader, spent>>

RemoveOrphan ==
    /\ MaintAt("orphan")
    /\ \/ Unlinked("staging", maint.cur) /\ UNCHANGED maint
       \/ Removed("staging", maint.cur) /\ MaintGoto("recover")
    /\ UNCHANGED <<dbVars, snapWriter, snapReader, spent>>

-----------------------------------------------------------------------------
(* collect_garbage and the retention plane's collect.                      *)

\* eligible_tombstones; which of them are old enough is left open.
BeginCollect(old) ==
    /\ MayMaintain
    /\ old \subseteq Tombstoned
    /\ maint' = [NoMaint EXCEPT !.pc = "gc", !.todo = old]
    /\ UNCHANGED <<diskVars, snapWriter, snapReader, spent>>

CollectSnapshot(s) ==
    /\ MaintAt("gc")
    /\ Pick(s, "gcFiles")
    /\ UNCHANGED <<diskVars, snapWriter, snapReader, spent>>

\* The files first, then the row.
CollectFiles ==
    /\ MaintAt("gcFiles")
    /\ \/ Unlinked("final", maint.cur) /\ UNCHANGED maint
       \/ Removed("final", maint.cur) /\ MaintGoto("gcRow")
    /\ UNCHANGED <<dbVars, snapWriter, snapReader, spent>>

DeleteRow ==
    /\ MaintAt("gcRow")
    /\ snapRow' = [snapRow EXCEPT ![maint.cur] = "none"]
    /\ MaintGoto("gc")
    /\ UNCHANGED <<manifest, journal, published, fsVars, snapWriter, snapReader, spent>>

\* collect (retention.rs) opens one transaction that tombstones Snapshots of
\* archived Datasets (fresh), removes the files of the eligible ones, deletes
\* their rows and commits at the end.  A tombstone is eligible once the window
\* has passed: with a window of 0 in the pass that wrote it.
BeginRetention(fresh, eligible) ==
    /\ MayMaintain
    /\ fresh \subseteq Visible
    /\ eligible \subseteq Tombstoned \cup (IF RetentionWindow = 0 THEN fresh ELSE {})
    /\ maint' = [NoMaint EXCEPT !.pc = "retain", !.todo = eligible, !.fresh = fresh]
    /\ UNCHANGED <<diskVars, snapWriter, snapReader, spent>>

RetainCandidate(s) ==
    /\ MaintAt("retain")
    /\ Pick(s, "retFiles")
    /\ UNCHANGED <<diskVars, snapWriter, snapReader, spent>>

RetainFiles ==
    /\ MaintAt("retFiles")
    /\ \/ Unlinked("final", maint.cur) /\ UNCHANGED maint
       \/ /\ Removed("final", maint.cur)
          /\ maint' = [maint EXCEPT !.pc = "retain", !.gone = @ \cup {maint.cur}]
    /\ UNCHANGED <<dbVars, snapWriter, snapReader, spent>>

\* The commit, after which collect goes on with the garbage collection of
\* store.rs under the same gate.
CommitRetention ==
    /\ MaintAt("retain") /\ maint.todo = {}
    /\ snapRow' = [s \in Snapshots |->
                 IF s \in maint.gone THEN "none"
                 ELSE IF s \in maint.fresh THEN "tombstoned" ELSE snapRow[s]]
    /\ \E old \in SUBSET {s \in Snapshots : snapRow'[s] = "tombstoned"} :
         maint' = [NoMaint EXCEPT !.pc = "gc", !.todo = old]
    /\ UNCHANGED <<manifest, journal, published, fsVars, snapWriter, snapReader, spent>>

\* The operation returns: done, or at any point with an error, which rolls an
\* open retention transaction back.
EndMaintenance ==
    /\ maint # NoMaint
    /\ maint' = NoMaint
    /\ UNCHANGED <<diskVars, snapWriter, snapReader, spent>>

MaintStep ==
    \/ \E stale \in SUBSET journal : BeginRecover(stale)
    \/ \E s \in Snapshots : RecoverPublication(s) \/ CollectSnapshot(s) \/ RetainCandidate(s)
    \/ RemoveStagingResidue \/ RemoveInstalledResidue \/ DeletePublication
    \/ ScanOrphans \/ RemoveOrphan
    \/ \E old \in SUBSET Tombstoned : BeginCollect(old)
    \/ CollectFiles \/ DeleteRow
    \/ \E fresh \in SUBSET Visible, eligible \in SUBSET (Visible \cup Tombstoned) :
         BeginRetention(fresh, eligible)
    \/ RetainFiles \/ CommitRetention \/ EndMaintenance

-----------------------------------------------------------------------------
(* The death of the process, and of the machine.                           *)

Restart ==
    /\ snapWriter' = [s \in Snapshots |-> NoWriter]
    /\ snapReader' = [r \in Readers |-> NoReader]
    /\ maint' = NoMaint

Crash ==
    /\ spent.crash < MaxCrashes
    /\ spent' = [spent EXCEPT !.crash = @ + 1]
    /\ Restart
    /\ UNCHANGED diskVars

\* Directory entries that were never synced may be lost, files and renames
\* with the directory that holds them.
PowerLoss ==
    LET looseDir  == {d \in snapDir : d[1] = "staging" \/ d[2] \notin durable}
        looseFile == {f \in snapFile : f[1] = "staging" \/ f[2] \notin durable}
        back(lost) == {<<"staging", f[2], f[3]>> : f \in {g \in lost : g[1] = "final"}}
    IN  /\ spent.power < MaxPowerLosses
        /\ spent' = [spent EXCEPT !.power = @ + 1]
        /\ \E gone \in SUBSET looseDir, lost \in SUBSET looseFile :
             /\ \A f \in looseFile : <<f[1], f[2]>> \in gone => f \in lost
             /\ snapDir' = snapDir \ gone
             /\ \E again \in SUBSET back(lost) :
                  /\ \A f \in again : <<"staging", f[2]>> \in snapDir'
                  /\ snapFile' = (snapFile \ lost) \cup again
        /\ Restart
        /\ UNCHANGED <<dbVars, durable>>

StoreNext ==
    \/ \E s \in Snapshots : WriterStep(s) \/ TombstoneSnapshot(s)
    \/ \E r \in Readers, s \in Snapshots : OpenReader(r, s)
    \/ \E r \in Readers : ReadPartition(r) \/ CloseReader(r)
    \/ MaintStep \/ Crash \/ PowerLoss

StoreSpec == StoreInit /\ [][StoreNext]_storeVars

-----------------------------------------------------------------------------
(* Properties.                                                             *)

\* Rows, journals, directories and files are of their kinds, and the gate
\* admits no more publishers and readers than its limits.
StoreTypeOK ==
    /\ snapRow \in [Snapshots -> {"none", "visible", "tombstoned"}]
    /\ manifest \in [Snapshots -> 0..MaxParts]
    /\ journal \subseteq Snapshots /\ durable \subseteq Snapshots
    /\ published \subseteq Snapshots
    /\ snapDir \subseteq Areas \X Snapshots
    /\ snapFile \subseteq Areas \X Snapshots \X Parts
    /\ \A s \in Snapshots :
         /\ snapWriter[s].staged \in 0..MaxParts
         /\ snapWriter[s].moved \in 0..snapWriter[s].staged
    /\ \A r \in Readers : snapReader[r].snap \in Snapshots \cup {NoSnapshot}
    /\ Cardinality(Publishing) <= MaxPublishers
    /\ Cardinality(Reading) <= MaxReaders

\* Contract of issue 028: a visible manifest never precedes, and never
\* outlives, its partition files.  Whatever died in between, whenever the gate
\* lets readers in the final directory of a visible Snapshot holds exactly the
\* partitions its manifest lists.
VisibleComplete ==
    maint = NoMaint => \A s \in Visible :
      <<"final", s>> \in snapDir /\ FilesOf("final", s) = 0..(manifest[s] - 1)

\* A reader that opened a Snapshot can read it to its end, even when the
\* Snapshot is tombstoned under it: its guard keeps collection out.
ReadersSafe ==
    \A r \in Reading :
      \A p \in 0..(manifest[snapReader[r].snap] - 1) : <<"final", snapReader[r].snap, p>> \in snapFile

\* Nothing is lost on the file system: an installed directory always has a
\* row or a journal row that leads recovery or collection to it, as long as
\* Drop could remove what it wanted to (NoFault).
NoFault == spent.fault = 0
NoOrphanFinal ==
    NoFault => \A s \in Snapshots : <<"final", s>> \in snapDir => snapRow[s] # "none" \/ s \in journal

\* A Snapshot is in the journal or in the manifest, never in both, so recover
\* cannot take a tombstoned Snapshot for an unpublished one.
JournalExclusive == \A s \in journal : snapRow[s] = "none"

\* When recover returns, every staging directory belongs to a publication it
\* was told to leave alone, even after removals that failed; and so does every
\* unpublished final directory, unless one did (Drop deletes the journal row
\* whatever became of the directory, and nothing else leads recover to it).
RecoveryCleans ==
    MaintAt("recovered") =>
      \A s \in Snapshots \ journal :
        /\ <<"staging", s>> \notin snapDir
        /\ NoFault => (<<"final", s>> \in snapDir => snapRow[s] # "none")

\* The catalogue a reader sees through the rows and the files on disk.
Catalog == INSTANCE SnapshotCatalog WITH
    listed  <- Visible,
    content <- [s \in Snapshots |-> IF s \in Visible THEN FilesOf("final", s) ELSE {}]

\* Through crashes, recovery and collection a reader of rows and files sees
\* only steps of SnapshotCatalog: a dataset appears whole, never changes and
\* disappears whole.
ImplementsCatalog == Catalog!CatalogSpec
=============================================================================
