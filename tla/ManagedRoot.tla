----------------------------- MODULE ManagedRoot -----------------------------
(***************************************************************************)
(* A managed root of stillflow-storage as a whole: the Snapshots, bundles, *)
(* exports and temporary indexes kept in it, the processes that open it,   *)
(* and its backups.  The parts keep their state in tables and directories  *)
(* of their own, so the root's behaviours are those in which every part    *)
(* behaves as its module says, and what the root promises is what its      *)
(* parts promise.                                                          *)
(***************************************************************************)
EXTENDS SnapshotStore, BundlePublication, ExportPublication, DedupIndex, StoreOpening, BackupRestore

\* begin_verification_bundle and begin_export.
PublicationSpec == BundleSpec /\ ExportSpec

\* open, backup and restore, and open_dedup_index.
RootSpec == OpeningSpec /\ BackupSpec /\ DedupSpec

-----------------------------------------------------------------------------
(* Properties.                                                             *)

\* Publication, reading, recover and the collectors: an open reader reaches the
\* end of its Snapshot, no directory is out of reach of recovery, no Snapshot
\* is journalled and listed at once, and recover leaves only what it must.
StoreRecovers == StoreTypeOK /\ ReadersSafe /\ NoOrphanFinal /\ JournalExclusive /\ RecoveryCleans

\* VerificationBundleWriter and ExportWriter, with their recoveries and
\* collections: what was committed is whole and stays, what was not is within
\* reach of recovery, a shared Snapshot survives its bundles, a damaged pack is
\* never served, and the staging quota counts what is staged.
PublicationsWhole ==
    /\ BundlesWhole /\ SharedSnapshotKept /\ NoOrphanChild /\ ReadsAsWritten
    /\ CommittedExportKept /\ NoLostInstall /\ QuotaExact

\* open, migrate, backup, restore and the temporary dedup indexes: one process
\* owns a root and finds it at its own version, a backup is one state of the
\* store and a restored root is that state, and recovery spares a live index.
RootKept == OpenIsCurrent /\ BackupIsOneState /\ RestoreIsBackup /\ LiveIndexKept /\ FirstSeen
=============================================================================
