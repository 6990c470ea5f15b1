-------------------------- MODULE ExportPublication --------------------------
(***************************************************************************)
(* Exports (stillflow-storage/src/export.rs, driven by run_export of       *)
(* stillflow-engine/src/export.rs).  An export encodes a Snapshot into     *)
(* files staged under the store's root, renames each to a destination      *)
(* outside of it, and makes them an export by inserting a manifest row.    *)
(* Before a destination is touched it is journaled, so that recovery can   *)
(* remove what an interrupted export left.                                 *)
(*                                                                         *)
(* A path is <<destination>> (the file of a single-file export, the        *)
(* directory of a set) or <<destination, part>>; what is at a path is the  *)
(* identity of the export that put it there.  A file is one buffer long.   *)
(***************************************************************************)
EXTENDS Integers, Sequences, FiniteSets

CONSTANTS
    Exports,            \* export identities
    SharedDestination,  \* whether all exports name the same destination
    ExpParts,           \* files of a partitioned set (MAX_EXPORT_PARTITIONS)
    StagingLimit,       \* max_export_staging_bytes, in buffers
    MaxExportCrashes,   \* bound: deaths of the process
    MaxExportTries      \* bound: begin_export calls

ASSUME ExportAssumption ==
    /\ IsFiniteSet(Exports) /\ SharedDestination \in BOOLEAN
    /\ {ExpParts, StagingLimit, MaxExportTries} \subseteq Nat \ {0}
    /\ MaxExportCrashes \in Nat

VARIABLES
    expPub,       \* export_publications: the exports begun and not settled
    expManifest,  \* export_manifests: export -> the paths of its files
    expTomb,      \* export_tombstones
    expJournal,   \* export_journal: <<export, path>>
    expStaging,   \* staging directories
    expTree,      \* what exists outside the root: <<path, export>>
    expWriter,    \* per export: its ExportWriter and its one staged file
    expBytes,     \* StoreInner.export_staging_bytes
    expMaint,     \* recovery or collection in progress
    expSpent

expRows == <<expPub, expManifest, expTomb, expJournal>>
expVars == <<expRows, expStaging, expTree, expWriter, expBytes, expMaint, expSpent>>

DestinationOf(e) == IF SharedDestination THEN "d" ELSE e
NoExport == [pc |-> "none", set |-> FALSE, parts |-> 0, target |-> <<>>, bytes |-> 0]
NoExportMaint == [op |-> "none"]
Exists(path) == \E t \in expTree : t[1] = path
ExportBusy == {e \in Exports : expWriter[e].pc # "none"}
ExportClaimed(e) == e \in expPub \/ expManifest[e] # {} \/ e \in expTomb

ExportInit ==
    /\ expPub = {} /\ expTomb = {} /\ expJournal = {} /\ expStaging = {} /\ expTree = {}
    /\ expManifest = [e \in Exports |-> {}]
    /\ expWriter = [e \in Exports |-> NoExport]
    /\ expBytes = 0
    /\ expMaint = NoExportMaint
    /\ expSpent = [crash |-> 0, tries |-> 0]

ExpGoto(e, label) == expWriter' = [expWriter EXCEPT ![e].pc = label]

-----------------------------------------------------------------------------
(* begin_export.                                                           *)

\* The publication row is inserted before anything is looked at on disk.
BeginExport(e, set) ==
    /\ expMaint = NoExportMaint /\ expWriter[e].pc = "none" /\ ~ExportClaimed(e)
    /\ expSpent.tries < MaxExportTries
    /\ expSpent' = [expSpent EXCEPT !.tries = @ + 1]
    /\ expPub' = expPub \cup {e}
    /\ expWriter' = [expWriter EXCEPT ![e] = [NoExport EXCEPT !.pc = "begun", !.set = set]]
    /\ UNCHANGED <<expManifest, expTomb, expJournal, expStaging, expTree, expBytes, expMaint>>

\* The destination and the staging directory must be free; otherwise the row
\* is taken back.
CreateExportStaging(e) ==
    /\ expWriter[e].pc = "begun"
    /\ IF Exists(<<DestinationOf(e)>>) \/ e \in expStaging
       THEN /\ expPub' = expPub \ {e}
            /\ expWriter' = [expWriter EXCEPT ![e] = NoExport]
            /\ UNCHANGED expStaging
       ELSE /\ expStaging' = expStaging \cup {e} /\ ExpGoto(e, "open")
            /\ UNCHANGED expPub
    /\ UNCHANGED <<expManifest, expTomb, expJournal, expTree, expBytes, expMaint, expSpent>>

-----------------------------------------------------------------------------
(* encode_stream: create_staged_file, write_bytes, install_staged_file.    *)

\* A single-file export has one staged file, a set one per batch.
CreateStagedFile(e) ==
    LET w == expWriter[e] IN
    /\ w.pc = "open" /\ w.parts < (IF w.set THEN ExpParts ELSE 1)
    /\ ExpGoto(e, "staged")
    /\ UNCHANGED <<expRows, expStaging, expTree, expBytes, expMaint, expSpent>>

\* account_export_staging adds to the shared counter, and takes it back when
\* that passes the limit.  The mutant keeps what it added.
AccountedKept(e, room) ==
    /\ expBytes' = expBytes + 1
    /\ expWriter' = IF room THEN [expWriter EXCEPT ![e].bytes = @ + 1]
                    ELSE [expWriter EXCEPT ![e].pc = "drop"]
AccountStaging(e, room) ==
    /\ expBytes' = IF room THEN expBytes + 1 ELSE expBytes
    /\ expWriter' = IF room THEN [expWriter EXCEPT ![e].bytes = @ + 1]
                    ELSE [expWriter EXCEPT ![e].pc = "drop"]
WriteBuffer(e) ==
    /\ expWriter[e].pc = "staged" /\ expWriter[e].bytes = 0
    /\ AccountStaging(e, expBytes + 1 <= StagingLimit)
    /\ UNCHANGED <<expRows, expStaging, expTree, expMaint, expSpent>>

\* Dropping the writer or the staged file before install (a cancelled or
\* expired context, a value that cannot be encoded).
FailExport(e) ==
    /\ expWriter[e].pc \in {"open", "staged"}
    /\ ExpGoto(e, "drop")
    /\ UNCHANGED <<expRows, expStaging, expTree, expBytes, expMaint, expSpent>>

\* install_inner journals the destination before it looks at it.  The mutant
\* journals nothing.
JournalNothing(e, paths) == UNCHANGED expJournal
JournalExportInstall(e, paths) == expJournal' = expJournal \cup ({e} \X paths)
StartInstall(e) ==
    LET w == expWriter[e]
        target == IF w.set THEN <<DestinationOf(e), w.parts>> ELSE <<DestinationOf(e)>>
    IN /\ w.pc = "staged" /\ w.bytes > 0
       /\ JournalExportInstall(e, {target})
       /\ expWriter' = [expWriter EXCEPT ![e].target = target,
                                         ![e].pc = IF w.set /\ w.parts = 0 THEN "checkSet" ELSE "check"]
       /\ UNCHANGED <<expPub, expManifest, expTomb, expStaging, expTree, expBytes, expMaint, expSpent>>

\* The directory of a set: must not exist, is journaled, is created exclusively.
CheckSet(e) ==
    /\ expWriter[e].pc = "checkSet"
    /\ IF Exists(<<DestinationOf(e)>>)
       THEN ExpGoto(e, "drop") /\ UNCHANGED expJournal
       ELSE ExpGoto(e, "makeSet") /\ JournalExportInstall(e, {<<DestinationOf(e)>>})
    /\ UNCHANGED <<expPub, expManifest, expTomb, expStaging, expTree, expBytes, expMaint, expSpent>>
MakeSet(e) ==
    /\ expWriter[e].pc = "makeSet"
    /\ IF Exists(<<DestinationOf(e)>>) THEN ExpGoto(e, "drop") /\ UNCHANGED expTree
       ELSE ExpGoto(e, "check") /\ expTree' = expTree \cup {<<<<DestinationOf(e)>>, e>>}
    /\ UNCHANGED <<expRows, expStaging, expBytes, expMaint, expSpent>>

CheckTarget(e) ==
    /\ expWriter[e].pc = "check"
    /\ ExpGoto(e, IF Exists(expWriter[e].target) THEN "drop" ELSE "rename")
    /\ UNCHANGED <<expRows, expStaging, expTree, expBytes, expMaint, expSpent>>

\* release_accounting, by install and by Drop of the staged file.
ReleaseAccounting(e) == expBytes' = expBytes - expWriter[e].bytes

\* fs::rename replaces what another export put there since the check.
RenameStaged(e) ==
    LET w == expWriter[e] IN
    /\ w.pc = "rename"
    /\ expTree' = {t \in expTree : t[1] # w.target} \cup {<<w.target, e>>}
    /\ ReleaseAccounting(e)
    /\ expWriter' = [expWriter EXCEPT ![e] = [w EXCEPT !.pc = "open", !.parts = w.parts + 1, !.bytes = 0]]
    /\ UNCHANGED <<expRows, expStaging, expMaint, expSpent>>

-----------------------------------------------------------------------------
(* commit, and Drop of a writer that did not.                              *)

\* The records pushed by install_inner.  The mutant lists a file too many.
InstalledPathsOffByOne(e) ==
    IF expWriter[e].set THEN {<<DestinationOf(e), n>> : n \in 0..expWriter[e].parts}
    ELSE {<<DestinationOf(e)>>}
InstalledPaths(e) ==
    IF expWriter[e].set THEN {<<DestinationOf(e), n>> : n \in 0..(expWriter[e].parts - 1)}
    ELSE {<<DestinationOf(e)>>}

\* One transaction: the publication row must be there; manifest in, publication
\* and journal rows out. 
SettleManifest(e) ==
    /\ expManifest' = [expManifest EXCEPT ![e] = InstalledPaths(e)]
    /\ expPub' = expPub \ {e}
    /\ expJournal' = {j \in expJournal : j[1] # e}
CommitExport(e) ==
    /\ expWriter[e].pc = "open" /\ expWriter[e].parts > 0
    /\ e \in expPub
    /\ SettleManifest(e)
    /\ ExpGoto(e, "committed")
    /\ UNCHANGED <<expTomb, expStaging, expTree, expBytes, expMaint, expSpent>>
CleanExport(e) ==
    /\ expWriter[e].pc = "committed"
    /\ expStaging' = expStaging \ {e}
    /\ expWriter' = [expWriter EXCEPT ![e] = NoExport]
    /\ UNCHANGED <<expRows, expTree, expBytes, expMaint, expSpent>>

\* The staged file releases its bytes, then staging and the publication row go;
\* what was installed and its journal rows stay for recovery.
DropStaging(e) ==
    /\ expWriter[e].pc = "drop"
    /\ ReleaseAccounting(e)
    /\ expStaging' = expStaging \ {e}
    /\ expWriter' = [expWriter EXCEPT ![e].pc = "unpublish", ![e].bytes = 0]
    /\ UNCHANGED <<expRows, expTree, expMaint, expSpent>>
DropPublication(e) ==
    /\ expWriter[e].pc = "unpublish"
    /\ expPub' = expPub \ {e}
    /\ expWriter' = [expWriter EXCEPT ![e] = NoExport]
    /\ UNCHANGED <<expManifest, expTomb, expJournal, expStaging, expTree, expBytes, expMaint, expSpent>>

\* tombstone_export holds no writer's permit.
TombstoneExport(e) ==
    /\ expMaint = NoExportMaint /\ expManifest[e] # {}
    /\ expManifest' = [expManifest EXCEPT ![e] = {}]
    /\ expTomb' = expTomb \cup {e}
    /\ UNCHANGED <<expPub, expJournal, expStaging, expTree, expWriter, expBytes, expMaint, expSpent>>

CrashExports ==
    /\ expSpent.crash < MaxExportCrashes
    /\ expSpent' = [expSpent EXCEPT !.crash = @ + 1]
    /\ expWriter' = [e \in Exports |-> NoExport]
    /\ expBytes' = 0 /\ expMaint' = NoExportMaint
    /\ UNCHANGED <<expRows, expStaging, expTree>>

-----------------------------------------------------------------------------
(* recover_export_residue and collect_export_garbage, under the            *)
(* maintenance gate, which waits for every ExportPublisher permit.         *)

\* remove_destination_residue: the path and all that is below it.
Below(path) == {t \in expTree : t[1] = path \/ (Len(path) = 1 /\ t[1][1] = path[1])}

ExportMaintenance(op, e) ==
    /\ expMaint = NoExportMaint /\ ExportBusy = {}
    /\ expMaint' = [op |-> op, of |-> e, step |-> "files"]
    /\ UNCHANGED <<expRows, expStaging, expTree, expWriter, expBytes, expSpent>>

\* Stale publications; journal rows of exports nothing claims; staging
\* directories of exports nothing claims; tombstones.
RecoverStale(e)   == e \in expPub /\ ExportMaintenance("stale", e)
RecoverOrphan(e)  == (\E j \in expJournal : j[1] = e) /\ ~ExportClaimed(e) /\ ExportMaintenance("orphan", e)
RecoverStaging(e) == e \in expStaging /\ ~ExportClaimed(e) /\ ExportMaintenance("staging", e)
CollectExport(e)  == e \in expTomb /\ ExportMaintenance("collect", e)

\* The files go before the rows that name them.
RemoveResidue ==
    /\ expMaint.op # "none" /\ expMaint.step = "files"
    /\ LET e == expMaint.of
           paths == CASE expMaint.op = "collect" -> {<<DestinationOf(e)>>}
                      [] expMaint.op = "staging" \/ expManifest[e] # {} -> {}
                      [] OTHER -> {j[2] : j \in {k \in expJournal : k[1] = e}}
       IN /\ expTree' = expTree \ UNION {Below(path) : path \in paths}
          /\ expStaging' = IF expMaint.op \in {"stale", "staging"} THEN expStaging \ {e} ELSE expStaging
    /\ expMaint' = [expMaint EXCEPT !.step = "rows"]
    /\ UNCHANGED <<expRows, expWriter, expBytes, expSpent>>
RemoveResidueRows ==
    /\ expMaint.op # "none" /\ expMaint.step = "rows"
    /\ LET e == expMaint.of IN
       /\ expJournal' = IF expMaint.op \in {"stale", "orphan"} THEN {j \in expJournal : j[1] # e} ELSE expJournal
       /\ expTomb' = IF expMaint.op = "collect" THEN expTomb \ {e} ELSE expTomb
       /\ \/ expMaint.op = "stale" /\ expMaint' = [expMaint EXCEPT !.step = "publication"]
          \/ expMaint.op # "stale" /\ expMaint' = NoExportMaint
    /\ UNCHANGED <<expPub, expManifest, expStaging, expTree, expWriter, expBytes, expSpent>>
RemovePublication ==
    /\ expMaint.op # "none" /\ expMaint.step = "publication"
    /\ expPub' = expPub \ {expMaint.of}
    /\ expMaint' = NoExportMaint
    /\ UNCHANGED <<expManifest, expTomb, expJournal, expStaging, expTree, expWriter, expBytes, expSpent>>

ExportStep(e) ==
    \/ \E set \in BOOLEAN : BeginExport(e, set)
    \/ CreateExportStaging(e) \/ CreateStagedFile(e) \/ WriteBuffer(e) \/ FailExport(e)
    \/ StartInstall(e) \/ CheckSet(e) \/ MakeSet(e) \/ CheckTarget(e) \/ RenameStaged(e)
    \/ CommitExport(e) \/ CleanExport(e) \/ DropStaging(e) \/ DropPublication(e) \/ TombstoneExport(e)
    \/ RecoverStale(e) \/ RecoverOrphan(e) \/ RecoverStaging(e) \/ CollectExport(e)
ExportNext ==
    \/ \E e \in Exports : ExportStep(e)
    \/ RemoveResidue \/ RemoveResidueRows \/ RemovePublication \/ CrashExports
ExportSpec == ExportInit /\ [][ExportNext]_expVars

-----------------------------------------------------------------------------
(* Properties.                                                             *)

\* commit: the files a manifest lists are there, and are those its own export
\* encoded, whatever else was begun, died, was recovered or collected.
CommittedExportKept ==
    \A e \in Exports : \A path \in expManifest[e] : <<path, e>> \in expTree

\* recover_export_residue: "Recovery never publishes and never deletes a
\* manifest-committed artifact" (the comment on it): no step of a recovery
\* removes a file that a manifest lists.
RecoveryKeepsCommitted ==
    [][expMaint.op \in {"stale", "orphan"} =>
        \A e \in Exports : \A path \in expManifest[e] :
            <<path, e>> \in expTree => <<path, e>> \in expTree']_expVars

\* install_inner: nothing an export put at a destination is out of reach of
\* recovery and collection: a manifest, a tombstone or a journal row names it.
NoLostInstall ==
    \A t \in expTree :
        \/ expManifest[t[2]] # {} \/ t[2] \in expTomb
        \/ \E j \in expJournal : j[1] = t[2] /\ j[2][1] = t[1][1]

\* account_export_staging: the shared counter is what the live staged files
\* hold, so a refused or dropped export never eats the quota of the next, and
\* no journal row outlives the commit that settled it.
QuotaExact ==
    /\ \E n \in 0..StagingLimit : expBytes = n /\ n = Cardinality({e \in Exports : expWriter[e].bytes > 0})
    /\ \A e \in Exports : expManifest[e] # {} => \A j \in expJournal : j[1] # e
=============================================================================
