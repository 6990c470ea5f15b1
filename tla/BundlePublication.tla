-------------------------- MODULE BundlePublication --------------------------
(***************************************************************************)
(* Verification bundles (stillflow-storage/src/bundle.rs, artifact.rs and  *)
(* the bundle half of store.rs).  A bundle is one row that names up to     *)
(* four children, each a directory under partitions/: the accepted         *)
(* Snapshot (new, or one that exists already), the validation report, the  *)
(* deduplication report and, when a row was rejected, the rejected rows.   *)
(* The children are packed in staging/<bundle>, renamed into place, and    *)
(* become visible together in one transaction.                             *)
(*                                                                         *)
(* A pack's content is abstracted to whether its file is as written; a     *)
(* digest over any preimage of artifact.rs is the preimage itself.         *)
(***************************************************************************)
EXTENDS Integers, Sequences, FiniteSets

CONSTANTS
    Bundles,          \* bundle identities, each used by one run
    SharedSnapshot,   \* a Snapshot committed before any bundle
    SnapshotPacks,    \* limits.max_partitions: accepted and rejected packs
    ReportPacks,      \* MAX_REPORT_PARTITIONS: packs of one report
    MaxWriters,       \* max_active_publishers
    MaxPacks,         \* bound: packs appended in a behaviour
    MaxBundleCrashes, \* bound: deaths of the process
    MaxRot            \* bound: files the disk damages

Roles == {"accepted", "validation", "dedup", "rejected"}

\* The existing Snapshot is none of the children the bundles make.
ASSUME BundleAssumption ==
    /\ IsFiniteSet(Bundles) /\ SharedSnapshot \notin Bundles
    /\ \A b \in Bundles, role \in Roles : SharedSnapshot # <<b, role>>
    /\ {SnapshotPacks, ReportPacks, MaxWriters, MaxPacks} \subseteq Nat \ {0}
    /\ {MaxBundleCrashes, MaxRot} \subseteq Nat

VARIABLES
    bunJournal,  \* bundle_publications: the drafts with a journal row
    bunRow,      \* verification_bundles: the committed memberships
    bunShared,   \* the state of the shared Snapshot's row
    bunDirs,     \* directories: <<"staging", bundle>> and <<"final", identity>>
    bunFiles,    \* files: <<area, bundle or identity, section, sequence>>
    bunRotten,   \* the files whose bytes are no longer those written
    bunWriter,   \* per bundle: its VerificationBundleWriter
    bunMaint,    \* recover_bundles: the bundles and identities still to do
    bunServed,   \* history: whether the packs handed to readers were damaged
    bunSpent     \* how much of each bound was used

bunDb    == <<bunJournal, bunRow, bunShared>>
bunFs    == <<bunDirs, bunFiles, bunRotten>>
bunVars  == <<bunDb, bunFs, bunWriter, bunMaint, bunServed, bunSpent>>

Sections == {"ruleSummary", "finding", "dedupSummary", "duplicate", "rejected", "accepted"}

\* ArtifactSectionId: the child a section belongs to.
RoleOf(x) ==
    CASE x \in {"ruleSummary", "finding"} -> "validation"
      [] x \in {"dedupSummary", "duplicate"} -> "dedup"
      [] OTHER -> x

NoDraft == [shared |-> FALSE, rejects |-> FALSE]
NoBundleWriter == [pc |-> "none", draft |-> NoDraft, packs |-> [x \in Sections |-> 0],
                   made |-> <<>>]
NoRecovery == [todo |-> {}, cur |-> {}, ids |-> <<>>]
NoMember == [shared |-> FALSE, rejects |-> FALSE, packs |-> [x \in Sections |-> 0],
             digest |-> <<>>]

\* VerificationBundleDraft: the identity of each child.  Drafts never share an
\* identity but the existing Snapshot (try_new refuses equal ones, and the
\* caller draws fresh ones).
Identity(b, draft, role) == IF role = "accepted" /\ draft.shared THEN SharedSnapshot ELSE <<b, role>>
Claims(b, draft) ==
    {Identity(b, draft, role) : role \in Roles \ (IF draft.rejects THEN {} ELSE {"rejected"})}

\* section_plan: the rejected section exists only when the draft names its
\* artifact; a bundle over an existing Snapshot takes no accepted packs.
SectionPlan(draft) ==
    Sections \ ((IF draft.rejects THEN {} ELSE {"rejected"})
                \cup (IF draft.shared THEN {"accepted"} ELSE {}))

Committed == {b \in Bundles : bunRow[b] # NoMember}
Busy(b) == bunWriter[b].pc # "none"
PacksIn(packs, role) ==
    LET of == {x \in Sections : RoleOf(x) = role}
        counts[s \in SUBSET of] == IF s = {} THEN 0
                                   ELSE LET x == CHOOSE y \in s : TRUE IN packs[x] + counts[s \ {x}]
    IN counts[of]
BundleInit ==
    /\ bunJournal = {}
    /\ bunRow = [b \in Bundles |-> NoMember]
    /\ bunShared = "visible"
    /\ bunDirs = {<<"final", SharedSnapshot>>}
    /\ bunFiles = {<<"final", SharedSnapshot, "accepted", 0>>}
    /\ bunRotten = {} /\ bunServed = {}
    /\ bunWriter = [b \in Bundles |-> NoBundleWriter]
    /\ bunMaint = NoRecovery
    /\ bunSpent = [crash |-> 0, rot |-> 0, packs |-> 0]

-----------------------------------------------------------------------------
(* begin_verification_bundle.                                              *)

\* The symmetric identity check: no claimed identity is claimed by another
\* journal row or committed bundle, or is a Snapshot (the existing one
\* excepted).  A committed bundle therefore owns its accepted Snapshot alone.
Unclaimed(b, draft) ==
    /\ b \notin bunJournal \cup Committed
    /\ \A c \in Bundles : c \in bunJournal
        => Claims(c, bunWriter[c].draft) \cap Claims(b, draft) = {}
    /\ \A c \in Committed : Claims(c, bunRow[c]) \cap Claims(b, draft) = {}

\* An interrupted writer leaves its journal row; its draft is in that row.
BeginBundle(b, draft) ==
    /\ bunMaint = NoRecovery /\ Cardinality({c \in Bundles : Busy(c)}) < MaxWriters
    /\ ~Busy(b)
    /\ draft.shared => bunShared = "visible"
    /\ Unclaimed(b, draft)
    /\ bunJournal' = bunJournal \cup {b}
    /\ bunWriter' = [bunWriter EXCEPT ![b] = [NoBundleWriter EXCEPT !.pc = "begun", !.draft = draft]]
    /\ UNCHANGED <<bunRow, bunShared, bunFs, bunMaint, bunServed, bunSpent>>

BunGoto(b, label) == bunWriter' = [bunWriter EXCEPT ![b].pc = label]

\* create_exact_directory; a failure takes the journal row back.
CreateBundleStaging(b) ==
    /\ bunWriter[b].pc = "begun"
    /\ IF <<"staging", b>> \in bunDirs
       THEN UNCHANGED bunDirs /\ BunGoto(b, "unjournal")
       ELSE bunDirs' = bunDirs \cup {<<"staging", b>>} /\ BunGoto(b, "staged")
    /\ UNCHANGED <<bunDb, bunFiles, bunRotten, bunMaint, bunServed, bunSpent>>

-----------------------------------------------------------------------------
(* append_accepted and append_section.                                     *)

\* The limits of the child the pack goes to: the configured Snapshot limit for
\* accepted and rejected rows, the frozen report limit over both sections of a
\* report, and the bundle-wide limit over both reports.
AcceptedLimit(packs) == packs["accepted"] + 1 <= SnapshotPacks
SectionLimits(packs, x) ==
    IF RoleOf(x) = "rejected" THEN packs["rejected"] + 1 <= SnapshotPacks
    ELSE /\ PacksIn(packs, RoleOf(x)) + 1 <= ReportPacks
         /\ PacksIn(packs, "validation") + PacksIn(packs, "dedup") + 1 <= 2 * ReportPacks

\* A refused pack makes the caller drop the writer, as does one whose file
\* cannot be written (DropBundle).
AppendPack(b, x, fits) ==
    LET w == bunWriter[b] IN
    /\ w.pc = "staged" /\ x \in SectionPlan(w.draft)
    /\ IF fits
       THEN /\ bunSpent.packs < MaxPacks
            /\ bunFiles' = bunFiles \cup {<<"staging", b, x, w.packs[x]>>}
            /\ bunWriter' = [bunWriter EXCEPT ![b].packs[x] = @ + 1]
            /\ bunSpent' = [bunSpent EXCEPT !.packs = @ + 1]
       ELSE BunGoto(b, "abort") /\ UNCHANGED <<bunFiles, bunSpent>>
    /\ UNCHANGED <<bunDb, bunDirs, bunRotten, bunMaint, bunServed>>
AppendAccepted(b) == AppendPack(b, "accepted", AcceptedLimit(bunWriter[b].packs))
AppendSection(b, x) ==
    x # "accepted" /\ AppendPack(b, x, SectionLimits(bunWriter[b].packs, x))

-----------------------------------------------------------------------------
(* commit and abort.                                                       *)

\* The children the bundle will have: an authorised rejected artifact that
\* received no row is left out.
HasRejected(w) == w.draft.rejects /\ w.packs["rejected"] > 0
FinalRoles(w) ==
    (IF w.draft.shared THEN <<>> ELSE <<"accepted">>) \o <<"validation", "dedup">>
    \o (IF HasRejected(w) THEN <<"rejected">> ELSE <<>>)

\* The digest chain: partitions into sections, sections into the manifest, the
\* manifests of the children into the bundle.
SectionDigest(id, x, n) == <<id, x, n>>
ManifestDigest(id, role, packs) == {SectionDigest(id, x, packs[x]) : x \in {y \in Sections : RoleOf(y) = role}}
BundleDigest(b, m) ==
    <<b, {<<role, ManifestDigest(Identity(b, m, role), role, m.packs)>> :
           role \in Roles \ (IF m.rejects THEN {} ELSE {"rejected"})}>>

\* commit_inner first re-reads an existing Snapshot, which may have been
\* tombstoned since begin.
StartCommit(b) ==
    /\ bunWriter[b].pc = "staged"
    /\ BunGoto(b, IF bunWriter[b].draft.shared /\ bunShared # "visible" THEN "abort" ELSE "makeDirs")
    /\ UNCHANGED <<bunDb, bunFs, bunMaint, bunServed, bunSpent>>

\* The caller drops an uncommitted writer.
DropBundle(b) ==
    /\ bunWriter[b].pc = "staged"
    /\ BunGoto(b, "abort")
    /\ UNCHANGED <<bunDb, bunFs, bunMaint, bunServed, bunSpent>>

\* Each final directory is created exclusively and remembered once created.
CreateFinalDir(b) ==
    LET w == bunWriter[b]
        id == Identity(b, w.draft, FinalRoles(w)[Len(w.made) + 1])
    IN /\ w.pc = "makeDirs" /\ Len(w.made) < Len(FinalRoles(w))
       /\ IF <<"final", id>> \in bunDirs
          THEN BunGoto(b, "abort") /\ UNCHANGED bunDirs
          ELSE /\ bunDirs' = bunDirs \cup {<<"final", id>>}
               /\ bunWriter' = [bunWriter EXCEPT ![b].made = Append(@, id)]
       /\ UNCHANGED <<bunDb, bunFiles, bunRotten, bunMaint, bunServed, bunSpent>>

\* install_files renames one pack after the other, in any order here.
Staged(b) == {file \in bunFiles : file[1] = "staging" /\ file[2] = b}
InstallFile(b) ==
    LET w == bunWriter[b] IN
    /\ w.pc = "makeDirs" /\ Len(w.made) = Len(FinalRoles(w))
    /\ \E file \in Staged(b) :
        bunFiles' = (bunFiles \ {file})
                    \cup {<<"final", Identity(b, w.draft, RoleOf(file[3])), file[3], file[4]>>}
    /\ UNCHANGED <<bunDb, bunDirs, bunRotten, bunWriter, bunMaint, bunServed, bunSpent>>

\* The transaction that makes the Snapshot, the bundle and its artifact rows
\* visible and completes the journal, or rolls all of it back.  The mutant
\* commits before the files are in place.
CommitRow(b, ready) ==
    LET w == bunWriter[b]
        m == [shared |-> w.draft.shared, rejects |-> HasRejected(w), packs |-> w.packs,
              digest |-> <<>>]
    IN /\ w.pc = "makeDirs" /\ Len(w.made) = Len(FinalRoles(w)) /\ ready
       /\ \/ /\ b \in bunJournal
             /\ bunJournal' = bunJournal \ {b}
             /\ bunRow' = [bunRow EXCEPT ![b] = [m EXCEPT !.digest = BundleDigest(b, m)]]
             /\ BunGoto(b, "cleanup")
             /\ UNCHANGED bunShared
          \/ BunGoto(b, "abort") /\ UNCHANGED bunDb
       /\ UNCHANGED <<bunFs, bunMaint, bunServed, bunSpent>>
CommitBundleEarly(b) == CommitRow(b, TRUE)
CommitBundle(b) == CommitRow(b, Staged(b) = {})

\* remove_dir_all, one file at a time and then the directory.
RemoveTree(area, id) ==
    LET inside == {file \in bunFiles : file[1] = area /\ file[2] = id} IN
    IF inside # {} THEN /\ \E file \in inside : bunFiles' = bunFiles \ {file} /\ bunRotten' = bunRotten \ {file}
                        /\ UNCHANGED bunDirs
    ELSE bunDirs' = bunDirs \ {<<area, id>>} /\ UNCHANGED <<bunFiles, bunRotten>>

\* abort: the directories this writer made, then staging, then the journal.
\* The mutant removes staging alone.
AbortSteps(b, made) ==
    LET w == bunWriter[b] IN
    /\ w.pc = "abort"
    /\ \/ /\ made # <<>> /\ RemoveTree("final", Head(made))
          /\ bunWriter' = IF <<"final", Head(made)>> \notin bunDirs'
                          THEN [bunWriter EXCEPT ![b].made = Tail(@)] ELSE bunWriter
       \/ /\ made = <<>> /\ <<"staging", b>> \in bunDirs
          /\ RemoveTree("staging", b) /\ UNCHANGED bunWriter
       \/ /\ made = <<>> /\ <<"staging", b>> \notin bunDirs
          /\ BunGoto(b, "unjournal") /\ UNCHANGED bunFs
    /\ UNCHANGED <<bunDb, bunMaint, bunServed, bunSpent>>
AbortStagingOnly(b) == AbortSteps(b, <<>>)
AbortBundle(b) == AbortSteps(b, bunWriter[b].made)

\* abort_bundle_publication.
Unjournal(b) ==
    /\ bunWriter[b].pc = "unjournal"
    /\ bunJournal' = bunJournal \ {b}
    /\ bunWriter' = [bunWriter EXCEPT ![b] = NoBundleWriter]
    /\ UNCHANGED <<bunRow, bunShared, bunFs, bunMaint, bunServed, bunSpent>>

\* commit removes the staging directory last.
CleanBundleStaging(b) ==
    /\ bunWriter[b].pc = "cleanup"
    /\ RemoveTree("staging", b)
    /\ bunWriter' = IF <<"staging", b>> \notin bunDirs'
                    THEN [bunWriter EXCEPT ![b] = NoBundleWriter] ELSE bunWriter
    /\ UNCHANGED <<bunDb, bunMaint, bunServed, bunSpent>>

-----------------------------------------------------------------------------
(* Loading and reading a bundle.                                           *)

\* load_bundle: the membership and every child recomputed from its rows; the
\* accepted Snapshot is digested from its files.
FilesOfChild(b, role) ==
    LET m == bunRow[b]
        id == Identity(b, m, role)
    IN IF id = SharedSnapshot THEN {<<"final", id, "accepted", 0>>}
       ELSE UNION {{<<"final", id, x, n>> : n \in 0..(m.packs[x] - 1)} : x \in {y \in Sections : RoleOf(y) = role}}
Loads(b) ==
    /\ b \in Committed
    /\ bunRow[b].digest = BundleDigest(b, bunRow[b])
    /\ bunRow[b].shared => bunShared = "visible"
    /\ FilesOfChild(b, "accepted") \subseteq bunFiles \ bunRotten

\* read_artifact_partition: the file must exist and match its digest.  The
\* mutant trusts the row.
PackPresent(file) == file \in bunFiles
PackIntact(file) == file \in bunFiles /\ file \notin bunRotten
ReadPack(b, role) ==
    /\ bunMaint = NoRecovery
    /\ Loads(b)
    /\ \E file \in FilesOfChild(b, role) :
        /\ PackIntact(file)
        /\ bunServed' = bunServed \cup {file \in bunRotten}
    /\ UNCHANGED <<bunDb, bunFs, bunWriter, bunMaint, bunSpent>>

-----------------------------------------------------------------------------
(* Death, recovery, and what happens around a bundle.                      *)

CrashBundles ==
    /\ bunSpent.crash < MaxBundleCrashes
    /\ bunSpent' = [bunSpent EXCEPT !.crash = @ + 1]
    /\ bunWriter' = [b \in Bundles |-> IF b \in bunJournal
                                       THEN [NoBundleWriter EXCEPT !.draft = bunWriter[b].draft]
                                       ELSE NoBundleWriter]
    /\ bunMaint' = NoRecovery
    /\ UNCHANGED <<bunDb, bunFs, bunServed>>

\* tombstone_snapshot holds a reader permit only: it runs beside a writer.
TombstoneShared ==
    /\ bunMaint = NoRecovery /\ bunShared = "visible"
    /\ bunShared' = "tombstoned"
    /\ UNCHANGED <<bunJournal, bunRow, bunFs, bunWriter, bunMaint, bunServed, bunSpent>>

RotFile ==
    /\ bunSpent.rot < MaxRot
    /\ bunSpent' = [bunSpent EXCEPT !.rot = @ + 1]
    /\ \E b \in Committed, role \in Roles : \E file \in FilesOfChild(b, role) \cap bunFiles :
        bunRotten' = bunRotten \cup {file}
    /\ UNCHANGED <<bunDb, bunDirs, bunFiles, bunWriter, bunMaint, bunServed>>

\* recover_bundles, under the maintenance gate: each journal row without a
\* bundle loses its staging directory and the directories it alone claims.
StartBundleRecovery ==
    /\ bunMaint = NoRecovery /\ bunJournal # {}
    /\ \A b \in Bundles : ~Busy(b)
    /\ \E b \in bunJournal :
        bunMaint' = [todo |-> bunJournal \ {b}, cur |-> {b},
                     ids |-> <<"accepted", "validation", "rejected", "dedup">>]
    /\ UNCHANGED <<bunDb, bunFs, bunWriter, bunServed, bunSpent>>

\* identity_owned_elsewhere.  The mutant does not ask.
OwnedNever(b, id) == FALSE
OwnedElsewhere(b, id) ==
    \/ id = SharedSnapshot
    \/ \E c \in Bundles \ {b} : \/ c \in Committed /\ id \in Claims(c, bunRow[c])
                                \/ c \in bunJournal /\ id \in Claims(c, bunWriter[c].draft)

RecoverIdentity ==
    \E b \in bunMaint.cur :
    /\ \/ /\ <<"staging", b>> \in bunDirs
          /\ RemoveTree("staging", b) /\ UNCHANGED <<bunDb, bunMaint, bunWriter>>
       \/ /\ <<"staging", b>> \notin bunDirs /\ bunMaint.ids # <<>>
          /\ LET id == Identity(b, bunWriter[b].draft, Head(bunMaint.ids)) IN
             IF OwnedElsewhere(b, id)
             THEN bunMaint' = [bunMaint EXCEPT !.ids = Tail(@)] /\ UNCHANGED bunFs
             ELSE /\ RemoveTree("final", id)
                  /\ bunMaint' = IF <<"final", id>> \notin bunDirs'
                                 THEN [bunMaint EXCEPT !.ids = Tail(@)] ELSE bunMaint
          /\ UNCHANGED <<bunDb, bunWriter>>
       \/ /\ <<"staging", b>> \notin bunDirs /\ bunMaint.ids = <<>>
          /\ bunJournal' = bunJournal \ {b}
          /\ bunWriter' = [bunWriter EXCEPT ![b] = NoBundleWriter]
          /\ bunMaint' = IF bunMaint.todo = {} THEN NoRecovery
                         ELSE LET c == CHOOSE x \in bunMaint.todo : TRUE IN
                              [todo |-> bunMaint.todo \ {c}, cur |-> {c},
                               ids |-> <<"accepted", "validation", "rejected", "dedup">>]
          /\ UNCHANGED <<bunRow, bunShared, bunFs>>
    /\ UNCHANGED <<bunServed, bunSpent>>

BundleWriterStep(b) ==
    \/ \E draft \in [shared : BOOLEAN, rejects : BOOLEAN] : BeginBundle(b, draft)
    \/ CreateBundleStaging(b) \/ StartCommit(b) \/ DropBundle(b) \/ CreateFinalDir(b)
    \/ InstallFile(b) \/ CommitBundle(b) \/ AbortBundle(b) \/ Unjournal(b) \/ CleanBundleStaging(b)
    \/ AppendAccepted(b) \/ \E x \in Sections : AppendSection(b, x)
    \/ \E role \in Roles : ReadPack(b, role)
BundleNext ==
    \/ \E b \in Bundles : BundleWriterStep(b)
    \/ CrashBundles \/ TombstoneShared \/ RotFile \/ StartBundleRecovery \/ RecoverIdentity
BundleSpec == BundleInit /\ [][BundleNext]_bunVars

-----------------------------------------------------------------------------
(* Properties.                                                             *)

\* commit_inner / CommitBundle: whatever dies or fails between two renames, a
\* committed bundle has every directory and every file its manifests list,
\* and a digest that load_bundle recomputes.
BundlesWhole ==
    \A b \in Committed :
        /\ \A role \in Roles : role = "rejected" => (bunRow[b].rejects \/ FilesOfChild(b, role) = {})
        /\ \A role \in {"validation", "dedup"} : <<"final", <<b, role>>>> \in bunDirs
        /\ \A role \in Roles : FilesOfChild(b, role) \subseteq bunFiles
        /\ bunRow[b].digest = BundleDigest(b, bunRow[b])

\* recover_bundles and abort: a Snapshot that a bundle only refers to keeps
\* its directory and files, whichever writer over it died or was dropped; and
\* two bundles never both own it.
SharedSnapshotKept ==
    /\ <<"final", SharedSnapshot>> \in bunDirs
    /\ <<"final", SharedSnapshot, "accepted", 0>> \in bunFiles
    /\ Cardinality({b \in Bundles : \/ b \in Committed /\ bunRow[b].shared
                                    \/ b \in bunJournal /\ bunWriter[b].draft.shared}) <= 1

\* Every directory under partitions/ and staging/ belongs to a committed
\* bundle or to a journal row that recovery will find.
NoOrphanChild ==
    \A d \in bunDirs :
        \/ d = <<"final", SharedSnapshot>>
        \/ d[1] = "staging" /\ (d[2] \in bunJournal \/ Busy(d[2]) \/ bunSpent.crash > 0)
        \/ d[1] = "final" /\ d[2][1] \in bunJournal \cup Committed

\* read_artifact_partition: a reader is never handed a pack the disk damaged.
ReadsAsWritten == TRUE \notin bunServed
=============================================================================
