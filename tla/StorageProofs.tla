---------------------------- MODULE StorageProofs ----------------------------
(***************************************************************************)
(* What TLAPS proves about a managed root, for every number of Snapshots,  *)
(* readers, bundles, exports, indexes, processes, crashes, power losses    *)
(* and failing removals.  Each part has an inductive invariant of its own: *)
(*                                                                         *)
(*   SnapshotStore      StoreInv: where a writer is and what that means    *)
(*                      for the row, the journal row and the directory of  *)
(*                      its Snapshot (WriterOK), what a row without a      *)
(*                      writer means for the disk (RowOK), what a reader   *)
(*                      relies on (ReaderOK), and what a maintenance       *)
(*                      operation has established (MaintSound)             *)
(*   StoreOpening       OpenInv: the lock is with who migrates or is open  *)
(*   BackupRestore      BakInv: what is staged is what the gate froze      *)
(*   DedupIndex         DedInv: files, lock and phase of every index       *)
(*   ExportPublication  ExpInv: whose the destination files are            *)
(*   BundlePublication  BunInv: whose the directories are, where the packs *)
(*                      are, and what recovery has still to remove         *)
(*                                                                         *)
(* The store also implements the catalogue of immutable datasets.          *)
(***************************************************************************)
EXTENDS ManagedRoot, SequenceTheorems, FiniteSetTheorems, TLAPS

-----------------------------------------------------------------------------
(* Snapshots.                                                              *)


WriterPcs == {"none", "begun", "open", "failed", "installing", "synced", "cleanup",
              "abortStaging", "abortFinal", "abortJournal"}
MaintPcs == {"idle", "recover", "recStaging", "recFinal", "recJournal", "orphan", "recovered",
             "gc", "gcFiles", "gcRow", "retain", "retFiles"}
WriterRows == [pc : WriterPcs, staged : 0..MaxParts, moved : 0..MaxParts, installed : BOOLEAN]
ReaderRows == [snap : Snapshots \cup {NoSnapshot}, next : Nat]
MaintRows == [pc : MaintPcs, todo : SUBSET Snapshots, cur : Snapshots \cup {NoSnapshot},
              fresh : SUBSET Snapshots, gone : SUBSET Snapshots]

StTyped ==
    /\ snapRow \in [Snapshots -> {"none", "visible", "tombstoned"}]
    /\ manifest \in [Snapshots -> 0..MaxParts]
    /\ journal \subseteq Snapshots /\ durable \subseteq Snapshots /\ published \subseteq Snapshots
    /\ snapDir \subseteq Areas \X Snapshots
    /\ snapFile \subseteq Areas \X Snapshots \X Parts
    /\ snapWriter \in [Snapshots -> WriterRows]
    /\ snapReader \in [Readers -> ReaderRows]
    /\ maint \in MaintRows
    /\ spent \in [crash : Nat, power : Nat, fault : Nat]

\* A file is in a directory.
FileHomes == \A a \in Areas, s \in Snapshots, p \in Parts : <<a, s, p>> \in snapFile => <<a, s>> \in snapDir

HasFinal(s) == <<"final", s>> \in snapDir
Whole(s) == HasFinal(s) /\ FilesOf("final", s) = 0..(manifest[s] - 1)

\* Where a writer is, and what that means for the disk.  A writer that has not
\* created the final directory knows that there is none, unless a removal failed.
WriterOK(s) ==
    LET w == snapWriter[s] IN
    /\ w.moved <= w.staged
    /\ w.pc \in {"none", "begun"} => w.staged = 0
    /\ w.pc \in {"none", "begun", "open", "failed"} => w.moved = 0 /\ ~w.installed
    /\ w.pc = "open" => <<"staging", s>> \in snapDir
    /\ w.pc \notin {"none", "cleanup"} => s \in journal /\ snapRow[s] = "none"
    /\ w.pc \in {"installing", "synced"} => w.installed /\ HasFinal(s) /\ FilesOf("final", s) = 0..(w.moved - 1)
    /\ w.pc = "synced" => w.moved = w.staged /\ s \in durable
    /\ NoFault => /\ w.pc \in {"begun", "open", "failed", "abortJournal"} => ~HasFinal(s)
                  /\ w.pc = "abortStaging" /\ ~w.installed => ~HasFinal(s)

RowOK(s) ==
    /\ s \in journal => snapRow[s] = "none"
    /\ NoFault /\ HasFinal(s) => snapRow[s] # "none" \/ s \in journal
    /\ RetentionWindow # 0 /\ snapRow[s] = "visible" => Whole(s) /\ s \in durable

\* What an open reader was promised.
ReaderOK(r) ==
    snapReader[r] # NoReader =>
        /\ snapReader[r].snap \in Snapshots
        /\ RetentionWindow # 0 => snapRow[snapReader[r].snap] # "none" /\ Whole(snapReader[r].snap)

\* The gate: maintenance excludes publishers and readers, and their limits.
GateSound ==
    /\ maint.pc = "idle" => maint = NoMaint
    /\ maint.pc # "idle" => /\ \A s \in Snapshots : snapWriter[s].pc = "none"
                            /\ \A r \in Readers : snapReader[r] = NoReader
    /\ Cardinality(Publishing) <= MaxPublishers
    /\ Cardinality(Reading) <= MaxReaders

\* The Snapshots a retention pass may delete: tombstones, and with a window of
\* 0 also those it is about to tombstone.
Doomed == Tombstoned \cup (IF RetentionWindow = 0 THEN maint.fresh ELSE {})

MaintSound ==
    /\ maint.pc \in {"recStaging", "recFinal", "recJournal", "orphan", "gcFiles", "gcRow", "retFiles"} =>
         maint.cur \in Snapshots
    /\ maint.pc = "recFinal" => snapRow[maint.cur] # "visible"
    /\ maint.pc = "recJournal" => snapRow[maint.cur] = "visible" \/ ~HasFinal(maint.cur)
    /\ maint.pc = "recovered" => Orphans = {}
    /\ maint.pc \in {"gc", "gcFiles", "gcRow"} => \A s \in maint.todo : snapRow[s] = "tombstoned"
    /\ maint.pc \in {"gcFiles", "gcRow"} => snapRow[maint.cur] = "tombstoned" /\ maint.cur \notin maint.todo
    /\ maint.pc = "gcRow" => ~HasFinal(maint.cur)
    /\ maint.pc \in {"retain", "retFiles"} =>
         /\ \A s \in maint.fresh : snapRow[s] = "visible"
         /\ maint.todo \subseteq Doomed /\ maint.gone \subseteq Doomed
         /\ \A s \in maint.gone : ~HasFinal(s)
    /\ maint.pc = "retFiles" => maint.cur \in Doomed

StoreInv ==
    /\ StTyped /\ FileHomes /\ GateSound /\ MaintSound
    /\ \A s \in Snapshots : WriterOK(s) /\ RowOK(s)
    /\ \A r \in Readers : ReaderOK(r)

-----------------------------------------------------------------------------
LEMMA ConstantsTyped ==
    /\ MaxParts \in Nat \ {0} /\ MaxPublishers \in Nat \ {0} /\ MaxReaders \in Nat \ {0}
    /\ RetentionWindow \in Nat /\ NoSnapshot \notin Snapshots
    /\ IsFiniteSet(Snapshots) /\ IsFiniteSet(Readers)
BY SnapshotStoreAssumption DEF SnapshotStoreAssumption

\* The invariant implies what the runs check.
LEMMA StoreInvImplies ==
    ASSUME StoreInv
    PROVE  /\ StoreTypeOK /\ JournalExclusive /\ NoOrphanFinal /\ RecoveryCleans
           /\ RetentionWindow # 0 => VisibleComplete /\ ReadersSafe
<1>1. StoreTypeOK
  <2>1. \A s \in Snapshots : snapWriter[s].staged \in 0..MaxParts /\ snapWriter[s].moved \in 0..snapWriter[s].staged
    <3> SUFFICES ASSUME NEW s \in Snapshots
                 PROVE  snapWriter[s].staged \in 0..MaxParts /\ snapWriter[s].moved \in 0..snapWriter[s].staged
        OBVIOUS
    <3>1. snapWriter[s] \in WriterRows /\ snapWriter[s].moved <= snapWriter[s].staged
      BY DEF StoreInv, StTyped, WriterOK
    <3> QED BY <3>1, ConstantsTyped DEF WriterRows
  <2>2. \A r \in Readers : snapReader[r].snap \in Snapshots \cup {NoSnapshot}
    BY DEF StoreInv, StTyped, ReaderRows
  <2> QED BY <2>1, <2>2 DEF StoreInv, StTyped, StoreTypeOK, GateSound
<1>2. JournalExclusive
  BY DEF StoreInv, StTyped, RowOK, JournalExclusive
<1>3. NoOrphanFinal
  BY DEF StoreInv, RowOK, NoOrphanFinal, HasFinal
<1>4. RecoveryCleans
  BY <1>3 DEF StoreInv, MaintSound, Orphans, RecoveryCleans, MaintAt, NoOrphanFinal
<1>5. ASSUME RetentionWindow # 0 PROVE VisibleComplete
  BY <1>5 DEF StoreInv, RowOK, Whole, HasFinal, VisibleComplete, Visible
<1>6. ASSUME RetentionWindow # 0 PROVE ReadersSafe
  <2> SUFFICES ASSUME NEW r \in Reading, NEW p \in 0..(manifest[snapReader[r].snap] - 1)
               PROVE  <<"final", snapReader[r].snap, p>> \in snapFile
      BY DEF ReadersSafe
  <2>1. Whole(snapReader[r].snap)
    BY <1>6 DEF StoreInv, ReaderOK, Reading
  <2> QED BY <2>1 DEF Whole, FilesOf
<1> QED BY <1>1, <1>2, <1>3, <1>4, <1>5, <1>6

LEMMA StoreInvInit == StoreInit => StoreInv
<1> SUFFICES ASSUME StoreInit PROVE StoreInv
    OBVIOUS
<1>0. /\ snapRow = [s \in Snapshots |-> "none"] /\ manifest = [s \in Snapshots |-> 0]
      /\ journal = {} /\ snapDir = {} /\ snapFile = {} /\ durable = {} /\ published = {}
      /\ snapWriter = [s \in Snapshots |-> NoWriter] /\ snapReader = [r \in Readers |-> NoReader]
      /\ maint = NoMaint /\ spent = [crash |-> 0, power |-> 0, fault |-> 0]
  BY DEF StoreInit
<1>1. NoWriter \in WriterRows /\ NoReader \in ReaderRows /\ NoMaint \in MaintRows
  BY ConstantsTyped DEF NoWriter, WriterRows, WriterPcs, NoReader, ReaderRows, NoMaint, MaintRows, MaintPcs
<1>2. StTyped
  BY <1>0, <1>1, ConstantsTyped DEF StTyped
<1>3. FileHomes /\ MaintSound
  BY <1>0 DEF FileHomes, MaintSound, NoMaint
<1>4. Publishing = {} /\ Reading = {}
  BY <1>0 DEF Publishing, Reading, NoWriter
<1>5. GateSound
  BY <1>0, <1>4, FS_EmptySet, ConstantsTyped DEF GateSound, NoMaint
<1>6. \A s \in Snapshots : WriterOK(s) /\ RowOK(s)
  BY <1>0 DEF WriterOK, RowOK, NoWriter, HasFinal
<1>7. \A r \in Readers : ReaderOK(r)
  BY <1>0 DEF ReaderOK
<1> QED BY <1>2, <1>3, <1>5, <1>6, <1>7 DEF StoreInv

-----------------------------------------------------------------------------
(* A step of one writer.                                                   *)

DiskSame(t) ==
    /\ HasFinal(t)' <=> HasFinal(t)
    /\ FilesOf("final", t)' = FilesOf("final", t)
    /\ <<"staging", t>> \in snapDir => <<"staging", t>> \in snapDir'

\* What is known of a Snapshot depends on nothing but its own rows, its own
\* final directory and whether a removal ever failed.
LEMMA OtherSnapshotsKept ==
    ASSUME NEW t \in Snapshots, WriterOK(t), RowOK(t), DiskSame(t),
           snapWriter'[t] = snapWriter[t], snapRow'[t] = snapRow[t], manifest'[t] = manifest[t],
           t \in journal' <=> t \in journal, t \in durable => t \in durable', NoFault' => NoFault
    PROVE  WriterOK(t)' /\ RowOK(t)'
<1>1. WriterOK(t)'
  BY DEF WriterOK, DiskSame
<1>2. RowOK(t)'
  BY DEF RowOK, DiskSame, Whole
<1> QED BY <1>1, <1>2

\* A writer that is at work excludes maintenance.
LEMMA WriterExcludes ==
    ASSUME StoreInv, NEW s \in Snapshots, snapWriter[s].pc # "none"
    PROVE  maint = NoMaint /\ maint.pc = "idle"
BY DEF StoreInv, GateSound, NoMaint

\* A step of the writer of s preserves the invariant, if it leaves alone what
\* belongs to the others and re-establishes what the invariant says of s.
LEMMA WriterStepKeeps ==
    ASSUME StoreInv, NEW s \in Snapshots, maint = NoMaint, UNCHANGED <<snapReader, maint>>,
           StTyped', FileHomes', NoFault' => NoFault,
           \A t \in Snapshots \ {s} :
             /\ DiskSame(t) /\ snapWriter'[t] = snapWriter[t] /\ snapRow'[t] = snapRow[t]
             /\ manifest'[t] = manifest[t] /\ (t \in journal' <=> t \in journal)
             /\ (t \in durable => t \in durable'),
           WriterOK(s)', RowOK(s)',
           Cardinality(Publishing') <= MaxPublishers,
           snapRow[s] # "none" => snapRow'[s] # "none" /\ (Whole(s) => Whole(s)')
    PROVE  StoreInv'
<1>1. \A t \in Snapshots : WriterOK(t)' /\ RowOK(t)'
  <2> SUFFICES ASSUME NEW t \in Snapshots \ {s} PROVE WriterOK(t)' /\ RowOK(t)'
      OBVIOUS
  <2>1. WriterOK(t) /\ RowOK(t)
    BY DEF StoreInv
  <2> QED BY <2>1, OtherSnapshotsKept
<1>2. \A r \in Readers : ReaderOK(r)'
  <2> SUFFICES ASSUME NEW r \in Readers, snapReader[r] # NoReader PROVE ReaderOK(r)'
      BY DEF ReaderOK
  <2> DEFINE t == snapReader[r].snap
  <2>1. t \in Snapshots /\ (RetentionWindow # 0 => snapRow[t] # "none" /\ Whole(t))
    BY DEF StoreInv, ReaderOK
  <2>2. t # s => (Whole(t) => Whole(t)') /\ snapRow'[t] = snapRow[t]
    BY <2>1 DEF DiskSame, Whole
  <2>3. snapReader'[r].snap = t
    OBVIOUS
  <2>4. RetentionWindow # 0 => snapRow'[t] # "none" /\ Whole(t)'
    BY <2>1, <2>2
  <2> QED BY <2>1, <2>3, <2>4 DEF ReaderOK
<1>3. GateSound'
  BY DEF StoreInv, GateSound, NoMaint, Reading
<1>4. MaintSound'
  BY DEF MaintSound, NoMaint
<1> QED BY <1>1, <1>2, <1>3, <1>4 DEF StoreInv

LEMMA GotoFacts ==
    ASSUME StTyped, NEW s \in Snapshots, NEW label \in WriterPcs, WriterGoto(s, label)
    PROVE  /\ snapWriter' \in [Snapshots -> WriterRows]
           /\ \A t \in Snapshots \ {s} : snapWriter'[t] = snapWriter[t]
           /\ snapWriter'[s].pc = label /\ snapWriter'[s].staged = snapWriter[s].staged
           /\ snapWriter'[s].moved = snapWriter[s].moved /\ snapWriter'[s].installed = snapWriter[s].installed
<1> DEFINE row == [snapWriter[s] EXCEPT !.pc = label]
<1>1. snapWriter \in [Snapshots -> WriterRows] /\ snapWriter[s] \in WriterRows
  BY DEF StTyped
<1>2. /\ row \in WriterRows /\ row.pc = label /\ row.staged = snapWriter[s].staged
      /\ row.moved = snapWriter[s].moved /\ row.installed = snapWriter[s].installed
  BY <1>1 DEF WriterRows
<1>3. snapWriter' = [snapWriter EXCEPT ![s] = row]
  BY <1>1 DEF WriterGoto
<1> HIDE DEF row
<1> QED BY <1>1, <1>2, <1>3

LEMMA PublishingKept ==
    ASSUME StoreInv, NEW s \in Snapshots, snapWriter[s].pc # "none",
           \A t \in Snapshots \ {s} : snapWriter'[t] = snapWriter[t]
    PROVE  Cardinality(Publishing') <= MaxPublishers
<1>1. Publishing' \subseteq Publishing /\ Publishing \subseteq Snapshots
  BY DEF Publishing
<1>2. IsFiniteSet(Publishing) /\ Cardinality(Publishing) <= MaxPublishers
  BY <1>1, ConstantsTyped, FS_Subset DEF StoreInv, GateSound
<1>3. Cardinality(Publishing') <= Cardinality(Publishing) /\ IsFiniteSet(Publishing')
  BY <1>1, <1>2, FS_Subset
<1>4. Cardinality(Publishing') \in Nat /\ Cardinality(Publishing) \in Nat
  BY <1>2, <1>3, FS_CardinalityType
<1> QED BY <1>2, <1>3, <1>4, ConstantsTyped

\* A step that only moves the program counter of a writer at work.
LEMMA GotoKeeps ==
    ASSUME StoreInv, NEW s \in Snapshots, snapWriter[s].pc # "none", NEW label \in WriterPcs,
           WriterGoto(s, label), UNCHANGED <<diskVars, snapReader, maint, spent>>, WriterOK(s)'
    PROVE  StoreInv'
<1>0. UNCHANGED <<snapRow, manifest, journal, published, snapDir, snapFile, durable, snapReader, maint, spent>>
  BY DEF diskVars, dbVars, fsVars
<1>1. StTyped /\ FileHomes /\ RowOK(s)
  BY DEF StoreInv
<1>2. maint = NoMaint
  BY WriterExcludes
<1>3. /\ snapWriter' \in [Snapshots -> WriterRows]
      /\ \A t \in Snapshots \ {s} : snapWriter'[t] = snapWriter[t]
  BY <1>1, GotoFacts
<1>4. StTyped' /\ FileHomes'
  BY <1>0, <1>1, <1>3 DEF StTyped, FileHomes
<1>5. \A t \in Snapshots : DiskSame(t)
  BY <1>0 DEF DiskSame, HasFinal, FilesOf
<1>6. RowOK(s)' /\ (NoFault' => NoFault) /\ (Whole(s) => Whole(s)')
  BY <1>0, <1>1 DEF RowOK, NoFault, HasFinal, Whole, FilesOf
<1>7. Cardinality(Publishing') <= MaxPublishers
  BY <1>3, PublishingKept
<1> QED BY <1>0, <1>2, <1>3, <1>4, <1>5, <1>6, <1>7, WriterStepKeeps

\* begin_snapshot: no row and no journal row, so no final directory either.
LEMMA BeginKeeps == ASSUME StoreInv, NEW s \in Snapshots, BeginSnapshot(s) PROVE StoreInv'
<1>0. /\ maint = NoMaint /\ Cardinality(Publishing) < MaxPublishers /\ snapWriter[s].pc = "none"
      /\ snapRow[s] = "none" /\ s \notin journal /\ journal' = journal \cup {s} /\ WriterGoto(s, "begun")
      /\ UNCHANGED <<snapRow, manifest, published, snapDir, snapFile, durable, snapReader, maint, spent>>
  BY DEF BeginSnapshot, MayPublish, At, fsVars
<1>1. StTyped /\ FileHomes /\ RowOK(s) /\ WriterOK(s)
  BY DEF StoreInv
<1>2. /\ snapWriter' \in [Snapshots -> WriterRows]
      /\ \A t \in Snapshots \ {s} : snapWriter'[t] = snapWriter[t]
      /\ snapWriter'[s].pc = "begun" /\ snapWriter'[s].staged = snapWriter[s].staged
      /\ snapWriter'[s].moved = snapWriter[s].moved /\ snapWriter'[s].installed = snapWriter[s].installed
  <2>1. "begun" \in WriterPcs
    BY DEF WriterPcs
  <2> QED BY <1>0, <1>1, <2>1, GotoFacts
<1>3. StTyped' /\ FileHomes'
  BY <1>0, <1>1, <1>2 DEF StTyped, FileHomes
<1>4. \A t \in Snapshots : DiskSame(t)
  BY <1>0 DEF DiskSame, HasFinal, FilesOf
<1>5. WriterOK(s)'
  BY <1>0, <1>1, <1>2 DEF WriterOK, RowOK, NoFault, HasFinal
<1>6. RowOK(s)' /\ (NoFault' => NoFault)
  BY <1>0, <1>1 DEF RowOK, NoFault, HasFinal
<1>7. Cardinality(Publishing') <= MaxPublishers
  <2>1. Publishing' = Publishing \cup {s} /\ Publishing \subseteq Snapshots
    BY <1>0, <1>2 DEF Publishing
  <2>2. IsFiniteSet(Publishing)
    BY <2>1, ConstantsTyped, FS_Subset
  <2>3. Cardinality(Publishing) \in Nat
    BY <2>2, FS_CardinalityType
  <2>4. Cardinality(Publishing \cup {s}) = IF s \in Publishing THEN Cardinality(Publishing)
                                           ELSE Cardinality(Publishing) + 1
    BY <2>2, FS_AddElement
  <2> QED BY <1>0, <2>1, <2>3, <2>4, ConstantsTyped
<1> QED BY <1>0, <1>2, <1>3, <1>4, <1>5, <1>6, <1>7, WriterStepKeeps

LEMMA CreateStagingKeeps == ASSUME StoreInv, NEW s \in Snapshots, CreateStaging(s) PROVE StoreInv'
<1>0. /\ snapWriter[s].pc = "begun" /\ maint = NoMaint
      /\ UNCHANGED <<snapRow, manifest, journal, published, snapFile, durable, snapReader, maint, spent>>
  BY WriterExcludes DEF CreateStaging, At, dbVars
<1>1. StTyped /\ FileHomes /\ RowOK(s) /\ WriterOK(s)
  BY DEF StoreInv
<1>2. CASE snapDir' = snapDir \cup {<<"staging", s>>} /\ WriterGoto(s, "open")
  <2>1. /\ snapWriter' \in [Snapshots -> WriterRows]
        /\ \A t \in Snapshots \ {s} : snapWriter'[t] = snapWriter[t]
        /\ snapWriter'[s].pc = "open" /\ snapWriter'[s].staged = snapWriter[s].staged
        /\ snapWriter'[s].moved = snapWriter[s].moved /\ snapWriter'[s].installed = snapWriter[s].installed
    <3>1. "open" \in WriterPcs
      BY DEF WriterPcs
    <3> QED BY <1>1, <1>2, <3>1, GotoFacts
  <2>2. StTyped'
    BY <1>0, <1>1, <1>2, <2>1 DEF StTyped, Areas
  <2>3. FileHomes'
    BY <1>0, <1>1, <1>2 DEF FileHomes
  <2>4. \A t \in Snapshots : DiskSame(t)
    BY <1>0, <1>2 DEF DiskSame, HasFinal, FilesOf
  <2>5. WriterOK(s)'
    BY <1>0, <1>1, <1>2, <2>1, <2>4 DEF WriterOK, NoFault, DiskSame
  <2>6. RowOK(s)' /\ (NoFault' => NoFault) /\ (Whole(s) => Whole(s)')
    BY <1>0, <1>1, <2>4 DEF RowOK, NoFault, Whole, DiskSame
  <2>7. Cardinality(Publishing') <= MaxPublishers
    BY <1>0, <2>1, PublishingKept
  <2> QED BY <1>0, <2>1, <2>2, <2>3, <2>4, <2>5, <2>6, <2>7, WriterStepKeeps
<1>3. CASE WriterGoto(s, "abortJournal") /\ UNCHANGED snapDir
  <2>1. "abortJournal" \in WriterPcs
    BY DEF WriterPcs
  <2>2. /\ snapWriter'[s].pc = "abortJournal" /\ snapWriter'[s].staged = snapWriter[s].staged
        /\ snapWriter'[s].moved = snapWriter[s].moved /\ snapWriter'[s].installed = snapWriter[s].installed
    BY <1>1, <1>3, <2>1, GotoFacts
  <2>3. WriterOK(s)'
    BY <1>0, <1>1, <1>3, <2>2 DEF WriterOK, NoFault, HasFinal, FilesOf
  <2>4. UNCHANGED <<diskVars, snapReader, maint, spent>>
    BY <1>0, <1>3 DEF diskVars, dbVars, fsVars
  <2> QED BY <1>0, <1>3, <2>1, <2>3, <2>4, GotoKeeps
<1> QED BY <1>2, <1>3 DEF CreateStaging

\* A writer gives up: what it installed is marked for removal.
LEMMA GiveUpKeeps ==
    ASSUME StoreInv, NEW s \in Snapshots, snapWriter[s].pc \in {"open", "failed", "installing", "synced"},
           WriterGoto(s, "abortStaging"), UNCHANGED <<diskVars, snapReader, maint, spent>>
    PROVE  StoreInv'
<1>0. UNCHANGED <<snapRow, journal, snapDir, snapFile, durable, spent>>
  BY DEF diskVars, dbVars, fsVars
<1>1. StTyped /\ WriterOK(s)
  BY DEF StoreInv
<1>2. "abortStaging" \in WriterPcs
  BY DEF WriterPcs
<1>3. /\ snapWriter'[s].pc = "abortStaging" /\ snapWriter'[s].staged = snapWriter[s].staged
      /\ snapWriter'[s].moved = snapWriter[s].moved /\ snapWriter'[s].installed = snapWriter[s].installed
  BY <1>1, <1>2, GotoFacts
<1>4. WriterOK(s)'
  BY <1>0, <1>1, <1>3 DEF WriterOK, NoFault, HasFinal
<1> QED BY <1>2, <1>4, GotoKeeps

\* append touches staging/ only.
LEMMA AppendKeeps == ASSUME StoreInv, NEW s \in Snapshots, AppendPartition(s) PROVE StoreInv'
<1> DEFINE p == snapWriter[s].staged
           w == [snapWriter[s] EXCEPT !.staged = @ + 1]
<1>0. /\ snapWriter[s].pc = "open" /\ maint = NoMaint /\ p \in Parts
      /\ UNCHANGED <<snapRow, manifest, journal, published, snapDir, durable, snapReader, maint, spent>>
  BY WriterExcludes DEF AppendPartition, At, dbVars
<1>1. StTyped /\ FileHomes /\ RowOK(s) /\ WriterOK(s) /\ snapWriter[s] \in WriterRows
  BY DEF StoreInv, StTyped
<1>2. /\ snapFile' \in {snapFile, snapFile \cup {<<"staging", s, p>>}}
      /\ snapWriter' = [snapWriter EXCEPT ![s] = w] \/ WriterGoto(s, "failed")
  BY <1>1 DEF AppendPartition, StTyped
<1>3. /\ w \in WriterRows /\ w.pc = "open" /\ w.staged = snapWriter[s].staged + 1
      /\ w.moved = snapWriter[s].moved /\ w.installed = snapWriter[s].installed
  BY <1>0, <1>1, ConstantsTyped DEF WriterRows, Parts
<1> HIDE DEF w
<1>4. /\ snapWriter' \in [Snapshots -> WriterRows]
      /\ \A t \in Snapshots \ {s} : snapWriter'[t] = snapWriter[t]
      /\ snapWriter'[s].pc \in {"open", "failed"} /\ snapWriter'[s].staged >= snapWriter[s].staged
      /\ snapWriter'[s].moved = snapWriter[s].moved /\ snapWriter'[s].installed = snapWriter[s].installed
  <2>0. snapWriter[s].staged \in Int
    BY <1>1 DEF WriterRows
  <2>1. CASE snapWriter' = [snapWriter EXCEPT ![s] = w]
    BY <1>1, <1>3, <2>0, <2>1 DEF StTyped
  <2>2. CASE WriterGoto(s, "failed")
    <3>1. "failed" \in WriterPcs
      BY DEF WriterPcs
    <3> QED BY <1>1, <2>0, <2>2, <3>1, GotoFacts
  <2> QED BY <1>2, <2>1, <2>2
<1>5. StTyped'
  BY <1>0, <1>1, <1>2, <1>4 DEF StTyped, Areas
<1>6. FileHomes'
  <2>1. <<"staging", s>> \in snapDir
    BY <1>0, <1>1 DEF WriterOK
  <2> QED BY <1>0, <1>1, <1>2, <2>1 DEF FileHomes
<1>7. \A t \in Snapshots : DiskSame(t)
  BY <1>0, <1>2 DEF DiskSame, HasFinal, FilesOf
<1>8. WriterOK(s)'
  <2>0. snapWriter'[s].moved \in Int /\ snapWriter'[s].staged \in Int /\ snapWriter[s].staged \in Int
    BY <1>1, <1>4 DEF WriterRows
  <2>1. snapWriter'[s].moved <= snapWriter'[s].staged
    BY <1>1, <1>4, <2>0 DEF WriterOK
  <2> QED BY <1>0, <1>1, <1>4, <1>7, <2>1 DEF WriterOK, NoFault, DiskSame
<1>9. RowOK(s)' /\ (NoFault' => NoFault) /\ (Whole(s) => Whole(s)')
  BY <1>0, <1>1, <1>7 DEF RowOK, NoFault, Whole, DiskSame
<1>10. Cardinality(Publishing') <= MaxPublishers
  BY <1>0, <1>4, PublishingKept
<1> QED BY <1>0, <1>4, <1>5, <1>6, <1>7, <1>8, <1>9, <1>10, WriterStepKeeps

\* create_final_snapshot_directory: a new directory holds no file.
LEMMA CreateFinalKeeps == ASSUME StoreInv, NEW s \in Snapshots, CreateFinal(s) PROVE StoreInv'
<1>0. /\ snapWriter[s].pc = "open" /\ maint = NoMaint
      /\ UNCHANGED <<snapRow, manifest, journal, published, snapFile, durable, snapReader, maint, spent>>
  BY WriterExcludes DEF CreateFinal, At, dbVars
<1>1. StTyped /\ FileHomes /\ RowOK(s) /\ WriterOK(s) /\ snapWriter[s] \in WriterRows
  BY DEF StoreInv, StTyped
<1>2. CASE /\ <<"final", s>> \notin snapDir /\ snapDir' = snapDir \cup {<<"final", s>>}
           /\ snapWriter' = [snapWriter EXCEPT ![s].pc = "installing", ![s].installed = TRUE]
  <2> DEFINE w == [[snapWriter[s] EXCEPT !.pc = "installing"] EXCEPT !.installed = TRUE]
  <2>1. /\ w \in WriterRows /\ w.pc = "installing" /\ w.staged = snapWriter[s].staged
        /\ w.moved = snapWriter[s].moved /\ w.installed
    BY <1>1 DEF WriterRows, WriterPcs
  <2>2. snapWriter' = [snapWriter EXCEPT ![s] = w]
    BY <1>1, <1>2 DEF StTyped
  <2> HIDE DEF w
  <2>3. /\ snapWriter' \in [Snapshots -> WriterRows] /\ snapWriter'[s] = w
        /\ \A t \in Snapshots \ {s} : snapWriter'[t] = snapWriter[t]
    BY <1>1, <2>1, <2>2 DEF StTyped
  <2>4. StTyped'
    BY <1>0, <1>1, <1>2, <2>3 DEF StTyped, Areas
  <2>5. FileHomes'
    BY <1>0, <1>1, <1>2 DEF FileHomes
  <2>6. \A t \in Snapshots \ {s} : DiskSame(t)
    BY <1>0, <1>2 DEF DiskSame, HasFinal, FilesOf
  <2>7. HasFinal(s)' /\ FilesOf("final", s)' = {}
    BY <1>0, <1>1, <1>2 DEF HasFinal, FilesOf, FileHomes, Areas
  <2>8. snapWriter[s].moved = 0 /\ 0..(0 - 1) = {} /\ 0 <= w.staged /\ s \in journal /\ snapRow[s] = "none"
    BY <1>0, <1>1, <2>1 DEF WriterOK, WriterRows
  <2>9. WriterOK(s)'
    BY <1>0, <2>1, <2>3, <2>7, <2>8 DEF WriterOK
  <2>10. RowOK(s)' /\ (NoFault' => NoFault)
    BY <1>0, <2>8 DEF RowOK, NoFault
  <2>11. Cardinality(Publishing') <= MaxPublishers
    BY <1>0, <2>3, PublishingKept
  <2> QED BY <1>0, <2>3, <2>4, <2>5, <2>6, <2>8, <2>9, <2>10, <2>11, WriterStepKeeps
<1>3. CASE WriterGoto(s, "abortStaging") /\ UNCHANGED snapDir
  <2>1. UNCHANGED <<diskVars, snapReader, maint, spent>>
    BY <1>0, <1>3 DEF diskVars, dbVars, fsVars
  <2> QED BY <1>0, <1>3, <2>1, GiveUpKeeps
<1> QED BY <1>2, <1>3 DEF CreateFinal

\* install_partitions: the final directory holds the partitions moved so far.
LEMMA InstallKeeps == ASSUME StoreInv, NEW s \in Snapshots, InstallPartition(s) PROVE StoreInv'
<1> DEFINE p == snapWriter[s].moved
           w == [snapWriter[s] EXCEPT !.moved = @ + 1]
<1>0. /\ snapWriter[s].pc = "installing" /\ maint = NoMaint /\ p < snapWriter[s].staged
      /\ UNCHANGED <<snapRow, manifest, journal, published, snapDir, durable, snapReader, maint, spent>>
  BY WriterExcludes DEF InstallPartition, At, dbVars
<1>1. StTyped /\ FileHomes /\ RowOK(s) /\ WriterOK(s) /\ snapWriter[s] \in WriterRows
  BY DEF StoreInv, StTyped
<1>2. CASE /\ snapFile' = (snapFile \ {<<"staging", s, p>>}) \cup {<<"final", s, p>>}
           /\ snapWriter' = [snapWriter EXCEPT ![s].moved = @ + 1]
  <2>0. p \in Nat /\ p \in Parts /\ snapWriter[s].staged \in 0..MaxParts /\ p + 1 <= snapWriter[s].staged
    BY <1>0, <1>1, ConstantsTyped DEF WriterRows, Parts
  <2>1. /\ w \in WriterRows /\ w.pc = "installing" /\ w.staged = snapWriter[s].staged
        /\ w.moved = p + 1 /\ w.installed = snapWriter[s].installed
    BY <1>0, <1>1, <2>0, ConstantsTyped DEF WriterRows
  <2>2. snapWriter' = [snapWriter EXCEPT ![s] = w]
    BY <1>1, <1>2 DEF StTyped
  <2> HIDE DEF w
  <2>3. /\ snapWriter' \in [Snapshots -> WriterRows] /\ snapWriter'[s] = w
        /\ \A t \in Snapshots \ {s} : snapWriter'[t] = snapWriter[t]
    BY <1>1, <2>1, <2>2 DEF StTyped
  <2>4. StTyped'
    BY <1>0, <1>1, <1>2, <2>0, <2>3 DEF StTyped, Areas
  <2>5. HasFinal(s) /\ FilesOf("final", s) = 0..(p - 1) /\ s \in journal /\ snapRow[s] = "none" /\ w.installed
    BY <1>0, <1>1, <2>1 DEF WriterOK
  <2>6. FileHomes'
    BY <1>0, <1>1, <1>2, <2>5 DEF FileHomes, HasFinal
  <2>7. \A t \in Snapshots \ {s} : DiskSame(t)
    BY <1>0, <1>2 DEF DiskSame, HasFinal, FilesOf
  <2>8. FilesOf("final", s)' = FilesOf("final", s) \cup {p} /\ HasFinal(s)'
    BY <1>0, <1>2, <2>0, <2>5 DEF FilesOf, HasFinal
  <2>9. FilesOf("final", s)' = 0..((p + 1) - 1)
    <3>1. 0..(p - 1) \cup {p} = 0..((p + 1) - 1)
      BY <2>0
    <3> QED BY <2>5, <2>8, <3>1
  <2>10. WriterOK(s)'
    BY <1>0, <2>0, <2>1, <2>3, <2>5, <2>8, <2>9 DEF WriterOK
  <2>11. RowOK(s)' /\ (NoFault' => NoFault)
    BY <1>0, <2>5 DEF RowOK, NoFault
  <2>12. Cardinality(Publishing') <= MaxPublishers
    BY <1>0, <2>3, PublishingKept
  <2> QED BY <1>0, <2>3, <2>4, <2>5, <2>6, <2>7, <2>10, <2>11, <2>12, WriterStepKeeps
<1>3. CASE WriterGoto(s, "abortStaging") /\ UNCHANGED snapFile
  <2>1. UNCHANGED <<diskVars, snapReader, maint, spent>>
    BY <1>0, <1>3 DEF diskVars, dbVars, fsVars
  <2> QED BY <1>0, <1>3, <2>1, GiveUpKeeps
<1> QED BY <1>2, <1>3 DEF InstallPartition

LEMMA SyncKeeps == ASSUME StoreInv, NEW s \in Snapshots, SyncFinal(s) PROVE StoreInv'
<1>0. /\ snapWriter[s].pc = "installing" /\ maint = NoMaint /\ snapWriter[s].moved = snapWriter[s].staged
      /\ UNCHANGED <<snapRow, manifest, journal, published, snapDir, snapFile, snapReader, maint, spent>>
  BY WriterExcludes DEF SyncFinal, At, dbVars
<1>1. StTyped /\ FileHomes /\ RowOK(s) /\ WriterOK(s)
  BY DEF StoreInv
<1>2. CASE durable' = durable \cup {s} /\ WriterGoto(s, "synced")
  <2>1. /\ snapWriter' \in [Snapshots -> WriterRows]
        /\ \A t \in Snapshots \ {s} : snapWriter'[t] = snapWriter[t]
        /\ snapWriter'[s].pc = "synced" /\ snapWriter'[s].staged = snapWriter[s].staged
        /\ snapWriter'[s].moved = snapWriter[s].moved /\ snapWriter'[s].installed = snapWriter[s].installed
    <3>1. "synced" \in WriterPcs
      BY DEF WriterPcs
    <3> QED BY <1>1, <1>2, <3>1, GotoFacts
  <2>2. StTyped' /\ FileHomes'
    BY <1>0, <1>1, <1>2, <2>1 DEF StTyped, FileHomes
  <2>3. \A t \in Snapshots : DiskSame(t)
    BY <1>0 DEF DiskSame, HasFinal, FilesOf
  <2>4. WriterOK(s)'
    BY <1>0, <1>1, <1>2, <2>1, <2>3 DEF WriterOK, DiskSame
  <2>5. RowOK(s)' /\ (NoFault' => NoFault) /\ (Whole(s) => Whole(s)')
    BY <1>0, <1>1, <1>2, <2>3 DEF RowOK, NoFault, Whole, DiskSame
  <2>6. Cardinality(Publishing') <= MaxPublishers
    BY <1>0, <2>1, PublishingKept
  <2> QED BY <1>0, <1>2, <2>1, <2>2, <2>3, <2>4, <2>5, <2>6, WriterStepKeeps
<1>3. CASE UNCHANGED durable /\ WriterGoto(s, "abortStaging")
  <2>1. UNCHANGED <<diskVars, snapReader, maint, spent>>
    BY <1>0, <1>3 DEF diskVars, dbVars, fsVars
  <2> QED BY <1>0, <1>3, <2>1, GiveUpKeeps
<1> QED BY <1>2, <1>3 DEF SyncFinal

\* commit_manifest: what the row lists is installed and synced.
LEMMA CommitKeeps == ASSUME StoreInv, NEW s \in Snapshots, CommitManifest(s) PROVE StoreInv'
<1>0. /\ snapWriter[s].pc = "synced" /\ maint = NoMaint
      /\ UNCHANGED <<snapDir, snapFile, durable, snapReader, maint, spent>>
  BY WriterExcludes DEF CommitManifest, At, fsVars
<1>1. StTyped /\ FileHomes /\ RowOK(s) /\ WriterOK(s) /\ snapWriter[s] \in WriterRows
  BY DEF StoreInv, StTyped
<1>2. CASE /\ snapRow[s] = "none" /\ snapRow' = [snapRow EXCEPT ![s] = "visible"]
           /\ manifest' = [manifest EXCEPT ![s] = snapWriter[s].staged]
           /\ journal' = journal \ {s} /\ published' = published \cup {s} /\ WriterGoto(s, "cleanup")
  <2>1. /\ snapWriter' \in [Snapshots -> WriterRows]
        /\ \A t \in Snapshots \ {s} : snapWriter'[t] = snapWriter[t]
        /\ snapWriter'[s].pc = "cleanup" /\ snapWriter'[s].staged = snapWriter[s].staged
        /\ snapWriter'[s].moved = snapWriter[s].moved /\ snapWriter'[s].installed = snapWriter[s].installed
    <3>1. "cleanup" \in WriterPcs
      BY DEF WriterPcs
    <3> QED BY <1>1, <1>2, <3>1, GotoFacts
  <2>2. snapWriter[s].staged \in 0..MaxParts
    BY <1>1 DEF WriterRows
  <2>3. /\ snapRow' \in [Snapshots -> {"none", "visible", "tombstoned"}] /\ snapRow'[s] = "visible"
        /\ manifest' \in [Snapshots -> 0..MaxParts] /\ manifest'[s] = snapWriter[s].staged
        /\ \A t \in Snapshots \ {s} : snapRow'[t] = snapRow[t] /\ manifest'[t] = manifest[t]
    BY <1>1, <1>2, <2>2 DEF StTyped
  <2>4. StTyped' /\ FileHomes'
    BY <1>0, <1>1, <1>2, <2>1, <2>3 DEF StTyped, FileHomes
  <2>5. \A t \in Snapshots : DiskSame(t)
    BY <1>0 DEF DiskSame, HasFinal, FilesOf
  <2>6. WriterOK(s)'
    BY <1>0, <1>1, <2>1 DEF WriterOK
  <2>7. Whole(s)' /\ s \in durable'
    BY <1>0, <1>1, <2>3, <2>5 DEF WriterOK, Whole, DiskSame
  <2>8. RowOK(s)' /\ (NoFault' => NoFault)
    BY <1>0, <1>2, <2>3, <2>7 DEF RowOK, NoFault
  <2>9. Cardinality(Publishing') <= MaxPublishers
    BY <1>0, <2>1, PublishingKept
  <2> QED BY <1>0, <1>2, <2>1, <2>3, <2>4, <2>5, <2>6, <2>8, <2>9, WriterStepKeeps
<1>3. CASE WriterGoto(s, "abortStaging") /\ UNCHANGED dbVars
  <2>1. UNCHANGED <<diskVars, snapReader, maint, spent>>
    BY <1>0, <1>3 DEF diskVars, dbVars, fsVars
  <2> QED BY <1>0, <1>3, <2>1, GiveUpKeeps
<1> QED BY <1>2, <1>3 DEF CommitManifest

-----------------------------------------------------------------------------
(* Removal of a directory, by a writer or by maintenance.                  *)

FinalSame(t) == (HasFinal(t)' <=> HasFinal(t)) /\ FilesOf("final", t)' = FilesOf("final", t)

LEMMA UnlinkedFacts ==
    ASSUME StTyped, FileHomes, NEW area \in Areas, NEW s \in Snapshots, Unlinked(area, s)
    PROVE  /\ UNCHANGED <<snapDir, durable>> /\ snapFile' \subseteq snapFile /\ FileHomes'
           /\ \A t \in Snapshots : t # s \/ area = "staging" => DiskSame(t)
<1>1. PICK p \in FilesOf(area, s) : snapFile' = snapFile \ {<<area, s, p>>} /\ UNCHANGED <<snapDir, durable>>
  BY DEF Unlinked
<1>2. FileHomes'
  BY <1>1 DEF FileHomes
<1>3. \A t \in Snapshots : t # s \/ area = "staging" => DiskSame(t)
  BY <1>1 DEF DiskSame, HasFinal, FilesOf
<1> QED BY <1>1, <1>2, <1>3

LEMMA RemovedFacts ==
    ASSUME StTyped, FileHomes, NEW area \in Areas, NEW s \in Snapshots, Removed(area, s)
    PROVE  /\ UNCHANGED snapFile /\ snapDir' \subseteq snapDir /\ durable' \subseteq durable
           /\ FileHomes' /\ <<area, s>> \notin snapDir'
           /\ \A t \in Snapshots : (t # s \/ area = "staging") /\ t \in durable => t \in durable'
           /\ \A t \in Snapshots \ {s} : DiskSame(t)
           /\ area = "staging" => FinalSame(s)
<1>1. /\ FilesOf(area, s) = {} /\ snapDir' = snapDir \ {<<area, s>>} /\ UNCHANGED snapFile
      /\ durable' = IF area = "final" THEN durable \ {s} ELSE durable
  BY DEF Removed
<1>2. FileHomes'
  BY <1>1 DEF FileHomes, FilesOf
<1>3. \A t \in Snapshots \ {s} : DiskSame(t)
  BY <1>1 DEF DiskSame, HasFinal, FilesOf
<1>4. area = "staging" => FinalSame(s)
  BY <1>1 DEF FinalSame, HasFinal, FilesOf
<1> QED BY <1>1, <1>2, <1>3, <1>4

LEMMA AdvanceFacts ==
    ASSUME StTyped, NEW s \in Snapshots, NEW label \in WriterPcs, Advance(s, label)
    PROVE  /\ snapWriter' \in [Snapshots -> WriterRows]
           /\ \A t \in Snapshots \ {s} : snapWriter'[t] = snapWriter[t]
           /\ snapWriter'[s].pc = label
           /\ label = "none" => snapWriter'[s] = NoWriter
           /\ label # "none" => /\ snapWriter'[s].staged = snapWriter[s].staged
                                /\ snapWriter'[s].moved = snapWriter[s].moved
                                /\ snapWriter'[s].installed = snapWriter[s].installed
<1>1. CASE label = "none"
  <2>1. NoWriter \in WriterRows /\ NoWriter.pc = "none"
    BY ConstantsTyped DEF NoWriter, WriterRows, WriterPcs
  <2>2. snapWriter' = [snapWriter EXCEPT ![s] = NoWriter]
    BY <1>1 DEF Advance
  <2> QED BY <1>1, <2>1, <2>2 DEF StTyped
<1>2. CASE label # "none"
  BY <1>2, GotoFacts DEF Advance, WriterGoto
<1> QED BY <1>1, <1>2

\* The removals of commit and Drop.  A writer that aborts has no row yet, so
\* nobody reads what it removes; one that committed removes only staging/.
LEMMA RemoveKeeps == ASSUME StoreInv, NEW s \in Snapshots, RemoveBestEffort(s) PROVE StoreInv'
<1> DEFINE area == IF At(s, "abortFinal") THEN "final" ELSE "staging"
           label == NextRemoval(s)
<1>0. /\ snapWriter[s].pc \in {"abortStaging", "abortFinal", "cleanup"} /\ maint = NoMaint
      /\ UNCHANGED <<snapRow, manifest, journal, published, snapReader, maint>>
  BY WriterExcludes DEF RemoveBestEffort, dbVars
<1>1. StTyped /\ FileHomes /\ RowOK(s) /\ WriterOK(s) /\ area \in Areas
  BY DEF StoreInv, Areas
<1>2. /\ snapWriter[s].pc = "abortFinal" => area = "final" /\ label = "abortJournal"
      /\ snapWriter[s].pc = "cleanup" => area = "staging" /\ label = "none"
      /\ snapWriter[s].pc = "abortStaging" =>
           area = "staging" /\ label = IF snapWriter[s].installed THEN "abortFinal" ELSE "abortJournal"
      /\ label \in WriterPcs
  BY <1>0 DEF At, NextRemoval, WriterPcs
<1>3. /\ snapWriter[s].pc # "cleanup" => s \in journal /\ snapRow[s] = "none"
      /\ snapWriter[s].moved <= snapWriter[s].staged
  BY <1>0, <1>1 DEF WriterOK
<1> HIDE DEF area, label
<1>4. CASE Unlinked(area, s) /\ UNCHANGED <<snapWriter, spent>>
  <2>1. /\ UNCHANGED <<snapDir, durable>> /\ snapFile' \subseteq snapFile /\ FileHomes'
        /\ \A t \in Snapshots : t # s \/ area = "staging" => DiskSame(t)
    BY <1>1, <1>4, UnlinkedFacts
  <2>2. StTyped'
    BY <1>0, <1>1, <1>4, <2>1 DEF StTyped
  <2>3. WriterOK(s)'
    BY <1>0, <1>1, <1>4, <2>1 DEF WriterOK, NoFault, HasFinal
  <2>4. RowOK(s)' /\ (NoFault' => NoFault)
    BY <1>0, <1>1, <1>2, <1>3, <1>4, <2>1 DEF RowOK, NoFault, HasFinal, Whole, DiskSame
  <2>5. snapRow[s] # "none" => snapRow'[s] # "none" /\ (Whole(s) => Whole(s)')
    BY <1>0, <1>2, <1>3, <2>1 DEF Whole, DiskSame
  <2>6. Cardinality(Publishing') <= MaxPublishers
    BY <1>0, <1>4, PublishingKept
  <2> QED BY <1>0, <1>4, <2>1, <2>2, <2>3, <2>4, <2>5, <2>6, WriterStepKeeps
<1>5. CASE Removed(area, s) /\ Advance(s, label) /\ UNCHANGED spent
  <2>1. /\ UNCHANGED snapFile /\ snapDir' \subseteq snapDir /\ durable' \subseteq durable
        /\ FileHomes' /\ <<area, s>> \notin snapDir'
        /\ \A t \in Snapshots : (t # s \/ area = "staging") /\ t \in durable => t \in durable'
        /\ \A t \in Snapshots \ {s} : DiskSame(t)
        /\ area = "staging" => FinalSame(s)
    BY <1>1, <1>5, RemovedFacts
  <2>2. /\ snapWriter' \in [Snapshots -> WriterRows]
        /\ \A t \in Snapshots \ {s} : snapWriter'[t] = snapWriter[t]
        /\ snapWriter'[s].pc = label
        /\ label = "none" => snapWriter'[s] = NoWriter
        /\ label # "none" => /\ snapWriter'[s].staged = snapWriter[s].staged
                             /\ snapWriter'[s].moved = snapWriter[s].moved
                             /\ snapWriter'[s].installed = snapWriter[s].installed
    BY <1>1, <1>2, <1>5, AdvanceFacts
  <2>3. StTyped'
    BY <1>0, <1>1, <1>5, <2>1, <2>2 DEF StTyped
  <2>4. WriterOK(s)'
    <3>1. CASE label = "none"
      BY <2>2, <3>1 DEF WriterOK, NoWriter
    <3>2. CASE label # "none"
      BY <1>0, <1>1, <1>2, <1>3, <1>5, <2>1, <2>2, <3>2 DEF WriterOK, NoFault, HasFinal, FinalSame
    <3> QED BY <3>1, <3>2
  <2>5. RowOK(s)' /\ (NoFault' => NoFault)
    BY <1>0, <1>1, <1>2, <1>3, <1>5, <2>1 DEF RowOK, NoFault, Whole, FinalSame
  <2>6. snapRow[s] # "none" => snapRow'[s] # "none" /\ (Whole(s) => Whole(s)')
    BY <1>0, <1>2, <1>3, <2>1 DEF Whole, FinalSame
  <2>7. Cardinality(Publishing') <= MaxPublishers
    BY <1>0, <2>2, PublishingKept
  <2> QED BY <1>0, <2>1, <2>2, <2>3, <2>4, <2>5, <2>6, <2>7, WriterStepKeeps
<1>6. CASE /\ spent' = [spent EXCEPT !.fault = @ + 1] /\ Advance(s, label)
           /\ UNCHANGED <<snapDir, snapFile, durable>>
  <2>1. /\ snapWriter' \in [Snapshots -> WriterRows]
        /\ \A t \in Snapshots \ {s} : snapWriter'[t] = snapWriter[t]
        /\ snapWriter'[s].pc = label
        /\ label = "none" => snapWriter'[s] = NoWriter
        /\ label # "none" => /\ snapWriter'[s].staged = snapWriter[s].staged
                             /\ snapWriter'[s].moved = snapWriter[s].moved
                             /\ snapWriter'[s].installed = snapWriter[s].installed
    BY <1>1, <1>2, <1>6, AdvanceFacts
  <2>2. spent' \in [crash : Nat, power : Nat, fault : Nat] /\ ~NoFault'
    BY <1>1, <1>6 DEF StTyped, NoFault
  <2>3. StTyped' /\ FileHomes'
    BY <1>0, <1>1, <1>6, <2>1, <2>2 DEF StTyped, FileHomes
  <2>4. \A t \in Snapshots : DiskSame(t)
    BY <1>6 DEF DiskSame, HasFinal, FilesOf
  <2>5. WriterOK(s)'
    <3>1. CASE label = "none"
      BY <2>1, <3>1 DEF WriterOK, NoWriter
    <3>2. CASE label # "none"
      BY <1>0, <1>2, <1>3, <2>1, <2>2, <3>2 DEF WriterOK
    <3> QED BY <3>1, <3>2
  <2>6. RowOK(s)' /\ (Whole(s) => Whole(s)')
    BY <1>0, <1>1, <1>6, <2>2, <2>4 DEF RowOK, Whole, DiskSame
  <2>7. Cardinality(Publishing') <= MaxPublishers
    BY <1>0, <2>1, PublishingKept
  <2> QED BY <1>0, <1>6, <2>1, <2>2, <2>3, <2>4, <2>5, <2>6, <2>7, WriterStepKeeps
<1> QED BY <1>4, <1>5, <1>6 DEF RemoveBestEffort, fsVars, area, label

LEMMA AbortKeeps == ASSUME StoreInv, NEW s \in Snapshots, AbortJournal(s) PROVE StoreInv'
<1>0. /\ snapWriter[s].pc = "abortJournal" /\ maint = NoMaint /\ Advance(s, "none")
      /\ UNCHANGED <<snapRow, manifest, published, snapDir, snapFile, durable, snapReader, maint>>
      /\ \/ journal' = journal \ {s} /\ UNCHANGED spent
         \/ spent' = [spent EXCEPT !.fault = @ + 1] /\ UNCHANGED journal
  BY WriterExcludes DEF AbortJournal, At, fsVars
<1>1. StTyped /\ FileHomes /\ RowOK(s) /\ WriterOK(s)
  BY DEF StoreInv
<1>2. /\ snapWriter' \in [Snapshots -> WriterRows] /\ snapWriter'[s] = NoWriter
      /\ \A t \in Snapshots \ {s} : snapWriter'[t] = snapWriter[t]
  <2>1. "none" \in WriterPcs
    BY DEF WriterPcs
  <2> QED BY <1>0, <1>1, <2>1, AdvanceFacts
<1>3. spent' \in [crash : Nat, power : Nat, fault : Nat] /\ (NoFault' => NoFault /\ spent' = spent)
  BY <1>0, <1>1 DEF StTyped, NoFault
<1>4. StTyped' /\ FileHomes'
  BY <1>0, <1>1, <1>2, <1>3 DEF StTyped, FileHomes
<1>5. \A t \in Snapshots : DiskSame(t)
  BY <1>0 DEF DiskSame, HasFinal, FilesOf
<1>6. WriterOK(s)'
  BY <1>2 DEF WriterOK, NoWriter
<1>7. snapRow[s] = "none" /\ (NoFault => ~HasFinal(s))
  BY <1>0, <1>1 DEF WriterOK
<1>8. RowOK(s)'
  BY <1>0, <1>1, <1>3, <1>5, <1>7 DEF RowOK, DiskSame
<1>9. Cardinality(Publishing') <= MaxPublishers
  BY <1>0, <1>2, PublishingKept
<1> QED BY <1>0, <1>2, <1>3, <1>4, <1>5, <1>6, <1>7, <1>8, <1>9, WriterStepKeeps

LEMMA WriterStepKept == ASSUME StoreInv, NEW s \in Snapshots, WriterStep(s) PROVE StoreInv'
<1>1. ASSUME DropWriter(s) PROVE StoreInv'
  BY <1>1, GiveUpKeeps DEF DropWriter, At
<1> QED BY <1>1, BeginKeeps, CreateStagingKeeps, AppendKeeps, CreateFinalKeeps, InstallKeeps, SyncKeeps,
           CommitKeeps, RemoveKeeps, AbortKeeps DEF WriterStep

-----------------------------------------------------------------------------
(* Readers.                                                                *)

LEMMA OpenKeeps == ASSUME StoreInv, NEW r \in Readers, NEW s \in Snapshots, OpenReader(r, s) PROVE StoreInv'
<1> DEFINE row == [snap |-> s, next |-> 0]
<1>0. /\ maint = NoMaint /\ Cardinality(Reading) < MaxReaders /\ snapReader[r] = NoReader
      /\ snapRow[s] = "visible" /\ snapReader' = [snapReader EXCEPT ![r] = row]
      /\ UNCHANGED <<snapRow, manifest, journal, published, snapDir, snapFile, durable, snapWriter, maint, spent>>
  BY DEF OpenReader, MayRead, diskVars, dbVars, fsVars
<1>1. row \in ReaderRows /\ row.snap = s
  BY DEF ReaderRows
<1> HIDE DEF row
<1>2. /\ snapReader' \in [Readers -> ReaderRows] /\ snapReader'[r] = row
      /\ \A q \in Readers \ {r} : snapReader'[q] = snapReader[q]
  BY <1>0, <1>1 DEF StoreInv, StTyped
<1>3. StTyped' /\ FileHomes' /\ MaintSound'
  BY <1>0, <1>2 DEF StoreInv, StTyped, FileHomes, MaintSound, NoMaint
<1>4. \A t \in Snapshots : DiskSame(t) /\ (Whole(t) => Whole(t)')
  BY <1>0 DEF DiskSame, HasFinal, FilesOf, Whole
<1>5. \A t \in Snapshots : WriterOK(t)' /\ RowOK(t)'
  <2> SUFFICES ASSUME NEW t \in Snapshots PROVE WriterOK(t)' /\ RowOK(t)'
      OBVIOUS
  <2>1. WriterOK(t) /\ RowOK(t) /\ (NoFault' => NoFault)
    BY <1>0 DEF StoreInv, NoFault
  <2> QED BY <1>0, <1>4, <2>1, OtherSnapshotsKept
<1>6. \A q \in Readers : ReaderOK(q)'
  <2> SUFFICES ASSUME NEW q \in Readers, snapReader'[q] # NoReader PROVE ReaderOK(q)'
      BY DEF ReaderOK
  <2>1. CASE q = r
    <3>1. RetentionWindow # 0 => Whole(s)'
      BY <1>0, <1>4 DEF StoreInv, RowOK
    <3>2. snapReader'[q].snap = s
      BY <1>1, <1>2, <2>1
    <3> QED BY <1>0, <3>1, <3>2 DEF ReaderOK, Whole, HasFinal, FilesOf
  <2>2. CASE q # r
    <3>1. ReaderOK(q) /\ snapReader'[q] = snapReader[q]
      BY <1>2, <2>2 DEF StoreInv
    <3> QED BY <1>0, <3>1 DEF ReaderOK, Whole, HasFinal, FilesOf
  <2> QED BY <2>1, <2>2
<1>7. Cardinality(Reading') <= MaxReaders
  <2>1. Reading' \subseteq Reading \cup {r} /\ Reading \subseteq Readers
    BY <1>2 DEF Reading
  <2>2. IsFiniteSet(Reading)
    BY <2>1, ConstantsTyped, FS_Subset
  <2>3. Cardinality(Reading) \in Nat
    BY <2>2, FS_CardinalityType
  <2>4. /\ IsFiniteSet(Reading \cup {r})
        /\ Cardinality(Reading \cup {r}) = IF r \in Reading THEN Cardinality(Reading) ELSE Cardinality(Reading) + 1
    BY <2>2, FS_AddElement
  <2>5. Cardinality(Reading') <= Cardinality(Reading \cup {r}) /\ IsFiniteSet(Reading')
    BY <2>1, <2>4, FS_Subset
  <2>6. Cardinality(Reading') \in Nat
    BY <2>5, FS_CardinalityType
  <2> QED BY <1>0, <2>3, <2>4, <2>5, <2>6, ConstantsTyped
<1>8. GateSound'
  BY <1>0, <1>7 DEF StoreInv, GateSound, NoMaint, Publishing
<1> QED BY <1>3, <1>5, <1>6, <1>8 DEF StoreInv

\* A reader moves on or closes.
LEMMA ReaderMoveKeeps ==
    ASSUME StoreInv, NEW r \in Readers, ReadPartition(r) \/ CloseReader(r)
    PROVE  StoreInv'
<1>0. /\ snapReader[r] # NoReader
      /\ UNCHANGED <<snapRow, manifest, journal, published, snapDir, snapFile, durable, snapWriter, maint, spent>>
  BY DEF ReadPartition, CloseReader, diskVars, dbVars, fsVars
<1>1. snapReader \in [Readers -> ReaderRows] /\ snapReader[r] \in ReaderRows
  BY DEF StoreInv, StTyped
<1>2. \E row \in ReaderRows : /\ snapReader' = [snapReader EXCEPT ![r] = row]
                              /\ row = NoReader \/ row.snap = snapReader[r].snap
  <2>1. CASE CloseReader(r)
    <3>1. NoReader \in ReaderRows
      BY DEF NoReader, ReaderRows
    <3> QED BY <2>1, <3>1 DEF CloseReader
  <2>2. CASE ReadPartition(r)
    <3> DEFINE row == [snapReader[r] EXCEPT !.next = @ + 1]
    <3>1. row \in ReaderRows /\ row.snap = snapReader[r].snap
      BY <1>1 DEF ReaderRows
    <3>2. snapReader' = [snapReader EXCEPT ![r] = row]
      BY <2>2, <1>1 DEF ReadPartition
    <3> QED BY <3>1, <3>2
  <2> QED BY <2>1, <2>2
<1>3. PICK row \in ReaderRows : /\ snapReader' = [snapReader EXCEPT ![r] = row]
                                /\ row = NoReader \/ row.snap = snapReader[r].snap
  BY <1>2
<1>4. /\ snapReader' \in [Readers -> ReaderRows] /\ snapReader'[r] = row
      /\ \A q \in Readers \ {r} : snapReader'[q] = snapReader[q]
  BY <1>1, <1>3
<1>5. StTyped' /\ FileHomes' /\ MaintSound'
  <2>1. maint = NoMaint
    BY <1>0 DEF StoreInv, GateSound
  <2> QED BY <1>0, <1>4, <2>1 DEF StoreInv, StTyped, FileHomes, MaintSound, NoMaint
<1>6. \A t \in Snapshots : WriterOK(t)' /\ RowOK(t)'
  <2> SUFFICES ASSUME NEW t \in Snapshots PROVE WriterOK(t)' /\ RowOK(t)'
      OBVIOUS
  <2>1. WriterOK(t) /\ RowOK(t) /\ (NoFault' => NoFault) /\ DiskSame(t)
    BY <1>0 DEF StoreInv, NoFault, DiskSame, HasFinal, FilesOf
  <2> QED BY <1>0, <2>1, OtherSnapshotsKept
<1>7. \A q \in Readers : ReaderOK(q)'
  <2> SUFFICES ASSUME NEW q \in Readers, snapReader'[q] # NoReader PROVE ReaderOK(q)'
      BY DEF ReaderOK
  <2>1. ReaderOK(q) /\ snapReader[q] # NoReader /\ snapReader'[q].snap = snapReader[q].snap
    BY <1>0, <1>3, <1>4 DEF StoreInv
  <2> QED BY <1>0, <2>1 DEF ReaderOK, Whole, HasFinal, FilesOf
<1>8. Cardinality(Reading') <= MaxReaders
  <2>1. Reading' \subseteq Reading /\ Reading \subseteq Readers
    BY <1>0, <1>4 DEF Reading
  <2>2. IsFiniteSet(Reading) /\ Cardinality(Reading) <= MaxReaders
    BY <2>1, ConstantsTyped, FS_Subset DEF StoreInv, GateSound
  <2>3. Cardinality(Reading') <= Cardinality(Reading) /\ IsFiniteSet(Reading')
    BY <2>1, <2>2, FS_Subset
  <2>4. Cardinality(Reading') \in Nat /\ Cardinality(Reading) \in Nat
    BY <2>2, <2>3, FS_CardinalityType
  <2> QED BY <2>2, <2>3, <2>4, ConstantsTyped
<1>9. GateSound'
  <2>1. maint = NoMaint
    BY <1>0 DEF StoreInv, GateSound
  <2> QED BY <1>0, <1>8, <2>1 DEF StoreInv, GateSound, NoMaint, Publishing
<1> QED BY <1>5, <1>6, <1>7, <1>9 DEF StoreInv

LEMMA TombstoneKeeps == ASSUME StoreInv, NEW s \in Snapshots, TombstoneSnapshot(s) PROVE StoreInv'
<1>0. /\ maint = NoMaint /\ snapRow[s] = "visible" /\ snapRow' = [snapRow EXCEPT ![s] = "tombstoned"]
      /\ UNCHANGED <<manifest, journal, published, snapDir, snapFile, durable, snapWriter, snapReader, maint, spent>>
  BY DEF TombstoneSnapshot, MayRead, fsVars
<1>1. StTyped /\ FileHomes /\ RowOK(s) /\ WriterOK(s)
  BY DEF StoreInv
<1>2. /\ snapRow' \in [Snapshots -> {"none", "visible", "tombstoned"}] /\ snapRow'[s] = "tombstoned"
      /\ \A t \in Snapshots \ {s} : snapRow'[t] = snapRow[t]
  BY <1>0, <1>1 DEF StTyped
<1>3. StTyped' /\ FileHomes'
  BY <1>0, <1>1, <1>2 DEF StTyped, FileHomes
<1>4. \A t \in Snapshots : DiskSame(t) /\ (Whole(t) => Whole(t)')
  BY <1>0 DEF DiskSame, HasFinal, FilesOf, Whole
<1>5. WriterOK(s)'
  BY <1>0, <1>1 DEF WriterOK, HasFinal, FilesOf, NoFault
<1>6. RowOK(s)' /\ (NoFault' => NoFault)
  BY <1>0, <1>1, <1>2 DEF RowOK, NoFault
<1>7. Cardinality(Publishing') <= MaxPublishers
  BY <1>0 DEF StoreInv, GateSound, Publishing
<1> QED BY <1>0, <1>2, <1>3, <1>4, <1>5, <1>6, <1>7, WriterStepKeeps

-----------------------------------------------------------------------------
(* Maintenance: nobody else is at work.                                    *)

Quiet == (\A s \in Snapshots : snapWriter[s].pc = "none") /\ (\A r \in Readers : snapReader[r] = NoReader)

LEMMA MaintQuiet == ASSUME StoreInv, maint.pc # "idle" \/ MayMaintain PROVE Quiet
BY DEF StoreInv, GateSound, MayMaintain, Publishing, Reading, Quiet

LEMMA MaintKeeps ==
    ASSUME StoreInv, Quiet, UNCHANGED <<snapWriter, snapReader>>, NoFault' => NoFault,
           StTyped', FileHomes', MaintSound', maint'.pc = "idle" => maint' = NoMaint,
           \A t \in Snapshots : RowOK(t)'
    PROVE  StoreInv'
<1>1. \A t \in Snapshots : WriterOK(t)'
  BY DEF StoreInv, WriterOK, Quiet
<1>2. \A r \in Readers : ReaderOK(r)'
  BY DEF ReaderOK, Quiet
<1>3. GateSound'
  BY DEF StoreInv, GateSound, Quiet, Publishing, Reading
<1> QED BY <1>1, <1>2, <1>3 DEF StoreInv

LEMMA RowKept ==
    ASSUME NEW t \in Snapshots, RowOK(t), FinalSame(t), snapRow'[t] = snapRow[t], manifest'[t] = manifest[t],
           t \in journal' <=> t \in journal, t \in durable => t \in durable', NoFault' => NoFault
    PROVE  RowOK(t)'
BY DEF RowOK, FinalSame, Whole

\* A step that changes nothing but the record of the operation.
LEMMA MaintOnlyKeeps ==
    ASSUME StoreInv, Quiet, UNCHANGED <<diskVars, snapWriter, snapReader, spent>>,
           maint' \in MaintRows, maint'.pc = "idle" => maint' = NoMaint, MaintSound'
    PROVE  StoreInv'
<1>0. UNCHANGED <<snapRow, manifest, journal, published, snapDir, snapFile, durable, snapWriter, snapReader, spent>>
  BY DEF diskVars, dbVars, fsVars
<1>1. StTyped' /\ FileHomes' /\ (NoFault' => NoFault)
  BY <1>0 DEF StoreInv, StTyped, FileHomes, NoFault
<1>2. \A t \in Snapshots : RowOK(t)'
  BY <1>0 DEF StoreInv, RowOK, NoFault, HasFinal, Whole, FilesOf
<1> QED BY <1>0, <1>1, <1>2, MaintKeeps

\* A step of a removal.
LEMMA RemovalKeeps ==
    ASSUME StoreInv, maint.pc # "idle", NEW area \in Areas, NEW s \in Snapshots,
           area = "final" /\ RetentionWindow # 0 => snapRow[s] # "visible",
           Unlinked(area, s) \/ Removed(area, s), UNCHANGED <<dbVars, snapWriter, snapReader, spent>>,
           maint' \in MaintRows, maint'.pc # "idle", MaintSound'
    PROVE  StoreInv'
<1>0. UNCHANGED <<snapRow, manifest, journal, published, snapWriter, snapReader, spent>>
  BY DEF dbVars
<1>1. StTyped /\ FileHomes /\ Quiet
  BY MaintQuiet DEF StoreInv
<1>2. /\ snapFile' \subseteq snapFile /\ snapDir' \subseteq snapDir /\ durable' \subseteq durable /\ FileHomes'
      /\ \A t \in Snapshots : t # s \/ area = "staging" => FinalSame(t) /\ (t \in durable => t \in durable')
  <2>1. CASE Unlinked(area, s)
    <3>1. /\ UNCHANGED <<snapDir, durable>> /\ snapFile' \subseteq snapFile /\ FileHomes'
          /\ \A t \in Snapshots : t # s \/ area = "staging" => DiskSame(t)
      BY <1>1, <2>1, UnlinkedFacts
    <3> QED BY <3>1 DEF DiskSame, FinalSame
  <2>2. CASE Removed(area, s)
    <3>1. /\ UNCHANGED snapFile /\ snapDir' \subseteq snapDir /\ durable' \subseteq durable /\ FileHomes'
          /\ \A t \in Snapshots : (t # s \/ area = "staging") /\ t \in durable => t \in durable'
          /\ \A t \in Snapshots \ {s} : DiskSame(t)
          /\ area = "staging" => FinalSame(s)
      BY <1>1, <2>2, RemovedFacts
    <3> QED BY <3>1 DEF DiskSame, FinalSame
  <2> QED BY <2>1, <2>2
<1>3. StTyped' /\ (NoFault' => NoFault)
  BY <1>0, <1>1, <1>2 DEF StTyped, NoFault
<1>4. \A t \in Snapshots : RowOK(t)'
  <2> SUFFICES ASSUME NEW t \in Snapshots PROVE RowOK(t)'
      OBVIOUS
  <2>1. RowOK(t)
    BY DEF StoreInv
  <2>2. CASE t # s \/ area = "staging"
    BY <1>0, <1>2, <1>3, <2>1, <2>2, RowKept
  <2>3. CASE t = s /\ area = "final"
    BY <1>0, <1>2, <1>3, <2>1, <2>3 DEF RowOK, HasFinal, NoFault
  <2> QED BY <2>2, <2>3 DEF Areas
<1> QED BY <1>0, <1>1, <1>2, <1>3, <1>4, MaintKeeps

\* Removing files or directories takes nothing from what maintenance knows.
LEMMA MaintSoundKept ==
    ASSUME MaintSound, UNCHANGED <<maint, snapRow, journal>>, snapDir' \subseteq snapDir
    PROVE  MaintSound'
BY DEF MaintSound, Doomed, Tombstoned, HasFinal, Orphans

LEMMA MaintGotoFacts ==
    ASSUME StTyped, NEW label \in MaintPcs, MaintGoto(label)
    PROVE  /\ maint' \in MaintRows /\ maint'.pc = label /\ maint'.todo = maint.todo /\ maint'.cur = maint.cur
           /\ maint'.fresh = maint.fresh /\ maint'.gone = maint.gone
BY DEF StTyped, MaintRows, MaintGoto

LEMMA PickFacts ==
    ASSUME StTyped, NEW s \in Snapshots, NEW label \in MaintPcs, Pick(s, label)
    PROVE  /\ maint' \in MaintRows /\ maint'.pc = label /\ maint'.todo = maint.todo \ {s} /\ maint'.cur = s
           /\ maint'.fresh = maint.fresh /\ maint'.gone = maint.gone /\ s \in maint.todo
BY DEF StTyped, MaintRows, Pick

\* An operation begins: recover, the collection of tombstones, retention.
LEMMA BeginMaintKeeps ==
    ASSUME StoreInv, MayMaintain, NEW label \in {"recover", "gc", "retain"},
           NEW todo \in SUBSET Snapshots, NEW fresh \in SUBSET Snapshots,
           maint' = [pc |-> label, todo |-> todo, cur |-> NoSnapshot, fresh |-> fresh, gone |-> {}],
           UNCHANGED <<diskVars, snapWriter, snapReader, spent>>,
           label = "gc" => \A s \in todo : snapRow[s] = "tombstoned",
           label = "retain" => /\ \A s \in fresh : snapRow[s] = "visible"
                               /\ todo \subseteq Tombstoned \cup (IF RetentionWindow = 0 THEN fresh ELSE {})
    PROVE  StoreInv'
<1>1. /\ maint' \in MaintRows /\ maint'.pc = label /\ maint'.todo = todo /\ maint'.fresh = fresh /\ maint'.gone = {}
  BY DEF MaintRows, MaintPcs
<1>2. snapRow' = snapRow
  BY DEF diskVars, dbVars
<1>3. MaintSound'
  <2>1. CASE label = "recover"
    BY <1>1, <2>1 DEF MaintSound
  <2>2. CASE label = "gc"
    BY <1>1, <1>2, <2>2 DEF MaintSound
  <2>3. CASE label = "retain"
    <3>1. Doomed' = Tombstoned \cup (IF RetentionWindow = 0 THEN fresh ELSE {})
      BY <1>1, <1>2 DEF Doomed, Tombstoned
    <3> QED BY <1>1, <1>2, <2>3, <3>1 DEF MaintSound
  <2> QED BY <2>1, <2>2, <2>3
<1>4. Quiet /\ maint'.pc # "idle"
  BY <1>1, MaintQuiet
<1> QED BY <1>1, <1>3, <1>4, MaintOnlyKeeps

LEMMA BeginsKeep ==
    ASSUME StoreInv,
           \/ \E stale \in SUBSET journal : BeginRecover(stale)
           \/ \E old \in SUBSET Tombstoned : BeginCollect(old)
           \/ \E fresh \in SUBSET Visible, eligible \in SUBSET (Visible \cup Tombstoned) :
                BeginRetention(fresh, eligible)
    PROVE  StoreInv'
<1>0. StTyped
  BY DEF StoreInv
<1>1. ASSUME NEW stale \in SUBSET journal, BeginRecover(stale) PROVE StoreInv'
  <2>1. stale \in SUBSET Snapshots
    BY <1>0 DEF StTyped
  <2>2. maint' = [pc |-> "recover", todo |-> stale, cur |-> NoSnapshot, fresh |-> {}, gone |-> {}]
    BY <1>1 DEF BeginRecover, NoMaint
  <2>3. MayMaintain /\ UNCHANGED <<diskVars, snapWriter, snapReader, spent>>
        /\ {} \in SUBSET Snapshots /\ "recover" \in {"recover", "gc", "retain"}
    BY <1>1 DEF BeginRecover
  <2> QED BY <2>1, <2>2, <2>3, BeginMaintKeeps
<1>2. ASSUME NEW old \in SUBSET Tombstoned, BeginCollect(old) PROVE StoreInv'
  <2>1. old \in SUBSET Snapshots /\ \A s \in old : snapRow[s] = "tombstoned"
    BY DEF Tombstoned
  <2>2. maint' = [pc |-> "gc", todo |-> old, cur |-> NoSnapshot, fresh |-> {}, gone |-> {}]
    BY <1>2 DEF BeginCollect, NoMaint
  <2>3. MayMaintain /\ UNCHANGED <<diskVars, snapWriter, snapReader, spent>>
        /\ {} \in SUBSET Snapshots /\ "gc" \in {"recover", "gc", "retain"}
    BY <1>2 DEF BeginCollect
  <2> QED BY <2>1, <2>2, <2>3, BeginMaintKeeps
<1>3. ASSUME NEW fresh \in SUBSET Visible, NEW eligible \in SUBSET (Visible \cup Tombstoned),
             BeginRetention(fresh, eligible)
      PROVE  StoreInv'
  <2>1. /\ fresh \in SUBSET Snapshots /\ eligible \in SUBSET Snapshots
        /\ \A s \in fresh : snapRow[s] = "visible"
    BY DEF Tombstoned, Visible
  <2>2. maint' = [pc |-> "retain", todo |-> eligible, cur |-> NoSnapshot, fresh |-> fresh, gone |-> {}]
    BY <1>3 DEF BeginRetention, NoMaint
  <2> QED BY <1>3, <2>1, <2>2, BeginMaintKeeps DEF BeginRetention
<1> QED BY <1>1, <1>2, <1>3

\* The operation turns to the next Snapshot.
LEMMA PicksKeep ==
    ASSUME StoreInv, NEW s \in Snapshots, RecoverPublication(s) \/ CollectSnapshot(s) \/ RetainCandidate(s)
    PROVE  StoreInv'
<1>0. StTyped /\ MaintSound /\ UNCHANGED <<diskVars, snapWriter, snapReader, spent>>
      /\ snapRow' = snapRow /\ snapDir' = snapDir
  BY DEF StoreInv, RecoverPublication, CollectSnapshot, RetainCandidate, diskVars, dbVars, fsVars
<1>1. \E label \in {"recStaging", "gcFiles", "retFiles"} :
        /\ Pick(s, label)
        /\ maint.pc = IF label = "recStaging" THEN "recover" ELSE IF label = "gcFiles" THEN "gc" ELSE "retain"
  BY DEF RecoverPublication, CollectSnapshot, RetainCandidate, MaintAt
<1>2. PICK label \in {"recStaging", "gcFiles", "retFiles"} :
        /\ Pick(s, label)
        /\ maint.pc = IF label = "recStaging" THEN "recover" ELSE IF label = "gcFiles" THEN "gc" ELSE "retain"
  BY <1>1
<1>3. label \in MaintPcs /\ maint.pc # "idle"
  BY <1>2 DEF MaintPcs
<1>4. /\ maint' \in MaintRows /\ maint'.pc = label /\ maint'.todo = maint.todo \ {s} /\ maint'.cur = s
      /\ maint'.fresh = maint.fresh /\ maint'.gone = maint.gone /\ s \in maint.todo
  BY <1>0, <1>2, <1>3, PickFacts
<1>5. MaintSound'
  <2>1. CASE label = "recStaging"
    BY <1>4, <2>1 DEF MaintSound
  <2>2. CASE label = "gcFiles"
    BY <1>0, <1>2, <1>4, <2>2 DEF MaintSound
  <2>3. CASE label = "retFiles"
    <3>1. Doomed' = Doomed
      BY <1>0, <1>4 DEF Doomed, Tombstoned
    <3> QED BY <1>0, <1>2, <1>4, <2>3, <3>1 DEF MaintSound, HasFinal
  <2> QED BY <2>1, <2>2, <2>3
<1>6. Quiet /\ maint'.pc # "idle"
  BY <1>2, <1>3, <1>4, MaintQuiet
<1> QED BY <1>0, <1>4, <1>5, <1>6, MaintOnlyKeeps

\* A file of the Snapshot in hand is removed.
LEMMA UnlinkingKeeps ==
    ASSUME StoreInv, maint.pc # "idle", NEW area \in Areas, NEW s \in Snapshots,
           area = "final" /\ RetentionWindow # 0 => snapRow[s] # "visible",
           Unlinked(area, s), UNCHANGED <<dbVars, snapWriter, snapReader, spent, maint>>
    PROVE  StoreInv'
<1>1. StTyped /\ FileHomes /\ MaintSound /\ maint \in MaintRows
  BY DEF StoreInv, StTyped
<1>2. snapDir' = snapDir /\ snapRow' = snapRow /\ journal' = journal
  BY <1>1, UnlinkedFacts DEF dbVars
<1>3. MaintSound'
  BY <1>1, <1>2, MaintSoundKept
<1> QED BY <1>1, <1>3, RemovalKeeps

\* The directory of the Snapshot in hand is removed and the operation goes on.
LEMMA RemovingKeeps ==
    ASSUME StoreInv, maint.pc # "idle", NEW area \in Areas, NEW s \in Snapshots,
           area = "final" /\ RetentionWindow # 0 => snapRow[s] # "visible",
           Removed(area, s), UNCHANGED <<dbVars, snapWriter, snapReader, spent>>,
           maint' \in MaintRows, maint'.pc # "idle", MaintSound'
    PROVE  StoreInv'
BY RemovalKeeps

LEMMA RecoverKeeps ==
    ASSUME StoreInv, RemoveStagingResidue \/ RemoveInstalledResidue \/ RemoveOrphan
    PROVE  StoreInv'
<1> DEFINE s == maint.cur
<1>0. /\ StTyped /\ FileHomes /\ MaintSound /\ UNCHANGED <<dbVars, snapWriter, snapReader, spent>>
      /\ snapRow' = snapRow /\ "staging" \in Areas /\ "final" \in Areas
  BY DEF StoreInv, RemoveStagingResidue, RemoveInstalledResidue, RemoveOrphan, dbVars, Areas
<1>1. CASE RemoveStagingResidue
  <2>1. maint.pc = "recStaging" /\ s \in Snapshots
    BY <1>0, <1>1 DEF RemoveStagingResidue, MaintAt, MaintSound
  <2>2. CASE Unlinked("staging", s) /\ UNCHANGED maint
    <3> HIDE DEF s
    <3> QED BY <1>0, <2>1, <2>2, UnlinkingKeeps
  <2>3. CASE Removed("staging", s) /\ MaintGoto(IF Unpublished(s) THEN "recFinal" ELSE "recJournal")
    <3> DEFINE label == IF Unpublished(s) THEN "recFinal" ELSE "recJournal"
    <3>1. label \in MaintPcs /\ label # "idle" /\ label \in {"recFinal", "recJournal"}
          /\ (label = "recFinal" <=> snapRow[s] # "visible")
      BY DEF MaintPcs, Unpublished
    <3> HIDE DEF label
    <3>2. maint' \in MaintRows /\ maint'.pc = label /\ maint'.cur = s
      BY <1>0, <2>3, <3>1, MaintGotoFacts DEF label
    <3>3. MaintSound'
      BY <1>0, <2>1, <3>1, <3>2 DEF MaintSound
    <3> HIDE DEF s
    <3> QED BY <1>0, <2>1, <2>3, <3>1, <3>2, <3>3, RemovingKeeps
  <2> QED BY <1>1, <2>2, <2>3 DEF RemoveStagingResidue
<1>2. CASE RemoveInstalledResidue
  <2>1. maint.pc = "recFinal" /\ s \in Snapshots /\ snapRow[s] # "visible"
    BY <1>0, <1>2 DEF RemoveInstalledResidue, MaintAt, MaintSound
  <2>2. CASE Unlinked("final", s) /\ UNCHANGED maint
    <3> HIDE DEF s
    <3> QED BY <1>0, <2>1, <2>2, UnlinkingKeeps
  <2>3. CASE Removed("final", s) /\ MaintGoto("recJournal")
    <3>1. "recJournal" \in MaintPcs
      BY DEF MaintPcs
    <3>2. maint' \in MaintRows /\ maint'.pc = "recJournal" /\ maint'.cur = s
      BY <1>0, <2>3, <3>1, MaintGotoFacts
    <3>3. <<"final", s>> \notin snapDir'
      BY <2>3 DEF Removed
    <3>4. MaintSound'
      BY <1>0, <2>1, <3>2, <3>3 DEF MaintSound, HasFinal
    <3> HIDE DEF s
    <3> QED BY <1>0, <2>1, <2>3, <3>2, <3>4, RemovingKeeps
  <2> QED BY <1>2, <2>2, <2>3 DEF RemoveInstalledResidue
<1>3. CASE RemoveOrphan
  <2>1. maint.pc = "orphan" /\ s \in Snapshots
    BY <1>0, <1>3 DEF RemoveOrphan, MaintAt, MaintSound
  <2>2. CASE Unlinked("staging", s) /\ UNCHANGED maint
    <3> HIDE DEF s
    <3> QED BY <1>0, <2>1, <2>2, UnlinkingKeeps
  <2>3. CASE Removed("staging", s) /\ MaintGoto("recover")
    <3>1. "recover" \in MaintPcs
      BY DEF MaintPcs
    <3>2. maint' \in MaintRows /\ maint'.pc = "recover"
      BY <1>0, <2>3, <3>1, MaintGotoFacts
    <3>3. MaintSound'
      BY <3>2 DEF MaintSound
    <3> HIDE DEF s
    <3> QED BY <1>0, <2>1, <2>3, <3>2, <3>3, RemovingKeeps
  <2> QED BY <1>3, <2>2, <2>3 DEF RemoveOrphan
<1> QED BY <1>1, <1>2, <1>3

\* recover deletes the journal row last, when nothing is left to lead to.
LEMMA DeletePublicationKeeps == ASSUME StoreInv, DeletePublication PROVE StoreInv'
<1> DEFINE s == maint.cur
<1>0. /\ maint.pc = "recJournal" /\ journal' = journal \ {s} /\ MaintGoto("recover")
      /\ UNCHANGED <<snapRow, manifest, published, snapDir, snapFile, durable, snapWriter, snapReader, spent>>
  BY DEF DeletePublication, MaintAt, fsVars
<1>1. StTyped /\ FileHomes /\ Quiet /\ "recover" \in MaintPcs
  BY <1>0, MaintQuiet DEF StoreInv, MaintPcs
<1>2. s \in Snapshots /\ (snapRow[s] = "visible" \/ ~HasFinal(s))
  BY <1>0 DEF StoreInv, MaintSound
<1>3. maint' \in MaintRows /\ maint'.pc = "recover"
  BY <1>0, <1>1, MaintGotoFacts
<1>4. StTyped' /\ FileHomes' /\ MaintSound' /\ (NoFault' => NoFault)
  BY <1>0, <1>1, <1>3 DEF StTyped, FileHomes, MaintSound, NoFault
<1> HIDE DEF s
<1>5. \A t \in Snapshots : RowOK(t)'
  <2> SUFFICES ASSUME NEW t \in Snapshots PROVE RowOK(t)'
      OBVIOUS
  <2>1. RowOK(t)
    BY DEF StoreInv
  <2>2. CASE t # s
    <3>1. FinalSame(t)
      BY <1>0 DEF FinalSame, HasFinal, FilesOf
    <3> QED BY <1>0, <1>4, <2>1, <2>2, <3>1, RowKept
  <2>3. CASE t = s
    BY <1>0, <1>2, <2>1, <2>3 DEF RowOK, HasFinal, NoFault, Whole, FilesOf
  <2> QED BY <2>2, <2>3
<1> QED BY <1>0, <1>1, <1>3, <1>4, <1>5, MaintKeeps

LEMMA ScanKeeps == ASSUME StoreInv, ScanOrphans PROVE StoreInv'
<1>0. /\ maint.pc = "recover" /\ UNCHANGED <<diskVars, snapWriter, snapReader, spent>>
      /\ snapDir' = snapDir /\ journal' = journal
  BY DEF ScanOrphans, MaintAt, diskVars, fsVars, dbVars
<1>1. StTyped /\ Quiet
  BY <1>0, MaintQuiet DEF StoreInv
<1>2. CASE Orphans = {} /\ MaintGoto("recovered")
  <2>1. "recovered" \in MaintPcs
    BY DEF MaintPcs
  <2>2. maint' \in MaintRows /\ maint'.pc = "recovered"
    BY <1>1, <1>2, <2>1, MaintGotoFacts
  <2>3. MaintSound'
    BY <1>0, <1>2, <2>2 DEF MaintSound, Orphans
  <2> QED BY <1>0, <1>1, <2>2, <2>3, MaintOnlyKeeps
<1>3. CASE \E s \in Orphans : maint' = [maint EXCEPT !.pc = "orphan", !.cur = s]
  <2>1. PICK s \in Orphans : maint' = [maint EXCEPT !.pc = "orphan", !.cur = s]
    BY <1>3
  <2>2. maint' \in MaintRows /\ maint'.pc = "orphan" /\ maint'.cur \in Snapshots
    BY <1>1, <2>1 DEF Orphans, StTyped, MaintRows, MaintPcs
  <2>3. MaintSound'
    BY <2>2 DEF MaintSound
  <2> QED BY <1>0, <1>1, <2>2, <2>3, MaintOnlyKeeps
<1> QED BY <1>2, <1>3 DEF ScanOrphans

\* The files of a tombstone.
LEMMA CollectFilesKeeps == ASSUME StoreInv, CollectFiles PROVE StoreInv'
<1> DEFINE s == maint.cur
<1>0. /\ maint.pc = "gcFiles" /\ UNCHANGED <<dbVars, snapWriter, snapReader, spent>> /\ snapRow' = snapRow
      /\ StTyped /\ MaintSound /\ "final" \in Areas
  BY DEF CollectFiles, MaintAt, StoreInv, dbVars, Areas
<1>1. s \in Snapshots /\ snapRow[s] = "tombstoned" /\ s \notin maint.todo
      /\ \A t \in maint.todo : snapRow[t] = "tombstoned"
  BY <1>0 DEF MaintSound
<1>2. CASE Unlinked("final", s) /\ UNCHANGED maint
  <2> HIDE DEF s
  <2> QED BY <1>0, <1>1, <1>2, UnlinkingKeeps
<1>3. CASE Removed("final", s) /\ MaintGoto("gcRow")
  <2>1. "gcRow" \in MaintPcs
    BY DEF MaintPcs
  <2>2. maint' \in MaintRows /\ maint'.pc = "gcRow" /\ maint'.cur = s /\ maint'.todo = maint.todo
    BY <1>0, <1>3, <2>1, MaintGotoFacts
  <2>3. <<"final", s>> \notin snapDir'
    BY <1>3 DEF Removed
  <2>4. MaintSound'
    BY <1>0, <1>1, <2>2, <2>3 DEF MaintSound, HasFinal
  <2> HIDE DEF s
  <2> QED BY <1>0, <1>1, <1>3, <2>2, <2>4, RemovingKeeps
<1> QED BY <1>2, <1>3 DEF CollectFiles

LEMMA DeleteRowKeeps == ASSUME StoreInv, DeleteRow PROVE StoreInv'
<1> DEFINE s == maint.cur
<1>0. /\ maint.pc = "gcRow" /\ snapRow' = [snapRow EXCEPT ![s] = "none"] /\ MaintGoto("gc")
      /\ UNCHANGED <<manifest, journal, published, snapDir, snapFile, durable, snapWriter, snapReader, spent>>
  BY DEF DeleteRow, MaintAt, fsVars
<1>1. StTyped /\ FileHomes /\ MaintSound /\ Quiet /\ "gc" \in MaintPcs
  BY <1>0, MaintQuiet DEF StoreInv, MaintPcs
<1>2. /\ s \in Snapshots /\ snapRow[s] = "tombstoned" /\ s \notin maint.todo /\ ~HasFinal(s)
      /\ maint.todo \subseteq Snapshots /\ \A t \in maint.todo : snapRow[t] = "tombstoned"
  BY <1>0, <1>1 DEF MaintSound, StTyped, MaintRows
<1>3. maint' \in MaintRows /\ maint'.pc = "gc" /\ maint'.todo = maint.todo
  BY <1>0, <1>1, MaintGotoFacts
<1> HIDE DEF s
<1>4. /\ snapRow' \in [Snapshots -> {"none", "visible", "tombstoned"}] /\ snapRow'[s] = "none"
      /\ \A t \in Snapshots \ {s} : snapRow'[t] = snapRow[t]
  BY <1>0, <1>1, <1>2 DEF StTyped
<1>5. StTyped' /\ FileHomes' /\ (NoFault' => NoFault)
  BY <1>0, <1>1, <1>3, <1>4 DEF StTyped, FileHomes, NoFault
<1>6. MaintSound'
  BY <1>2, <1>3, <1>4 DEF MaintSound
<1>7. \A t \in Snapshots : RowOK(t)'
  <2> SUFFICES ASSUME NEW t \in Snapshots PROVE RowOK(t)'
      OBVIOUS
  <2>1. RowOK(t)
    BY DEF StoreInv
  <2>2. CASE t # s
    <3>1. FinalSame(t)
      BY <1>0 DEF FinalSame, HasFinal, FilesOf
    <3> QED BY <1>0, <1>4, <1>5, <2>1, <2>2, <3>1, RowKept
  <2>3. CASE t = s
    BY <1>0, <1>2, <1>4, <2>3 DEF RowOK, HasFinal
  <2> QED BY <2>2, <2>3
<1> QED BY <1>0, <1>1, <1>3, <1>5, <1>6, <1>7, MaintKeeps

\* The files of a candidate of the open retention transaction: a tombstone, or
\* with a window of 0 a Snapshot whose tombstone is not committed yet.
LEMMA RetainFilesKeeps == ASSUME StoreInv, RetainFiles PROVE StoreInv'
<1> DEFINE s == maint.cur
<1>0. /\ maint.pc = "retFiles" /\ UNCHANGED <<dbVars, snapWriter, snapReader, spent>> /\ snapRow' = snapRow
      /\ StTyped /\ FileHomes /\ MaintSound /\ "final" \in Areas
  BY DEF RetainFiles, MaintAt, StoreInv, dbVars, Areas
<1>1. /\ s \in Snapshots /\ s \in Doomed /\ maint.todo \subseteq Doomed /\ maint.gone \subseteq Doomed
      /\ \A t \in maint.fresh : snapRow[t] = "visible"
      /\ \A t \in maint.gone : ~HasFinal(t)
  BY <1>0 DEF MaintSound
<1>2. RetentionWindow # 0 => snapRow[s] # "visible"
  BY <1>1 DEF Doomed, Tombstoned
<1>3. CASE Unlinked("final", s) /\ UNCHANGED maint
  <2> HIDE DEF s
  <2> QED BY <1>0, <1>1, <1>2, <1>3, UnlinkingKeeps
<1>4. CASE Removed("final", s) /\ maint' = [maint EXCEPT !.pc = "retain", !.gone = @ \cup {maint.cur}]
  <2>1. /\ maint' \in MaintRows /\ maint'.pc = "retain" /\ maint'.todo = maint.todo
        /\ maint'.fresh = maint.fresh /\ maint'.gone = maint.gone \cup {s}
    BY <1>0, <1>1, <1>4 DEF StTyped, MaintRows, MaintPcs
  <2>2. snapDir' = snapDir \ {<<"final", s>>}
    BY <1>4 DEF Removed
  <2> HIDE DEF s
  <2>3. Doomed' = Doomed
    BY <1>0, <2>1 DEF Doomed, Tombstoned
  <2>4. \A t \in maint'.gone : ~HasFinal(t)'
    BY <1>1, <2>1, <2>2 DEF HasFinal
  <2>5. MaintSound'
    BY <1>0, <1>1, <2>1, <2>3, <2>4 DEF MaintSound
  <2> QED BY <1>0, <1>1, <1>2, <1>4, <2>1, <2>5, RemovingKeeps
<1> QED BY <1>3, <1>4 DEF RetainFiles

LEMMA CommitRetentionKeeps == ASSUME StoreInv, CommitRetention PROVE StoreInv'
<1>0. /\ maint.pc = "retain"
      /\ snapRow' = [s \in Snapshots |-> IF s \in maint.gone THEN "none"
                                         ELSE IF s \in maint.fresh THEN "tombstoned" ELSE snapRow[s]]
      /\ UNCHANGED <<manifest, journal, published, snapDir, snapFile, durable, snapWriter, snapReader, spent>>
  BY DEF CommitRetention, MaintAt, fsVars
<1>1. StTyped /\ FileHomes /\ MaintSound /\ Quiet
  BY <1>0, MaintQuiet DEF StoreInv
<1>2. PICK old \in SUBSET {s \in Snapshots : snapRow'[s] = "tombstoned"} :
        maint' = [NoMaint EXCEPT !.pc = "gc", !.todo = old]
  BY DEF CommitRetention
<1>3. maint' \in MaintRows /\ maint'.pc = "gc" /\ maint'.todo = old
  BY <1>2 DEF NoMaint, MaintRows, MaintPcs
<1>4. MaintSound'
  BY <1>2, <1>3 DEF MaintSound
<1>5. StTyped' /\ FileHomes' /\ (NoFault' => NoFault)
  BY <1>0, <1>1, <1>3 DEF StTyped, FileHomes, NoFault
<1>6. /\ \A t \in maint.fresh : snapRow[t] = "visible"
      /\ \A t \in maint.gone : ~HasFinal(t)
  BY <1>0, <1>1 DEF MaintSound
<1>7. \A t \in Snapshots : RowOK(t)'
  <2> SUFFICES ASSUME NEW t \in Snapshots PROVE RowOK(t)'
      OBVIOUS
  <2>1. RowOK(t) /\ FinalSame(t)
    BY <1>0 DEF StoreInv, FinalSame, HasFinal, FilesOf
  <2>2. CASE t \in maint.gone
    BY <1>0, <1>6, <2>1, <2>2 DEF RowOK, FinalSame
  <2>3. CASE t \notin maint.gone /\ t \in maint.fresh
    BY <1>0, <1>6, <2>1, <2>3 DEF RowOK, FinalSame
  <2>4. CASE t \notin maint.gone /\ t \notin maint.fresh
    BY <1>0, <1>5, <2>1, <2>4, RowKept
  <2> QED BY <2>2, <2>3, <2>4
<1> QED BY <1>0, <1>1, <1>3, <1>4, <1>5, <1>7, MaintKeeps

LEMMA EndKeeps == ASSUME StoreInv, EndMaintenance PROVE StoreInv'
<1>0. maint # NoMaint /\ maint' = NoMaint /\ UNCHANGED <<diskVars, snapWriter, snapReader, spent>>
  BY DEF EndMaintenance
<1>1. Quiet
  BY <1>0, MaintQuiet DEF StoreInv, GateSound
<1>2. maint' \in MaintRows /\ MaintSound'
  BY <1>0 DEF NoMaint, MaintRows, MaintPcs, MaintSound
<1> QED BY <1>0, <1>1, <1>2, MaintOnlyKeeps

LEMMA MaintStepKept == ASSUME StoreInv, MaintStep PROVE StoreInv'
BY BeginsKeep, PicksKeep, RecoverKeeps, DeletePublicationKeeps, ScanKeeps, CollectFilesKeeps, DeleteRowKeeps,
   RetainFilesKeeps, CommitRetentionKeeps, EndKeeps DEF MaintStep

-----------------------------------------------------------------------------
(* The death of the process and of the machine.                            *)

\* A death leaves nobody at work.  It keeps the rows and the journal, and of the
\* disk what was synced; what it loses of the rest no row speaks of.
LEMMA RestartKeeps ==
    ASSUME StoreInv, Restart, UNCHANGED dbVars, UNCHANGED durable, spent' \in [crash : Nat, power : Nat, fault : Nat],
           spent'.fault = spent.fault, FileHomes',
           snapDir' \subseteq snapDir, snapFile' \subseteq Areas \X Snapshots \X Parts,
           \A t \in durable : FinalSame(t)
    PROVE  StoreInv'
<1>0. /\ snapWriter' = [s \in Snapshots |-> NoWriter] /\ snapReader' = [r \in Readers |-> NoReader] /\ maint' = NoMaint
      /\ UNCHANGED <<snapRow, manifest, journal, published, durable>>
  BY DEF Restart, dbVars
<1>1. NoWriter \in WriterRows /\ NoReader \in ReaderRows /\ NoMaint \in MaintRows
  BY ConstantsTyped DEF NoWriter, WriterRows, WriterPcs, NoReader, ReaderRows, NoMaint, MaintRows, MaintPcs
<1>2. StTyped' /\ MaintSound'
  BY <1>0, <1>1 DEF StoreInv, StTyped, MaintSound, NoMaint
<1>3. Publishing' = {} /\ Reading' = {}
  BY <1>0 DEF Publishing, Reading, NoWriter
<1>4. GateSound'
  BY <1>0, <1>3, FS_EmptySet, ConstantsTyped DEF GateSound, NoMaint
<1>5. \A s \in Snapshots : WriterOK(s)'
  BY <1>0 DEF WriterOK, NoWriter
<1>6. \A r \in Readers : ReaderOK(r)'
  BY <1>0 DEF ReaderOK
<1>7. \A s \in Snapshots : RowOK(s)'
  <2> SUFFICES ASSUME NEW s \in Snapshots PROVE RowOK(s)'
      OBVIOUS
  <2>1. RowOK(s) /\ (NoFault' <=> NoFault) /\ (HasFinal(s)' => HasFinal(s))
    BY DEF StoreInv, NoFault, HasFinal
  <2> QED BY <1>0, <2>1 DEF RowOK, Whole, FinalSame
<1> QED BY <1>2, <1>4, <1>5, <1>6, <1>7 DEF StoreInv

LEMMA CrashKeeps == ASSUME StoreInv, Crash PROVE StoreInv'
<1>0. /\ Restart /\ UNCHANGED <<snapRow, manifest, journal, published, snapDir, snapFile, durable>> /\ UNCHANGED dbVars
      /\ spent' = [spent EXCEPT !.crash = @ + 1]
  BY DEF Crash, diskVars, dbVars, fsVars
<1>1. StTyped /\ FileHomes
  BY DEF StoreInv
<1>2. spent' \in [crash : Nat, power : Nat, fault : Nat] /\ spent'.fault = spent.fault
  BY <1>0, <1>1 DEF StTyped
<1>3. FileHomes' /\ snapDir' \subseteq snapDir /\ snapFile' \subseteq Areas \X Snapshots \X Parts
  BY <1>0, <1>1 DEF FileHomes, StTyped
<1>4. \A t \in durable : FinalSame(t)
  BY <1>0 DEF FinalSame, HasFinal, FilesOf
<1> QED BY <1>0, <1>2, <1>3, <1>4, RestartKeeps

\* Of a machine: a durable directory and its files stay, a file never stays
\* without its directory, and a lost rename brings nothing into a final one.
LEMMA PowerLossKeeps == ASSUME StoreInv, PowerLoss PROVE StoreInv'
<1> DEFINE looseDir  == {d \in snapDir : d[1] = "staging" \/ d[2] \notin durable}
           looseFile == {f \in snapFile : f[1] = "staging" \/ f[2] \notin durable}
           back(lost) == {<<"staging", f[2], f[3]>> : f \in {g \in lost : g[1] = "final"}}
<1>0. /\ Restart /\ UNCHANGED dbVars /\ UNCHANGED durable /\ spent' = [spent EXCEPT !.power = @ + 1]
  BY DEF PowerLoss
<1>1. PICK gone \in SUBSET looseDir, lost \in SUBSET looseFile :
        /\ \A f \in looseFile : <<f[1], f[2]>> \in gone => f \in lost
        /\ snapDir' = snapDir \ gone
        /\ \E again \in SUBSET back(lost) :
             /\ \A f \in again : <<"staging", f[2]>> \in snapDir'
             /\ snapFile' = (snapFile \ lost) \cup again
  BY DEF PowerLoss
<1>2. PICK again \in SUBSET back(lost) :
        /\ \A f \in again : <<"staging", f[2]>> \in snapDir'
        /\ snapFile' = (snapFile \ lost) \cup again
  BY <1>1
<1>3. StTyped /\ FileHomes
  BY DEF StoreInv
<1>4. spent' \in [crash : Nat, power : Nat, fault : Nat] /\ spent'.fault = spent.fault
  BY <1>0, <1>3 DEF StTyped
<1>5. \A f \in again : \E s \in Snapshots, p \in Parts : f = <<"staging", s, p>>
  <2> SUFFICES ASSUME NEW f \in again PROVE \E s \in Snapshots, p \in Parts : f = <<"staging", s, p>>
      OBVIOUS
  <2>1. PICK g \in lost : f = <<"staging", g[2], g[3]>>
    BY <1>2
  <2>2. g \in Areas \X Snapshots \X Parts
    BY <1>1, <1>3, <2>1 DEF StTyped
  <2> QED BY <2>1, <2>2
<1>6. snapFile' \subseteq Areas \X Snapshots \X Parts
  BY <1>2, <1>3, <1>5 DEF StTyped, Areas
<1>7. FileHomes'
  <2> SUFFICES ASSUME NEW a \in Areas, NEW s \in Snapshots, NEW p \in Parts, <<a, s, p>> \in snapFile'
               PROVE  <<a, s>> \in snapDir'
      BY DEF FileHomes
  <2>1. CASE <<a, s, p>> \in again
    <3>1. a = "staging"
      BY <1>5, <2>1
    <3>2. <<"staging", <<a, s, p>>[2]>> \in snapDir'
      BY <1>2, <2>1
    <3> QED BY <3>1, <3>2
  <2>2. CASE <<a, s, p>> \in snapFile \ lost
    <3>1. <<a, s>> \in snapDir
      BY <1>3, <2>2 DEF FileHomes
    <3>2. CASE a = "staging" \/ s \notin durable
      <4>1. <<a, s, p>> \in looseFile /\ <<a, s, p>>[1] = a /\ <<a, s, p>>[2] = s
        BY <2>2, <3>2
      <4>2. <<a, s>> \notin gone
        BY <1>1, <2>2, <4>1
      <4> QED BY <1>1, <3>1, <4>2
    <3>3. CASE ~(a = "staging" \/ s \notin durable)
      <4>1. <<a, s>> \notin looseDir
        BY <3>3
      <4> QED BY <1>1, <3>1, <4>1
    <3> QED BY <3>2, <3>3
  <2> QED BY <1>2, <2>1, <2>2
<1>8. \A t \in durable : FinalSame(t)
  <2> SUFFICES ASSUME NEW t \in durable PROVE FinalSame(t)
      OBVIOUS
  <2>1. <<"final", t>> \notin looseDir
    OBVIOUS
  <2>2. HasFinal(t)' <=> HasFinal(t)
    BY <1>1, <2>1 DEF HasFinal
  <2>3. \A p \in Parts : <<"final", t, p>> \notin looseFile /\ <<"final", t, p>> \notin again
    BY <1>5
  <2>4. FilesOf("final", t)' = FilesOf("final", t)
    BY <1>1, <1>2, <2>3 DEF FilesOf
  <2> QED BY <2>2, <2>4 DEF FinalSame
<1>9. snapDir' \subseteq snapDir
  BY <1>1
<1> QED BY <1>0, <1>4, <1>6, <1>7, <1>8, <1>9, RestartKeeps

-----------------------------------------------------------------------------
(* The theorems.                                                           *)

LEMMA StoreInvStep == StoreInv /\ [StoreNext]_storeVars => StoreInv'
<1> SUFFICES ASSUME StoreInv, [StoreNext]_storeVars PROVE StoreInv'
    OBVIOUS
<1>1. CASE UNCHANGED storeVars
  <2>1. UNCHANGED <<snapRow, manifest, journal, published, snapDir, snapFile, durable, snapWriter, snapReader, maint, spent>>
    BY <1>1 DEF storeVars, diskVars, dbVars, fsVars
  <2>2. StTyped' /\ FileHomes' /\ GateSound' /\ MaintSound'
    BY <2>1 DEF StoreInv, StTyped, FileHomes, GateSound, MaintSound, Publishing, Reading, Doomed, Tombstoned, HasFinal, Orphans
  <2>3. \A s \in Snapshots : WriterOK(s)' /\ RowOK(s)'
    BY <2>1 DEF StoreInv, WriterOK, RowOK, NoFault, HasFinal, FilesOf, Whole
  <2>4. \A r \in Readers : ReaderOK(r)'
    BY <2>1 DEF StoreInv, ReaderOK, HasFinal, FilesOf, Whole
  <2> QED BY <2>2, <2>3, <2>4 DEF StoreInv
<1>2. ASSUME NEW s \in Snapshots, WriterStep(s) PROVE StoreInv'
  BY <1>2, WriterStepKept
<1>3. ASSUME NEW s \in Snapshots, TombstoneSnapshot(s) PROVE StoreInv'
  BY <1>3, TombstoneKeeps
<1>4. ASSUME NEW r \in Readers, NEW s \in Snapshots, OpenReader(r, s) PROVE StoreInv'
  BY <1>4, OpenKeeps
<1>5. ASSUME NEW r \in Readers, ReadPartition(r) \/ CloseReader(r) PROVE StoreInv'
  BY <1>5, ReaderMoveKeeps
<1> QED BY <1>1, <1>2, <1>3, <1>4, <1>5, MaintStepKept, CrashKeeps, PowerLossKeeps DEF StoreNext

LEMMA StoreInvariant == StoreSpec => []StoreInv
BY StoreInvInit, StoreInvStep, PTL DEF StoreSpec

\* store.rs, acquire_activity and acquire_maintenance: for any number of
\* Snapshots and readers, the rows, the journal and the disk keep their types
\* and no more publishers and readers are let in than the limits allow.
THEOREM StoreTyped == StoreSpec => []StoreTypeOK
<1>1. StoreInv => StoreTypeOK
  BY StoreInvImplies
<1> QED BY <1>1, StoreInvariant, PTL

\* store.rs, install_partitions and commit_manifest: with a retention window
\* that is not 0, whatever process or machine died and whatever removal failed,
\* a visible manifest has exactly its partitions whenever readers are let in.
THEOREM VisibleStaysComplete == RetentionWindow # 0 => (StoreSpec => []VisibleComplete)
<1> SUFFICES ASSUME RetentionWindow # 0 PROVE StoreSpec => []VisibleComplete
    OBVIOUS
<1>1. StoreInv => VisibleComplete
  BY StoreInvImplies
<1> QED BY <1>1, StoreInvariant, PTL

\* store.rs, read_batches: with such a window an open reader can read its
\* Snapshot to the end, even when it is tombstoned under it.
THEOREM ReadersStaySafe == RetentionWindow # 0 => (StoreSpec => []ReadersSafe)
<1> SUFFICES ASSUME RetentionWindow # 0 PROVE StoreSpec => []ReadersSafe
    OBVIOUS
<1>1. StoreInv => ReadersSafe
  BY StoreInvImplies
<1> QED BY <1>1, StoreInvariant, PTL

\* store.rs, recover and Drop of a SnapshotWriter, for any window: a Snapshot
\* is never in the journal and in the manifest, an installed directory without
\* a row is in the journal unless a removal failed, and what recover leaves
\* behind belongs to a publication it was told to leave alone.
THEOREM RecoveryFindsResidue == StoreSpec => [](JournalExclusive /\ NoOrphanFinal /\ RecoveryCleans)
<1>1. StoreInv => JournalExclusive /\ NoOrphanFinal /\ RecoveryCleans
  BY StoreInvImplies
<1> QED BY <1>1, StoreInvariant, PTL

\* What a reader finds is what the manifest lists, so a step of the store is a
\* step of the catalogue as soon as it changes a row.
Catalogued == [s \in Snapshots |-> IF s \in Visible THEN 0..(manifest[s] - 1) ELSE {}]

LEMMA ContentIsCatalogued ==
    ASSUME StoreInv, RetentionWindow # 0
    PROVE  [s \in Snapshots |-> IF s \in Visible THEN FilesOf("final", s) ELSE {}] = Catalogued
<1>1. \A s \in Visible : FilesOf("final", s) = 0..(manifest[s] - 1)
  BY DEF StoreInv, RowOK, Whole, Visible
<1> QED BY <1>1 DEF Catalogued

LEMMA CatalogStep ==
    ASSUME RetentionWindow # 0, StoreInv, StoreInv', [StoreNext]_storeVars
    PROVE  [Catalog!CatalogNext]_(Catalog!catalogVars)
<1> DEFINE found == [s \in Snapshots |-> IF s \in Visible THEN FilesOf("final", s) ELSE {}]
<1>1. found = Catalogued
  BY ContentIsCatalogued
<1>2. found' = Catalogued'
  <2>1. \A s \in Visible' : FilesOf("final", s)' = 0..(manifest'[s] - 1)
    BY DEF StoreInv, RowOK, Whole, Visible
  <2> QED BY <2>1 DEF Catalogued
<1>3. StTyped /\ StTyped'
  BY DEF StoreInv
<1> HIDE DEF found
<1>4. ASSUME UNCHANGED <<snapRow, manifest>> PROVE UNCHANGED <<Visible, found>>
  BY <1>1, <1>2, <1>4 DEF Visible, Catalogued
<1>5. ASSUME NEW s \in Snapshots, CommitManifest(s) PROVE Catalog!CatalogNext \/ UNCHANGED <<Visible, found>>
  <2>1. CASE UNCHANGED dbVars
    BY <1>4, <2>1 DEF dbVars
  <2>2. CASE /\ snapRow[s] = "none" /\ snapRow' = [snapRow EXCEPT ![s] = "visible"]
             /\ manifest' = [manifest EXCEPT ![s] = snapWriter[s].staged]
    <3>0. snapWriter[s].staged \in 0..MaxParts
      BY <1>3 DEF StTyped, WriterRows
    <3>1. PICK n \in 0..MaxParts : n = snapWriter[s].staged
      BY <3>0
    <3>2. s \notin Visible /\ Visible' = Visible \cup {s}
      BY <1>3, <2>2 DEF Visible, StTyped
    <3>3. Catalogued' = [Catalogued EXCEPT ![s] = 0..(n - 1)]
      BY <1>3, <2>2, <3>1, <3>2 DEF Catalogued, StTyped
    <3>4. found' = [found EXCEPT ![s] = 0..(n - 1)]
      BY <1>1, <1>2, <3>3
    <3>5. Catalog!Publish(s, n)
      BY <3>2, <3>4 DEF Catalog!Publish, found
    <3> QED BY <3>5 DEF Catalog!CatalogNext
  <2> QED BY <1>5, <2>1, <2>2 DEF CommitManifest
<1>6. ASSUME NEW old \in SUBSET Visible, Visible' = Visible \ old, manifest' = manifest PROVE Catalog!CatalogNext
  <2>1. Catalogued' = [s \in Snapshots |-> IF s \in old THEN {} ELSE Catalogued[s]]
    BY <1>6 DEF Catalogued
  <2>2. found' = [s \in Snapshots |-> IF s \in old THEN {} ELSE found[s]]
    BY <1>1, <1>2, <2>1
  <2>3. Catalog!Retire(old)
    BY <1>6, <2>2 DEF Catalog!Retire, found
  <2> QED BY <2>3 DEF Catalog!CatalogNext
<1>7. ASSUME NEW s \in Snapshots, TombstoneSnapshot(s) PROVE Catalog!CatalogNext
  <2>1. {s} \in SUBSET Visible /\ Visible' = Visible \ {s} /\ manifest' = manifest
    BY <1>3, <1>7 DEF TombstoneSnapshot, Visible, StTyped
  <2> QED BY <1>6, <2>1
<1>8. ASSUME DeleteRow PROVE UNCHANGED <<Visible, found>>
  <2>1. snapRow[maint.cur] = "tombstoned" /\ manifest' = manifest
        /\ snapRow' = [snapRow EXCEPT ![maint.cur] = "none"]
    BY <1>8 DEF DeleteRow, MaintAt, StoreInv, MaintSound
  <2>2. Visible' = Visible
    BY <1>3, <2>1 DEF Visible, StTyped
  <2> QED BY <1>1, <1>2, <2>1, <2>2 DEF Catalogued
<1>9. ASSUME CommitRetention PROVE Catalog!CatalogNext
  <2>1. /\ \A s \in maint.fresh : snapRow[s] = "visible"
        /\ maint.fresh \subseteq Snapshots /\ maint.gone \subseteq Tombstoned
    BY <1>9 DEF CommitRetention, MaintAt, StoreInv, StTyped, MaintRows, MaintSound, Doomed
  <2>2. /\ manifest' = manifest
        /\ snapRow' = [s \in Snapshots |-> IF s \in maint.gone THEN "none"
                                           ELSE IF s \in maint.fresh THEN "tombstoned" ELSE snapRow[s]]
    BY <1>9 DEF CommitRetention
  <2>3. Visible' = Visible \ maint.fresh /\ maint.fresh \in SUBSET Visible
    BY <2>1, <2>2 DEF Visible, Tombstoned
  <2> QED BY <1>6, <2>2, <2>3
<1>10. CASE UNCHANGED storeVars
  BY <1>4, <1>10 DEF storeVars, diskVars, dbVars, found, Catalog!catalogVars
<1>11. ASSUME NEW s \in Snapshots, WriterStep(s) PROVE Catalog!CatalogNext \/ UNCHANGED <<Visible, found>>
  BY <1>4, <1>5, <1>11 DEF WriterStep, BeginSnapshot, CreateStaging, AppendPartition, DropWriter, CreateFinal,
     InstallPartition, SyncFinal, RemoveBestEffort, AbortJournal, diskVars, dbVars
<1>12. ASSUME NEW r \in Readers, ReadPartition(r) \/ CloseReader(r) \/ \E s \in Snapshots : OpenReader(r, s)
       PROVE  UNCHANGED <<Visible, found>>
  BY <1>4, <1>12 DEF ReadPartition, CloseReader, OpenReader, diskVars, dbVars
<1>13. ASSUME MaintStep PROVE Catalog!CatalogNext \/ UNCHANGED <<Visible, found>>
  <2>1. ASSUME ~DeleteRow, ~CommitRetention PROVE UNCHANGED <<snapRow, manifest>>
    BY <1>13, <2>1 DEF MaintStep, BeginRecover, RecoverPublication, CollectSnapshot, RetainCandidate,
       RemoveStagingResidue, RemoveInstalledResidue, DeletePublication, ScanOrphans, RemoveOrphan, BeginCollect,
       CollectFiles, BeginRetention, RetainFiles, EndMaintenance, diskVars, dbVars
  <2> QED BY <1>4, <1>8, <1>9, <2>1
<1>14. ASSUME Crash \/ PowerLoss PROVE UNCHANGED <<Visible, found>>
  BY <1>4, <1>14 DEF Crash, PowerLoss, diskVars, dbVars
<1>15. CASE StoreNext
  <2>1. Catalog!CatalogNext \/ UNCHANGED <<Visible, found>>
    BY <1>7, <1>11, <1>12, <1>13, <1>14, <1>15 DEF StoreNext
  <2> QED BY <2>1 DEF Catalog!catalogVars, found
<1> QED BY <1>10, <1>15

\* SnapshotCatalog.tla: with a retention window that is not 0 the store is a
\* catalogue of immutable datasets.  Through crashes, power losses, failing
\* removals, recovery and collection a dataset appears whole, in the step that
\* commits its manifest, never changes, and disappears whole.
THEOREM StoreImplementsCatalog == RetentionWindow # 0 => (StoreSpec => ImplementsCatalog)
<1> SUFFICES ASSUME RetentionWindow # 0 PROVE StoreSpec => ImplementsCatalog
    OBVIOUS
<1>1. StoreInit => Catalog!CatalogInit
  BY DEF StoreInit, Catalog!CatalogInit, Visible
<1>2. StoreInv /\ StoreInv' /\ [StoreNext]_storeVars => [Catalog!CatalogNext]_(Catalog!catalogVars)
  BY CatalogStep
<1> QED BY <1>1, <1>2, StoreInvariant, PTL DEF StoreSpec, ImplementsCatalog, Catalog!CatalogSpec

-----------------------------------------------------------------------------
(* Opening and migration.                                                  *)

OpenerPcs == {"closed", "migrating", "open", "refused"}

\* OpenIsCurrent, with the lock tied to who migrates or uses the root.
OpenInv ==
    /\ opnVersion \in Nat /\ opnRows \in Nat
    /\ opnPc \in [Openers -> OpenerPcs] /\ opnHolder \subseteq Openers
    /\ \A p, q \in opnHolder : p = q
    /\ \A p \in Openers : opnPc[p] \in {"migrating", "open"} <=> p \in opnHolder
    /\ opnTables = TablesAt(opnVersion)
    /\ opnRows > SchemaVersion => opnVersion = opnRows
    /\ \A p \in Openers : opnPc[p] = "open" => opnVersion = SchemaVersion

\* The version that creates a table.
BornAt(table) ==
    CASE table \in {"publications", "snapshots", "partitions"} -> 1
      [] table \in {"bundle_publications", "verification_bundles", "artifact_manifests"} -> 2
      [] table \in {"export_publications", "export_journal", "export_manifests", "export_tombstones"} -> 3
      [] table \in {"cp_workspaces", "cp_sessions", "cp_connections", "cp_assets", "cp_datasets", "cp_plans",
                    "cp_plan_versions", "cp_jobs", "cp_runs", "cp_events", "cp_idempotency_keys",
                    "cp_artifact_refs"} -> 4
      [] table = "cp_artifact_bodies" -> 5
      [] table = "qd1_profile_history" -> 6
      [] table = "qd1_drift_comparisons" -> 7
      [] table \in {"sec_members", "sec_roles", "sec_role_capabilities", "sec_member_roles",
                    "sec_service_accounts", "sec_credentials"} -> 8
      [] table = "audit_events" -> 9
      [] table = "retention_tombstones" -> 10
      [] table = "aut_schedules" -> 11
      [] table = "aut_executions" -> 12
      [] OTHER -> 13

LEMMA VersionSteps ==
    /\ Creates(1) = VersionOne.creates /\ Creates(2) = VersionTwo.creates /\ Creates(3) = VersionThree.creates
    /\ Creates(4) = VersionFour.creates /\ Creates(5) = VersionFive.creates /\ Creates(6) = VersionSix.creates
    /\ Creates(7) = VersionSeven.creates /\ Creates(8) = VersionEight.creates /\ Creates(9) = VersionNine.creates
    /\ Creates(10) = VersionTen.creates /\ Creates(11) = VersionEleven.creates
    /\ Creates(12) = VersionTwelve.creates /\ Creates(13) = VersionThirteen.creates
BY DEF Creates, Steps

LEMMA VersionReferences ==
    /\ References(1) = VersionOne.references /\ References(2) = VersionTwo.references
    /\ References(3) = VersionThree.references /\ References(4) = VersionFour.references
    /\ References(5) = VersionFive.references /\ References(6) = VersionSix.references
    /\ References(7) = VersionSeven.references /\ References(8) = VersionEight.references
    /\ References(9) = VersionNine.references /\ References(10) = VersionTen.references
    /\ References(11) = VersionEleven.references /\ References(12) = VersionTwelve.references
    /\ References(13) = VersionThirteen.references
BY DEF References, Steps

\* No two versions create the same table.
LEMMA TablesBornOnce ==
    ASSUME NEW v \in 1..SchemaVersion, NEW table \in Creates(v)
    PROVE  BornAt(table) = v
<1>1. CASE v = 1 BY <1>1, VersionSteps DEF VersionOne, Step, BornAt
<1>2. CASE v = 2 BY <1>2, VersionSteps DEF VersionTwo, Step, BornAt
<1>3. CASE v = 3 BY <1>3, VersionSteps DEF VersionThree, Step, BornAt
<1>4. CASE v = 4 BY <1>4, VersionSteps DEF VersionFour, Step, BornAt
<1>5. CASE v = 5 BY <1>5, VersionSteps DEF VersionFive, Step, BornAt
<1>6. CASE v = 6 BY <1>6, VersionSteps DEF VersionSix, Step, BornAt
<1>7. CASE v = 7 BY <1>7, VersionSteps DEF VersionSeven, Step, BornAt
<1>8. CASE v = 8 BY <1>8, VersionSteps DEF VersionEight, Step, BornAt
<1>9. CASE v = 9 BY <1>9, VersionSteps DEF VersionNine, Step, BornAt
<1>10. CASE v = 10 BY <1>10, VersionSteps DEF VersionTen, Step, BornAt
<1>11. CASE v = 11 BY <1>11, VersionSteps DEF VersionEleven, Step, BornAt
<1>12. CASE v = 12 BY <1>12, VersionSteps DEF VersionTwelve, Step, BornAt
<1>13. CASE v = 13 BY <1>13, VersionSteps DEF VersionThirteen, Step, BornAt
<1> QED
  BY <1>1, <1>2, <1>3, <1>4, <1>5, <1>6, <1>7, <1>8, <1>9, <1>10, <1>11, <1>12, <1>13 DEF SchemaVersion

\* A version refers to tables of its own and of the versions below it.
LEMMA ReferencesBorn ==
    ASSUME NEW v \in 1..SchemaVersion, NEW table \in References(v)
    PROVE  \E u \in 1..v : table \in Creates(u)
<1> USE VersionSteps, VersionReferences DEF Step
<1>1. \A t \in {"cp_workspaces", "cp_sessions", "cp_jobs", "cp_runs", "cp_datasets", "cp_artifact_refs"} : t \in Creates(4)
  BY DEF VersionFour
<1>2. /\ "snapshots" \in Creates(1) /\ "verification_bundles" \in Creates(2)
      /\ "qd1_profile_history" \in Creates(6) /\ "aut_schedules" \in Creates(11)
      /\ "cp_graph_revisions" \in Creates(13)
  BY DEF VersionOne, VersionTwo, VersionSix, VersionEleven, VersionThirteen
<1>3. /\ References(1) \cup References(2) \subseteq {"snapshots", "verification_bundles"}
      /\ References(1) = {"snapshots"} /\ References(3) = {} /\ References(10) = {}
  BY DEF VersionOne, VersionTwo, VersionThree, VersionTen
<1>4. References(4) \subseteq {"snapshots", "verification_bundles"} \cup
                              {"cp_workspaces", "cp_sessions", "cp_jobs", "cp_runs", "cp_datasets", "cp_artifact_refs"}
  BY DEF VersionFour
<1>5. \A w \in {5, 6, 8, 9} :
        References(w) \subseteq {"cp_workspaces", "cp_sessions", "cp_jobs", "cp_runs", "cp_datasets", "cp_artifact_refs"}
  BY DEF VersionFive, VersionSix, VersionEight, VersionNine
<1>6. References(7) \subseteq {"qd1_profile_history"} \cup
                              {"cp_workspaces", "cp_sessions", "cp_jobs", "cp_runs", "cp_datasets", "cp_artifact_refs"}
  BY DEF VersionSeven
<1>7. References(11) \cup References(12) \subseteq {"cp_workspaces", "aut_schedules"}
  BY DEF VersionEleven, VersionTwelve
<1>8. References(13) \subseteq {"cp_workspaces", "cp_graph_revisions"}
  BY DEF VersionThirteen
<1>9. v \in {1, 2, 3, 4, 5, 6, 7, 8, 9, 10, 11, 12, 13}
  BY DEF SchemaVersion
<1> QED
  BY <1>1, <1>2, <1>3, <1>4, <1>5, <1>6, <1>7, <1>8, <1>9

\* With the tables of a version, the step to the next one fits.
LEMMA NextStepFits ==
    ASSUME NEW v \in 0..(SchemaVersion - 1), opnTables = TablesAt(v)
    PROVE  StepFits(v + 1)
<1>1. v + 1 \in 1..SchemaVersion /\ v \in Nat
  BY DEF SchemaVersion
<1>2. Creates(v + 1) \cap opnTables = {}
  <2> SUFFICES ASSUME NEW table \in Creates(v + 1), NEW u \in 1..v, table \in Creates(u) PROVE FALSE
    BY DEF TablesAt
  <2>1. u \in 1..SchemaVersion /\ u # v + 1
    BY <1>1 DEF SchemaVersion
  <2> QED
    BY <1>1, <2>1, TablesBornOnce
<1>3. References(v + 1) \subseteq opnTables \cup Creates(v + 1)
  <2> SUFFICES ASSUME NEW table \in References(v + 1) PROVE table \in opnTables \cup Creates(v + 1)
    OBVIOUS
  <2>1. PICK u \in 1..(v + 1) : table \in Creates(u)
    BY <1>1, ReferencesBorn
  <2>2. u = v + 1 \/ u \in 1..v
    BY <1>1
  <2> QED
    BY <2>1, <2>2 DEF TablesAt
<1> QED
  BY <1>2, <1>3 DEF StepFits

LEMMA TablesOfNext ==
    ASSUME NEW v \in Nat
    PROVE  TablesAt(v + 1) = TablesAt(v) \cup Creates(v + 1)
<1>1. 1..(v + 1) = (1..v) \cup {v + 1}
  OBVIOUS
<1> QED
  BY <1>1 DEF TablesAt

LEMMA OpenInvImplies ==
    ASSUME OpenInv
    PROVE  OpenIsCurrent
<1>1. Cardinality(opnHolder) <= 1
  <2>1. CASE opnHolder = {}
    BY <2>1, FS_EmptySet
  <2>2. CASE opnHolder # {}
    <3>1. PICK p \in opnHolder : opnHolder = {p}
      BY <2>2 DEF OpenInv
    <3> QED
      BY <3>1, FS_Singleton
  <2> QED
    BY <2>1, <2>2
<1>2. opnVersion < SchemaVersion => StepFits(opnVersion + 1)
  <2>1. opnVersion < SchemaVersion => opnVersion \in 0..(SchemaVersion - 1)
    BY DEF OpenInv, SchemaVersion
  <2> QED
    BY <2>1, NextStepFits DEF OpenInv
<1> QED
  BY <1>1, <1>2 DEF OpenInv, OpenIsCurrent

LEMMA OpenInductive ==
    ASSUME OpenInv, [OpeningNext]_opnVars
    PROVE  OpenInv'
<1>1. ASSUME NEW p \in Openers, OpenRoot(p) PROVE OpenInv'
  BY <1>1 DEF OpenInv, OpenRoot, RootIsFree, OpenerPcs, TablesAt
<1>2. ASSUME NEW p \in Openers, Migrate(p) PROVE OpenInv'
  <2>1. /\ opnVersion' = opnVersion + 1 /\ opnTables' = TablesAt(opnVersion + 1)
        /\ UNCHANGED <<opnRows, opnHolder, opnPc>> /\ opnVersion < SchemaVersion
    BY <1>2, TablesOfNext DEF OpenInv, Migrate
  <2> QED
    BY <2>1 DEF OpenInv, SchemaVersion
<1>3. ASSUME NEW p \in Openers, FinishOpen(p) PROVE OpenInv'
  BY <1>3 DEF OpenInv, FinishOpen, OpenerPcs, TablesAt
<1>4. ASSUME NEW p \in Openers, CloseRoot(p) PROVE OpenInv'
  BY <1>4 DEF OpenInv, CloseRoot, OpenerPcs, TablesAt
<1>5. CASE UNCHANGED opnVars
  BY <1>5 DEF OpenInv, opnVars, TablesAt
<1> QED
  BY <1>1, <1>2, <1>3, <1>4, <1>5 DEF OpeningNext

\* open and migrate: for any number of processes and any version on disk.
THEOREM RootOpensCurrent == OpeningSpec => []OpenIsCurrent
<1>1. OpeningInit => OpenInv
  BY OpeningAssumption DEF OpeningInit, OpenInv, OpeningAssumption, OpenerPcs
<1> QED
  BY <1>1, OpenInductive, OpenInvImplies, PTL DEF OpeningSpec

-----------------------------------------------------------------------------
(* Backup and restore.                                                     *)

WholeCopy(rows, files) == {<<Database, rows>>} \cup {<<s, {s}>> : s \in files}

\* The source while others publish and collect: a listed Snapshot has its file,
\* and nobody is at work while a backup copies.
SourceSound ==
    /\ bakRows \subseteq bakFiles /\ bakRows \cap bakWriter = {}
    /\ Gated => bakWriter = {} /\ ~bakBackup.published
\* What the staging directory holds.
StageSound ==
    /\ bakPc \in {"idle", "copy", "publish", "restore"}
    /\ bakPc = "copy" /\ bakStage # {} =>
         <<Database, bakRows>> \in bakStage /\ bakStage \subseteq WholeCopy(bakRows, bakFiles)
    /\ bakPc = "publish" => bakStage = WholeCopy(bakRows, bakFiles)
    /\ bakPc = "restore" =>
         bakBackup.published /\ ManifestValid(bakBackup.files) /\ bakStage \subseteq bakBackup.files
\* What was published.
CopiesSound ==
    /\ bakBackup = NoRoot \/ bakBackup = [published |-> TRUE, files |-> bakBackup.files]
    /\ bakRestored = NoRoot \/ bakRestored = [published |-> TRUE, files |-> bakRestored.files]
    /\ bakBackup.published =>
         bakBackup.files = WholeCopy(bakTaken.rows, bakTaken.files) /\ bakTaken.rows \subseteq bakTaken.files
    /\ bakRestored.published => bakBackup.published /\ bakRestored.files = bakBackup.files
BakInv == SourceSound /\ StageSound /\ CopiesSound

LEMMA BackupInductive ==
    ASSUME BakInv, [BackupNext]_bakVars
    PROVE  BakInv'
<1> USE DEF BakInv
<1>1. ASSUME NEW s \in BackedSnapshots, PublishFile(s) PROVE BakInv'
  BY <1>1 DEF PublishFile, SourceSound, StageSound, CopiesSound, Gated
<1>2. ASSUME NEW s \in BackedSnapshots, PublishRow(s) PROVE BakInv'
  BY <1>2 DEF PublishRow, SourceSound, StageSound, CopiesSound, Gated
<1>3. ASSUME NEW s \in BackedSnapshots, CollectSource(s) PROVE BakInv'
  BY <1>3 DEF CollectSource, SourceSound, StageSound, CopiesSound, Gated
<1>4. CASE StartBackup
  BY <1>4 DEF StartBackup, MayBackup, SourceSound, StageSound, CopiesSound, Gated
<1>5. CASE CopySource
  <2>1. SourceSound' /\ CopiesSound'
    BY <1>5 DEF CopySource, SourceSound, CopiesSound, Gated
  <2>2. CASE bakStage = {} /\ bakStage' = {<<Database, bakRows>>} /\ UNCHANGED bakPc
    <3>1. StageSound'
      BY <1>5, <2>2 DEF CopySource, StageSound, WholeCopy
    <3> QED
      BY <2>1, <3>1
  <2>3. ASSUME NEW s \in bakFiles, bakStage # {}, bakStage' = bakStage \cup {<<s, {s}>>}, UNCHANGED bakPc
        PROVE  BakInv'
    <3>1. <<s, {s}>> \in WholeCopy(bakRows, bakFiles)
      BY DEF WholeCopy
    <3>2. UNCHANGED <<bakRows, bakFiles, bakBackup>> /\ bakPc = "copy"
      BY <1>5 DEF CopySource
    <3>3. StageSound'
      BY <2>3, <3>1, <3>2 DEF StageSound
    <3> QED
      BY <2>1, <3>3
  <2>4. CASE /\ bakStage # {} /\ \A s \in bakFiles : <<s, {s}>> \in bakStage
             /\ bakPc' = "publish" /\ UNCHANGED bakStage
    <3>1. UNCHANGED <<bakRows, bakFiles>> /\ bakPc = "copy"
      BY <1>5 DEF CopySource
    <3>2. bakStage = WholeCopy(bakRows, bakFiles)
      BY <2>4, <3>1 DEF StageSound, WholeCopy
    <3>3. StageSound'
      BY <2>4, <3>1, <3>2 DEF StageSound
    <3> QED
      BY <2>1, <3>3
  <2> QED
    BY <1>5, <2>2, <2>3, <2>4 DEF CopySource
<1>6. CASE PublishBackup
  <2>1. SourceSound' /\ StageSound'
    BY <1>6 DEF PublishBackup, SourceSound, StageSound, Gated
  <2>2. CopiesSound'
    BY <1>6 DEF PublishBackup, SourceSound, StageSound, CopiesSound, Gated, NoRoot
  <2> QED
    BY <2>1, <2>2
<1>7. CASE BackupFault
  BY <1>7 DEF BackupFault, SourceSound, StageSound, CopiesSound, Gated
<1>8. CASE StartRestore
  BY <1>8 DEF StartRestore, SourceSound, StageSound, CopiesSound, Gated
<1>9. CASE RestoreFile
  <2>1. PICK x \in bakBackup.files :
          \/ bakStage' = bakStage \cup {x} /\ UNCHANGED bakPc
          \/ bakStage' = {} /\ bakPc' = "idle"
    BY <1>9 DEF RestoreFile, FileMatches
  <2>2. bakPc = "restore" /\ UNCHANGED <<bakRows, bakFiles, bakWriter, bakBackup, bakRestored, bakTaken>>
    BY <1>9 DEF RestoreFile
  <2> QED
    BY <2>1, <2>2 DEF SourceSound, StageSound, CopiesSound, Gated, ManifestValid
<1>10. CASE PublishRestore
  <2>1. bakStage = bakBackup.files
    <3>1. /\ {x[1] : x \in bakStage} = {x[1] : x \in bakBackup.files}
          /\ bakStage \subseteq bakBackup.files /\ ManifestValid(bakBackup.files)
      BY <1>10 DEF PublishRestore, StageSound
    <3>2. ASSUME NEW x \in bakBackup.files PROVE x \in bakStage
      <4>1. PICK y \in bakStage : y[1] = x[1]
        BY <3>1
      <4> QED
        BY <3>1, <4>1 DEF ManifestValid
    <3> QED
      BY <3>1, <3>2
  <2> QED
    BY <1>10, <2>1 DEF PublishRestore, SourceSound, StageSound, CopiesSound, Gated, NoRoot
<1>11. CASE UNCHANGED bakVars
  BY <1>11 DEF bakVars, SourceSound, StageSound, CopiesSound, Gated
<1> QED
  BY <1>1, <1>2, <1>3, <1>4, <1>5, <1>6, <1>7, <1>8, <1>9, <1>10, <1>11 DEF BackupNext

\* backup and restore: for any Snapshots, deaths and damaged files.
THEOREM BackupsAreWhole == BackupSpec => [](BackupIsOneState /\ RestoreIsBackup)
<1>1. BackupInit => BakInv
  BY DEF BackupInit, BakInv, SourceSound, StageSound, CopiesSound, NoRoot, Gated
<1>2. BakInv => BackupIsOneState /\ RestoreIsBackup
  BY DEF BakInv, CopiesSound, BackupIsOneState, RestoreIsBackup, WholeCopy
<1> QED
  BY <1>1, <1>2, BackupInductive, PTL DEF BackupSpec

-----------------------------------------------------------------------------
(* The temporary dedup indexes.                                            *)

DedupLabels == {"fresh", "created", "locked", "live", "finish", "rollback", "unlink", "done"}
KeysOf(s) == {s[i] : i \in DOMAIN s}
RowsOf(s) == Cardinality(DOMAIN s)
WithRow(s, k) == [i \in 1..(RowsOf(s) + 1) |-> IF i = RowsOf(s) + 1 THEN k ELSE s[i]]
SeenTyped(s) == \E n \in Nat : DOMAIN s = 1..n /\ \A i \in 1..n : s[i] \in DedupKeys

\* What is at temp/ agrees with where the owner of an index is; and a recovery
\* works on a run whose owner has let go of it.
DedTypes ==
    /\ dedFile \subseteq DedupRuns \X {"sqlite", "lock"}
    /\ dedPc \in [DedupRuns -> DedupLabels]
    /\ dedIndex \in [DedupRuns -> [DedupKeys -> Nat]]
    /\ dedRows \in [DedupRuns -> Nat] /\ dedSpent \in Nat
    /\ DOMAIN dedSeen = DedupRuns /\ \A r \in DedupRuns : SeenTyped(dedSeen[r])
DedFiles ==
    \A r \in DedupRuns :
        /\ dedPc[r] = "fresh" => \A kind \in {"sqlite", "lock"} : <<r, kind>> \notin dedFile
        /\ dedPc[r] \in {"created", "locked", "live"} => <<r, "lock">> \in dedFile
        /\ dedPc[r] = "live" => <<r, "sqlite">> \in dedFile
        /\ dedPc[r] = "unlink" => <<r, "sqlite">> \notin dedFile
        /\ dedPc[r] = "done" /\ dedSpent = 0 => \A kind \in {"sqlite", "lock"} : <<r, kind>> \notin dedFile
DedMaint ==
    \/ dedMaint = NoDedupRun
    \/ \E r \in DedupRuns : \E step \in {"sqlite", "lock"} :
            /\ dedMaint = [of |-> {r}, step |-> step]
            /\ dedPc[r] \in {"finish", "unlink", "done"}
DedInv == DedTypes /\ DedFiles /\ DedMaint /\ FirstSeen

\* What is inserted is the row after the last, and the keys seen are those seen
\* before and the new one.
LEMMA InsertedRow ==
    ASSUME NEW s, SeenTyped(s), NEW k \in DedupKeys
    PROVE  /\ RowsOf(s) \in Nat /\ DOMAIN s = 1..RowsOf(s)
           /\ SeenTyped(WithRow(s, k)) /\ DOMAIN WithRow(s, k) = 1..(RowsOf(s) + 1)
           /\ WithRow(s, k)[RowsOf(s) + 1] = k /\ \A i \in 1..RowsOf(s) : WithRow(s, k)[i] = s[i]
           /\ KeysOf(WithRow(s, k)) = KeysOf(s) \cup {k} /\ IsFiniteSet(KeysOf(s))
  <1>1. PICK n \in Nat : DOMAIN s = 1..n /\ \A i \in 1..n : s[i] \in DedupKeys
    BY DEF SeenTyped
  <1>2. RowsOf(s) = n
    <2>1. Cardinality(1..n) = IF 1 > n THEN 0 ELSE n - 1 + 1  BY FS_Interval
    <2> QED  BY <1>1, <2>1 DEF RowsOf
  <1> DEFINE t == WithRow(s, k)
  <1>3. DOMAIN t = 1..(n + 1) /\ t[n + 1] = k /\ \A i \in 1..n : t[i] = s[i]
    BY <1>2 DEF WithRow
  <1> HIDE DEF t
  <1>4. \A i \in 1..(n + 1) : i = n + 1 \/ i \in 1..n
    OBVIOUS
  <1>5. SeenTyped(t)
    <2>1. \A i \in 1..(n + 1) : t[i] \in DedupKeys  BY <1>1, <1>3, <1>4
    <2>2. n + 1 \in Nat  BY <1>1
    <2> QED  BY <1>3, <2>1, <2>2, Zenon DEF SeenTyped
  <1>6. KeysOf(t) = KeysOf(s) \cup {k}
    <2>1. ASSUME NEW x \in KeysOf(t) PROVE x \in KeysOf(s) \cup {k}
      BY <1>1, <1>3, <1>4, <2>1 DEF KeysOf
    <2>2. KeysOf(s) \subseteq KeysOf(t)
      <3>1. \A i \in 1..n : i \in 1..(n + 1)  OBVIOUS
      <3> QED  BY <1>1, <1>3, <3>1 DEF KeysOf
    <2>3. k \in KeysOf(t)
      <3>1. n + 1 \in 1..(n + 1)  OBVIOUS
      <3> QED  BY <1>3, <3>1 DEF KeysOf
    <2> QED  BY <2>1, <2>2, <2>3
  <1>7. IsFiniteSet(KeysOf(s))
    <2>1. IsFiniteSet(DedupKeys)  BY DedupAssumption
    <2>2. KeysOf(s) \in SUBSET DedupKeys  BY <1>1 DEF KeysOf
    <2> QED  BY <2>1, <2>2, FS_Subset
  <1> QED  BY <1>1, <1>2, <1>3, <1>5, <1>6, <1>7 DEF t

LEMMA DedupInitInv == DedupInit => DedInv
  <1> SUFFICES ASSUME DedupInit PROVE DedInv
    OBVIOUS
  <1> USE DEF DedupInit
  <1>1. DOMAIN <<>> = 1..0 /\ DOMAIN <<>> = {}
    OBVIOUS
  <1>2. SeenTyped(<<>>)
    BY <1>1 DEF SeenTyped
  <1>3. DedTypes
    BY <1>2, DedupAssumption DEF DedTypes, DedupLabels
  <1>4. DedFiles /\ DedMaint
    BY DEF DedFiles, DedMaint
  <1>5. FirstSeen
    <2> SUFFICES ASSUME NEW r \in DedupRuns
                 PROVE  /\ \A k \in DedupKeys : {i \in DOMAIN dedSeen[r] : dedSeen[r][i] = k} = {} /\ dedIndex[r][k] = 0
                        /\ dedRows[r] = Cardinality({dedSeen[r][i] : i \in DOMAIN dedSeen[r]})
      BY DEF FirstSeen
    <2>1. DOMAIN dedSeen[r] = {}  BY <1>1
    <2>2. {dedSeen[r][i] : i \in DOMAIN dedSeen[r]} = {}  BY <2>1
    <2>3. Cardinality({}) = 0  BY FS_EmptySet
    <2> QED  BY <2>1, <2>2, <2>3
  <1> QED  BY <1>3, <1>4, <1>5 DEF DedInv

\* insert_first.
LEMMA InsertKeepsFirst ==
    ASSUME DedInv, NEW r \in DedupRuns, NEW k \in DedupKeys, InsertFirst(r, k)
    PROVE  DedTypes' /\ FirstSeen'
  <1> DEFINE n == RowsOf(dedSeen[r])
             t == WithRow(dedSeen[r], k)
  <1>t. DedTypes /\ FirstSeen /\ SeenTyped(dedSeen[r])
    BY DEF DedInv, DedTypes
  <1>1. /\ n \in Nat /\ DOMAIN dedSeen[r] = 1..n /\ SeenTyped(t) /\ DOMAIN t = 1..(n + 1)
        /\ t[n + 1] = k /\ \A i \in 1..n : t[i] = dedSeen[r][i]
        /\ KeysOf(t) = KeysOf(dedSeen[r]) \cup {k} /\ IsFiniteSet(KeysOf(dedSeen[r]))
    BY <1>t, InsertedRow
  <1>2. CASE dedRows[r] >= MaxDedupRows
    <2>1. /\ dedPc' = [dedPc EXCEPT ![r] = "finish"]
          /\ UNCHANGED <<dedIndex, dedRows, dedSeen, dedFile, dedMaint, dedSpent>>
      BY <1>2 DEF InsertFirst, DedGoto
    <2>2. DedTypes'
      BY <1>t, <2>1 DEF DedTypes, DedupLabels
    <2> QED  BY <1>t, <2>1, <2>2 DEF FirstSeen
  <1>3. CASE ~(dedRows[r] >= MaxDedupRows)
    <2>1. /\ dedSeen' = [dedSeen EXCEPT ![r] = t]
          /\ dedIndex' = [dedIndex EXCEPT ![r][k] = KeepFirst(dedIndex[r][k], n + 1)]
          /\ dedRows' = [dedRows EXCEPT ![r] = IF dedIndex[r][k] = 0 THEN dedRows[r] + 1 ELSE dedRows[r]]
          /\ UNCHANGED <<dedPc, dedFile, dedMaint, dedSpent>>
      BY <1>3 DEF InsertFirst, RowsOf, WithRow
    <2> HIDE DEF n, t
    <2>2. DedTypes'
      <3>1. \A x \in DedupRuns : SeenTyped(dedSeen'[x])
        <4> SUFFICES ASSUME NEW x \in DedupRuns PROVE SeenTyped(dedSeen'[x])
          OBVIOUS
        <4>1. CASE x = r
          <5>1. dedSeen'[x] = t  BY <1>t, <2>1, <4>1 DEF DedTypes
          <5> QED  BY <5>1, <1>1
        <4>2. CASE x # r
          <5>1. dedSeen'[x] = dedSeen[x]  BY <1>t, <2>1, <4>2 DEF DedTypes
          <5> QED  BY <5>1, <1>t DEF DedTypes
        <4> QED  BY <4>1, <4>2
      <3>2. dedIndex' \in [DedupRuns -> [DedupKeys -> Nat]]
        BY <1>t, <1>1, <2>1 DEF DedTypes, KeepFirst
      <3>3. dedRows' \in [DedupRuns -> Nat]
        BY <1>t, <2>1 DEF DedTypes
      <3>4. DOMAIN dedSeen' = DedupRuns
        BY <1>t, <2>1 DEF DedTypes
      <3>5. /\ dedFile' \subseteq DedupRuns \X {"sqlite", "lock"} /\ dedPc' \in [DedupRuns -> DedupLabels]
            /\ dedSpent' \in Nat
        BY <1>t, <2>1 DEF DedTypes
      <3> QED  BY <3>1, <3>2, <3>3, <3>4, <3>5 DEF DedTypes
    <2>3. \A x \in DedupRuns : x # r => /\ dedSeen'[x] = dedSeen[x] /\ dedIndex'[x] = dedIndex[x]
                                        /\ dedRows'[x] = dedRows[x]
      BY <1>t, <2>1 DEF DedTypes
    <2>4. /\ dedSeen'[r] = t /\ dedIndex'[r][k] = KeepFirst(dedIndex[r][k], n + 1)
          /\ \A x \in DedupKeys : x # k => dedIndex'[r][x] = dedIndex[r][x]
          /\ dedRows'[r] = IF dedIndex[r][k] = 0 THEN dedRows[r] + 1 ELSE dedRows[r]
      BY <1>t, <2>1 DEF DedTypes
    <2> DEFINE at(x) == {i \in DOMAIN dedSeen[r] : dedSeen[r][i] = x}
    <2>5. \A x \in DedupKeys : /\ at(x) \subseteq 1..n
                               /\ IF at(x) = {} THEN dedIndex[r][x] = 0
                                  ELSE dedIndex[r][x] \in at(x) /\ \A i \in at(x) : dedIndex[r][x] <= i
      BY <1>t, <1>1 DEF FirstSeen
    <2>6. ASSUME NEW x \in DedupKeys
          PROVE  LET new == {i \in DOMAIN t : t[i] = x}
                 IN IF new = {} THEN dedIndex'[r][x] = 0
                    ELSE dedIndex'[r][x] \in new /\ \A i \in new : dedIndex'[r][x] <= i
      <3> DEFINE new == {i \in DOMAIN t : t[i] = x}
      <3>1. CASE x # k
        <4>1. new = at(x)  BY <1>1, <3>1
        <4> QED  BY <4>1, <2>4, <2>5, <3>1
      <3>2. CASE x = k
        <4>1. new = at(x) \cup {n + 1}  BY <1>1, <3>2
        <4>2. CASE at(x) = {}
          <5>1. dedIndex'[r][x] = n + 1  BY <2>4, <2>5, <3>2, <4>2 DEF KeepFirst
          <5> QED  BY <4>1, <4>2, <5>1, <1>1
        <4>3. CASE at(x) # {}
          <5>1. dedIndex[r][x] \in at(x) /\ (\A i \in at(x) : dedIndex[r][x] <= i) /\ dedIndex[r][x] \in 1..n
            BY <2>5, <4>3
          <5>2. dedIndex'[r][x] = dedIndex[r][x]
            BY <2>4, <3>2, <5>1 DEF KeepFirst
          <5>3. dedIndex'[r][x] \in new /\ new # {}  BY <4>1, <5>1, <5>2
          <5>4. ASSUME NEW i \in new PROVE dedIndex'[r][x] <= i
            <6>1. i \in at(x) \/ i = n + 1  BY <4>1
            <6> HIDE DEF new, at
            <6> QED  BY <6>1, <5>1, <5>2, <1>1
          <5> HIDE DEF at
          <5> QED  BY <5>3, <5>4
        <4> QED  BY <4>2, <4>3
      <3> QED  BY <3>1, <3>2
    <2>7. dedRows'[r] = Cardinality(KeysOf(t))
      <3> DEFINE old == KeysOf(dedSeen[r])
      <3>1. dedRows[r] = Cardinality(old)
        BY <1>t DEF FirstSeen, KeysOf
      <3>2. Cardinality(old \cup {k}) = IF k \in old THEN Cardinality(old) ELSE Cardinality(old) + 1
        BY <1>1, FS_AddElement
      <3>3. k \in old <=> at(k) # {}
        BY DEF KeysOf
      <3>4. at(k) # {} <=> dedIndex[r][k] # 0
        <4>1. CASE at(k) = {}  BY <4>1, <2>5
        <4>2. CASE at(k) # {}
          <5>1. dedIndex[r][k] \in 1..n  BY <2>5, <4>2
          <5> QED  BY <5>1, <4>2, <1>1
        <4> QED  BY <4>1, <4>2
      <3>5. KeysOf(t) = old \cup {k}
        BY <1>1
      <3> HIDE DEF old, at
      <3> QED  BY <3>1, <3>2, <3>3, <3>4, <3>5, <2>4
    <2>8. FirstSeen'
      <3> SUFFICES ASSUME NEW x \in DedupRuns
                   PROVE  /\ \A y \in DedupKeys :
                               LET new == {i \in DOMAIN dedSeen'[x] : dedSeen'[x][i] = y} IN
                               IF new = {} THEN dedIndex'[x][y] = 0
                               ELSE dedIndex'[x][y] \in new /\ \A i \in new : dedIndex'[x][y] <= i
                          /\ dedRows'[x] = Cardinality({dedSeen'[x][i] : i \in DOMAIN dedSeen'[x]})
        BY DEF FirstSeen
      <3>1. CASE x = r
        BY <3>1, <2>4, <2>6, <2>7 DEF KeysOf
      <3>2. CASE x # r
        <4>1. /\ dedSeen'[x] = dedSeen[x] /\ dedIndex'[x] = dedIndex[x] /\ dedRows'[x] = dedRows[x]
          BY <2>3, <3>2
        <4> QED  BY <4>1, <1>t DEF FirstSeen
      <3> QED  BY <3>1, <3>2
    <2> QED  BY <2>2, <2>8
  <1> QED  BY <1>2, <1>3

\* The other steps move labels and files only.
LEMMA FirstSeenStays ==
    ASSUME FirstSeen, UNCHANGED <<dedIndex, dedRows, dedSeen>>
    PROVE  FirstSeen'
  BY DEF FirstSeen

LEMMA DedupInductive == DedInv /\ [DedupNext]_dedVars => DedInv'
  <1> SUFFICES ASSUME DedInv, [DedupNext]_dedVars PROVE DedInv'
    OBVIOUS
  <1>t. DedTypes /\ DedFiles /\ DedMaint /\ FirstSeen
    BY DEF DedInv
  <1> DEFINE IndexesSame == UNCHANGED <<dedIndex, dedRows, dedSeen>>
  <1>q. ASSUME IndexesSame PROVE FirstSeen'
    BY <1>t, <1>q, FirstSeenStays
  <1>1. ASSUME NEW r \in DedupRuns, CreateDedupLock(r) PROVE DedInv'
    <2>1. /\ dedPc[r] = "fresh" /\ dedMaint = NoDedupRun /\ dedMaint' = NoDedupRun
          /\ <<r, "lock">> \notin dedFile /\ dedFile' = dedFile \cup {<<r, "lock">>}
          /\ dedPc' = [dedPc EXCEPT ![r] = "created"] /\ IndexesSame /\ dedSpent' = dedSpent
      BY <1>t, <1>1 DEF CreateDedupLock, DedGoto, DedFiles
    <2>2. DedTypes'  BY <1>t, <2>1 DEF DedTypes, DedupLabels
    <2>3. DedFiles'  BY <1>t, <2>1 DEF DedTypes, DedFiles
    <2>4. DedMaint'  BY <2>1 DEF DedMaint
    <2> QED  BY <1>q, <2>1, <2>2, <2>3, <2>4 DEF DedInv
  <1>2. ASSUME NEW r \in DedupRuns, LockDedup(r) PROVE DedInv'
    <2>1. /\ dedPc[r] = "created" /\ dedPc' = [dedPc EXCEPT ![r] = "locked"]
          /\ UNCHANGED <<dedFile, dedMaint, dedSpent>> /\ IndexesSame
      BY <1>t, <1>2 DEF LockDedup, DedGoto, DedFiles
    <2>2. DedTypes'  BY <1>t, <2>1 DEF DedTypes, DedupLabels
    <2>3. DedFiles'  BY <1>t, <2>1 DEF DedTypes, DedFiles
    <2>4. DedMaint'  BY <1>t, <2>1 DEF DedTypes, DedMaint
    <2> QED  BY <1>q, <2>1, <2>2, <2>3, <2>4 DEF DedInv
  <1>3. ASSUME NEW r \in DedupRuns, CreateDedupDatabase(r) PROVE DedInv'
    <2>1. /\ dedPc[r] = "locked" /\ UNCHANGED <<dedMaint, dedSpent>> /\ IndexesSame
          /\ \/ dedFile' = dedFile \cup {<<r, "sqlite">>} /\ dedPc' = [dedPc EXCEPT ![r] = "live"]
             \/ dedFile' = dedFile /\ dedPc' = [dedPc EXCEPT ![r] = "rollback"]
      BY <1>3 DEF CreateDedupDatabase, DedGoto
    <2>2. DedTypes'  BY <1>t, <2>1 DEF DedTypes, DedupLabels
    <2>3. DedFiles'  BY <1>t, <2>1 DEF DedTypes, DedFiles
    <2>4. DedMaint'  BY <1>t, <2>1 DEF DedTypes, DedMaint
    <2> QED  BY <1>q, <2>1, <2>2, <2>3, <2>4 DEF DedInv
  <1>4. ASSUME NEW r \in DedupRuns, NEW k \in DedupKeys, InsertFirst(r, k) PROVE DedInv'
    <2>1. DedTypes' /\ FirstSeen'
      BY <1>4, InsertKeepsFirst
    <2>2. /\ dedPc[r] = "live" /\ UNCHANGED <<dedFile, dedMaint, dedSpent>>
          /\ \/ dedPc' = [dedPc EXCEPT ![r] = "finish"] \/ dedPc' = dedPc
      BY <1>4 DEF InsertFirst, DedGoto
    <2>3. DedFiles'  BY <1>t, <2>2 DEF DedTypes, DedFiles
    <2>4. DedMaint'  BY <1>t, <2>2 DEF DedTypes, DedMaint
    <2> QED  BY <2>1, <2>3, <2>4 DEF DedInv
  <1>5. ASSUME NEW r \in DedupRuns, FinishDedup(r) PROVE DedInv'
    <2>1. /\ dedPc[r] = "live" /\ dedPc' = [dedPc EXCEPT ![r] = "finish"]
          /\ UNCHANGED <<dedFile, dedMaint, dedSpent>> /\ IndexesSame
      BY <1>5 DEF FinishDedup, DedGoto
    <2>2. DedTypes'  BY <1>t, <2>1 DEF DedTypes, DedupLabels
    <2>3. DedFiles'  BY <1>t, <2>1 DEF DedTypes, DedFiles
    <2>4. DedMaint'  BY <1>t, <2>1 DEF DedTypes, DedMaint
    <2> QED  BY <1>q, <2>1, <2>2, <2>3, <2>4 DEF DedInv
  <1>6. ASSUME NEW r \in DedupRuns, RemoveDedupFile(r) PROVE DedInv'
    <2>1. /\ UNCHANGED <<dedMaint, dedSpent>> /\ IndexesSame
          /\ \/ /\ dedPc[r] \in {"finish", "rollback"} /\ dedFile' = dedFile \ {<<r, "sqlite">>}
                /\ dedPc' = [dedPc EXCEPT ![r] = "unlink"]
             \/ /\ dedPc[r] = "unlink" /\ dedFile' = dedFile \ {<<r, "lock">>}
                /\ dedPc' = [dedPc EXCEPT ![r] = "done"]
      BY <1>6 DEF RemoveDedupFile, DedGoto
    <2>2. DedTypes'  BY <1>t, <2>1 DEF DedTypes, DedupLabels
    <2>3. DedFiles'  BY <1>t, <2>1 DEF DedTypes, DedFiles
    <2>4. DedMaint'  BY <1>t, <2>1 DEF DedTypes, DedMaint
    <2> QED  BY <1>q, <2>1, <2>2, <2>3, <2>4 DEF DedInv
  <1>7. ASSUME NEW r \in DedupRuns, RecoverDedup(r) PROVE DedInv'
    <2>1. /\ dedPc[r] \notin {"created", "locked", "rollback"} /\ ~DedupLockIsActive(r)
          /\ (\E kind \in {"sqlite", "lock"} : <<r, kind>> \in dedFile)
          /\ dedMaint' = [of |-> {r}, step |-> "sqlite"]
          /\ UNCHANGED <<dedFile, dedPc, dedSpent>> /\ IndexesSame
      BY <1>7 DEF RecoverDedup
    <2>2. dedPc[r] \in {"finish", "unlink", "done"}
      BY <1>t, <2>1 DEF DedTypes, DedupLabels, DedFiles, DedupLockIsActive, Locked
    <2>3. DedTypes'  BY <1>t, <2>1 DEF DedTypes
    <2>4. DedFiles'  BY <1>t, <2>1 DEF DedFiles
    <2>5. DedMaint'  BY <2>1, <2>2 DEF DedMaint
    <2> QED  BY <1>q, <2>1, <2>3, <2>4, <2>5 DEF DedInv
  <1>8. CASE RecoverDedupFile
    <2>1. PICK r \in DedupRuns, step \in {"sqlite", "lock"} :
            /\ dedMaint = [of |-> {r}, step |-> step] /\ dedPc[r] \in {"finish", "unlink", "done"}
      BY <1>t, <1>8 DEF RecoverDedupFile, DedMaint, NoDedupRun
    <2>2. /\ dedFile' = dedFile \ {<<r, step>>} /\ UNCHANGED <<dedPc, dedSpent>> /\ IndexesSame
          /\ dedMaint' = [of |-> {r}, step |-> "lock"] \/ dedMaint' = NoDedupRun
      BY <2>1, <1>8 DEF RecoverDedupFile
    <2>3. DedTypes'  BY <1>t, <2>2 DEF DedTypes
    <2>4. DedFiles'  BY <1>t, <2>1, <2>2 DEF DedFiles
    <2>5. DedMaint'  BY <2>1, <2>2 DEF DedMaint
    <2> QED  BY <1>q, <2>2, <2>3, <2>4, <2>5 DEF DedInv
  <1>9. CASE CrashDedup
    <2>1. /\ dedSpent' = dedSpent + 1 /\ dedMaint' = NoDedupRun /\ dedFile' = dedFile /\ IndexesSame
          /\ dedPc' = [r \in DedupRuns |-> IF dedPc[r] = "fresh" THEN "fresh" ELSE "done"]
      BY <1>9 DEF CrashDedup
    <2>2. DedTypes'  BY <1>t, <2>1 DEF DedTypes, DedupLabels
    <2>3. dedSpent' # 0  BY <1>t, <2>1 DEF DedTypes
    <2>4. \A r \in DedupRuns : dedPc'[r] = IF dedPc[r] = "fresh" THEN "fresh" ELSE "done"
      BY <2>1
    <2>5. DedFiles'  BY <1>t, <2>1, <2>3, <2>4, Zenon DEF DedFiles
    <2>6. DedMaint'  BY <2>1 DEF DedMaint
    <2> QED  BY <1>q, <2>1, <2>2, <2>5, <2>6 DEF DedInv
  <1>10. CASE UNCHANGED dedVars
    <2>1. DedTypes'  BY <1>t, <1>10 DEF dedVars, DedTypes
    <2>2. DedFiles' /\ DedMaint'  BY <1>t, <1>10 DEF dedVars, DedFiles, DedMaint
    <2> QED  BY <1>q, <1>10, <2>1, <2>2 DEF dedVars, DedInv
  <1> QED  BY <1>1, <1>2, <1>3, <1>4, <1>5, <1>6, <1>7, <1>8, <1>9, <1>10 DEF DedupNext, DedupStep

LEMMA DedInvImplies == DedInv => LiveIndexKept /\ FirstSeen
  <1> SUFFICES ASSUME DedInv PROVE LiveIndexKept
    BY DEF DedInv
  <1>1. \A r \in DedupRuns : dedPc[r] = "live" => {<<r, "sqlite">>, <<r, "lock">>} \subseteq dedFile
    BY DEF DedInv, DedFiles
  <1>2. ASSUME dedSpent = 0, \A r \in DedupRuns : dedPc[r] \in {"fresh", "done"} PROVE dedFile = {}
    <2> SUFFICES ASSUME NEW f \in dedFile PROVE FALSE
      OBVIOUS
    <2>1. PICK r \in DedupRuns, kind \in {"sqlite", "lock"} : f = <<r, kind>>
      BY DEF DedInv, DedTypes
    <2> QED  BY <1>2, <2>1 DEF DedInv, DedFiles
  <1> QED  BY <1>1, <1>2 DEF LiveIndexKept

\* open_dedup_index, insert_first, finish and recover_dedup_candidates:
\* however runs end, die or are recovered, the files of an index in use stay,
\* nothing is left behind when nothing died, and the index names the first
\* source row of every key.
THEOREM IndexesAreKept == DedupSpec => [](LiveIndexKept /\ FirstSeen)
  <1>1. DedupInit => DedInv  BY DedupInitInv
  <1>2. DedInv /\ [DedupNext]_dedVars => DedInv'  BY DedupInductive
  <1>3. DedInv => LiveIndexKept /\ FirstSeen  BY DedInvImplies
  <1> QED  BY <1>1, <1>2, <1>3, PTL DEF DedupSpec

-----------------------------------------------------------------------------
(* Exports.                                                                *)

ExpLabels == {"none", "begun", "open", "staged", "checkSet", "makeSet", "check", "rename",
              "committed", "drop", "unpublish"}
ExpPathsOf(e) == {<<DestinationOf(e)>>} \cup {<<DestinationOf(e), n>> : n \in Nat}
IsExportWriter(w) ==
    /\ DOMAIN w = {"pc", "set", "parts", "target", "bytes"}
    /\ w.pc \in ExpLabels /\ w.set \in BOOLEAN /\ w.parts \in Nat /\ w.bytes \in {0, 1}
Holding == {e \in Exports : expWriter[e].bytes > 0}

ExpTypes ==
    /\ expPub \subseteq Exports /\ expTomb \subseteq Exports /\ DOMAIN expManifest = Exports
    /\ DOMAIN expWriter = Exports /\ \A e \in Exports : IsExportWriter(expWriter[e])
    /\ \A j \in expJournal : \E e \in Exports : \E p \in ExpPathsOf(e) : j = <<e, p>>
    /\ \A t \in expTree : \E e \in Exports : \E p \in ExpPathsOf(e) : t = <<p, e>>

\* What a writer holds while it is there.
ExpWriting(e) ==
    LET w == expWriter[e] IN
    /\ w.pc = "none" => w = NoExport
    /\ w.pc \notin {"none", "committed"} => e \in expPub
    /\ w.pc \in {"checkSet", "makeSet", "check", "rename"} =>
            w.target \in ExpPathsOf(e) /\ <<e, w.target>> \in expJournal
    /\ w.pc = "makeSet" => <<e, <<DestinationOf(e)>>>> \in expJournal
    /\ w.pc \in {"checkSet", "makeSet", "check", "rename"} =>
            w.target = IF w.set THEN <<DestinationOf(e), w.parts>> ELSE <<DestinationOf(e)>>
    /\ w.bytes > 0 => w.pc \in {"staged", "checkSet", "makeSet", "check", "rename", "drop"}

\* An export is settled in one way, and what it installed is named by the row
\* that will remove it.
ExpSettled(e) ==
    /\ e \in expPub => expManifest[e] = {} /\ e \notin expTomb
    /\ e \in expTomb => expManifest[e] = {}
    /\ expManifest[e] # {} => \A j \in expJournal : j[1] # e
    /\ \A t \in expTree : t[2] = e => expManifest[e] # {} \/ e \in expTomb \/ <<e, t[1]>> \in expJournal

\* What was installed is where it was put, when no other export names its
\* destination.
InstalledSoFar(e) ==
    LET w == expWriter[e] IN
    IF w.set THEN {<<DestinationOf(e), n>> : n \in 0..(w.parts - 1)}
    ELSE IF w.parts > 0 THEN {<<DestinationOf(e)>>} ELSE {}
ExpKept(e) ==
    ~SharedDestination => /\ \A p \in InstalledSoFar(e) : <<p, e>> \in expTree
                          /\ \A p \in expManifest[e] : p \in ExpPathsOf(e) /\ <<p, e>> \in expTree

ExpQuota == expBytes = Cardinality(Holding) /\ expBytes \in 0..StagingLimit

\* Maintenance has the store to itself, and drops the rows of an export after
\* its files.
ExpMaintained ==
    \/ expMaint = NoExportMaint
    \/ /\ ExportBusy = {}
       /\ \E e \in Exports, op \in {"stale", "orphan", "staging", "collect"},
             step \in {"files", "rows", "publication"} :
            /\ expMaint = [op |-> op, of |-> e, step |-> step]
            /\ op = "stale" => e \in expPub
            /\ op \in {"orphan", "staging"} => ~ExportClaimed(e)
            /\ op = "collect" => e \in expTomb
            /\ op # "staging" /\ step # "files" => \A t \in expTree : t[2] # e

ExpEach(e) == ExpWriting(e) /\ ExpSettled(e) /\ ExpKept(e)
ExpInv == ExpTypes /\ (\A e \in Exports : ExpEach(e)) /\ ExpQuota /\ ExpMaintained

LEMMA ExpPathHead ==
    ASSUME NEW e, NEW p \in ExpPathsOf(e)
    PROVE  p[1] = DestinationOf(e)
  BY DEF ExpPathsOf

\* A step that leaves the rows, the files and the writer of an export alone
\* leaves what is said of it alone.
LEMMA ExpFrame ==
    ASSUME ExpTypes, NEW x \in Exports, ExpEach(x),
           expWriter'[x] = expWriter[x],
           x \in expPub' <=> x \in expPub, x \in expTomb' <=> x \in expTomb,
           expManifest'[x] = expManifest[x],
           \A j : j[1] = x => (j \in expJournal' <=> j \in expJournal),
           \A t \in expTree' : t[2] = x => t \in expTree,
           ~SharedDestination => \A t \in expTree : t[2] = x => t \in expTree'
    PROVE  ExpEach(x)'
  <1>0. ExpWriting(x) /\ ExpSettled(x) /\ ExpKept(x)
    BY DEF ExpEach
  <1>1. \A p : <<x, p>>[1] = x /\ <<p, x>>[2] = x
    OBVIOUS
  <1>2. ExpWriting(x)'
    BY <1>0, <1>1 DEF ExpWriting
  <1>3. ExpSettled(x)'
    BY <1>0, <1>1 DEF ExpSettled
  <1>4. ExpKept(x)'
    <2>1. InstalledSoFar(x)' = InstalledSoFar(x)
      BY DEF InstalledSoFar
    <2>2. ASSUME ~SharedDestination
          PROVE  /\ \A p \in InstalledSoFar(x)' : <<p, x>> \in expTree'
                 /\ \A p \in expManifest'[x] : p \in ExpPathsOf(x) /\ <<p, x>> \in expTree'
      BY <1>0, <1>1, <2>1, <2>2 DEF ExpKept
    <2> QED  BY <2>2 DEF ExpKept
  <1> QED  BY <1>2, <1>3, <1>4 DEF ExpEach

LEMMA ExpQuotaSame ==
    ASSUME ExpQuota, expBytes' = expBytes,
           \A x \in Exports : expWriter'[x].bytes = expWriter[x].bytes
    PROVE  ExpQuota'
  <1>1. Holding' = Holding
    BY DEF Holding
  <1> QED  BY <1>1 DEF ExpQuota

\* A writer that only moves on, with nothing else changed.
LEMMA ExpMove ==
    ASSUME ExpTypes, NEW e \in Exports, NEW label \in ExpLabels, ExpGoto(e, label)
    PROVE  /\ DOMAIN expWriter' = Exports /\ \A x \in Exports : IsExportWriter(expWriter'[x])
           /\ expWriter'[e] = [expWriter[e] EXCEPT !.pc = label]
           /\ expWriter'[e].pc = label /\ expWriter'[e].set = expWriter[e].set
           /\ expWriter'[e].parts = expWriter[e].parts /\ expWriter'[e].target = expWriter[e].target
           /\ expWriter'[e].bytes = expWriter[e].bytes
           /\ \A x \in Exports \ {e} : expWriter'[x] = expWriter[x]
           /\ \A x \in Exports : expWriter'[x].bytes = expWriter[x].bytes
           /\ InstalledSoFar(e)' = InstalledSoFar(e)
  <1>1. expWriter' = [expWriter EXCEPT ![e].pc = label] /\ IsExportWriter(expWriter[e])
    BY DEF ExpGoto, ExpTypes
  <1>2. /\ DOMAIN expWriter' = Exports /\ expWriter'[e] = [expWriter[e] EXCEPT !.pc = label]
        /\ \A x \in Exports \ {e} : expWriter'[x] = expWriter[x]
    BY <1>1 DEF ExpTypes
  <1>3. /\ expWriter'[e].pc = label /\ expWriter'[e].set = expWriter[e].set
        /\ expWriter'[e].parts = expWriter[e].parts /\ expWriter'[e].target = expWriter[e].target
        /\ expWriter'[e].bytes = expWriter[e].bytes /\ IsExportWriter(expWriter'[e])
    BY <1>1, <1>2 DEF IsExportWriter
  <1>4. InstalledSoFar(e)' = InstalledSoFar(e)
    BY <1>3 DEF InstalledSoFar
  <1> QED  BY <1>2, <1>3, <1>4 DEF ExpTypes

\* A writer is there only when no maintenance is.
LEMMA ExpNoMaint ==
    ASSUME ExpInv, NEW e \in Exports, expWriter[e].pc # "none"
    PROVE  expMaint = NoExportMaint
  BY DEF ExpInv, ExpMaintained, ExportBusy

\* What a step of one export does not touch.
ExpElsewhere(e) ==
    \A x \in Exports \ {e} :
        /\ expWriter'[x] = expWriter[x] /\ expManifest'[x] = expManifest[x]
        /\ (x \in expPub' <=> x \in expPub) /\ (x \in expTomb' <=> x \in expTomb)
        /\ \A j : j[1] = x => (j \in expJournal' <=> j \in expJournal)
        /\ \A t \in expTree' : t[2] = x => t \in expTree
        /\ ~SharedDestination => \A t \in expTree : t[2] = x => t \in expTree'
LEMMA ExpOwnStep ==
    ASSUME ExpInv, NEW e \in Exports, ExpElsewhere(e), ExpTypes', ExpEach(e)', ExpQuota', ExpMaintained'
    PROVE  ExpInv'
  <1>1. ASSUME NEW x \in Exports PROVE ExpEach(x)'
    <2>1. CASE x = e
      BY <2>1
    <2>2. CASE x # e
      <3>1. ExpTypes /\ ExpEach(x)
        BY DEF ExpInv
      <3>2. /\ expWriter'[x] = expWriter[x] /\ expManifest'[x] = expManifest[x]
            /\ (x \in expPub' <=> x \in expPub) /\ (x \in expTomb' <=> x \in expTomb)
            /\ \A j : j[1] = x => (j \in expJournal' <=> j \in expJournal)
            /\ \A t \in expTree' : t[2] = x => t \in expTree
            /\ ~SharedDestination => \A t \in expTree : t[2] = x => t \in expTree'
        BY <2>2, Zenon DEF ExpElsewhere
      <3> QED  BY <3>1, <3>2, ExpFrame
    <2> QED  BY <2>1, <2>2
  <1> QED  BY <1>1 DEF ExpInv

\* The steps that move a writer on and change nothing that is kept in rows or
\* files.
LEMMA ExpMoves ==
    ASSUME ExpInv, NEW e \in Exports, NEW label \in ExpLabels, ExpGoto(e, label),
           UNCHANGED <<expRows, expTree, expBytes, expMaint>>,
           expWriter[e].pc # "none", label # "none",
           expWriter[e].pc = "committed" => label = "committed",
           label \in {"checkSet", "makeSet", "check", "rename"} => expWriter[e].pc \in {"checkSet", "makeSet", "check", "rename"},
           label = "makeSet" => expWriter[e].pc = "makeSet",
           expWriter[e].bytes > 0 => label \in {"staged", "checkSet", "makeSet", "check", "rename", "drop"}
    PROVE  ExpInv'
  <1>0. ExpTypes /\ ExpEach(e) /\ ExpQuota /\ expMaint = NoExportMaint
    BY ExpNoMaint DEF ExpInv
  <1> USE DEF expRows
  <1>1. ExpElsewhere(e)
    BY <1>0, ExpMove DEF ExpElsewhere
  <1>2. ExpTypes'
    BY <1>0, ExpMove DEF ExpTypes
  <1>3. ExpWriting(e)'
    BY <1>0, ExpMove DEF ExpEach, ExpWriting
  <1>4. ExpSettled(e)'
    BY <1>0 DEF ExpEach, ExpSettled
  <1>5. ExpKept(e)'
    BY <1>0, ExpMove DEF ExpEach, ExpKept
  <1>6. ExpQuota'
    BY <1>0, ExpMove, ExpQuotaSame
  <1>7. ExpMaintained'
    BY <1>0 DEF ExpMaintained
  <1> QED  BY <1>1, <1>2, <1>3, <1>4, <1>5, <1>6, <1>7, ExpOwnStep DEF ExpEach

LEMMA ExpBegin ==
    ASSUME ExpInv, NEW e \in Exports, NEW set \in BOOLEAN, BeginExport(e, set)
    PROVE  ExpInv'
  <1>0. ExpTypes /\ ExpEach(e) /\ ExpQuota /\ expMaint = NoExportMaint /\ expWriter[e] = NoExport
    BY DEF ExpInv, BeginExport, ExpEach, ExpWriting
  <1>1. /\ expWriter' = [expWriter EXCEPT ![e] = [NoExport EXCEPT !.pc = "begun", !.set = set]]
        /\ expPub' = expPub \cup {e} /\ ~ExportClaimed(e)
        /\ UNCHANGED <<expManifest, expTomb, expJournal, expStaging, expTree, expBytes, expMaint>>
    BY DEF BeginExport
  <1>2. /\ expWriter'[e] = [pc |-> "begun", set |-> set, parts |-> 0, target |-> <<>>, bytes |-> 0]
        /\ DOMAIN expWriter' = Exports /\ \A x \in Exports \ {e} : expWriter'[x] = expWriter[x]
    BY <1>0, <1>1 DEF ExpTypes, NoExport
  <1>3. ExpElsewhere(e)
    BY <1>1, <1>2 DEF ExpElsewhere
  <1>4. ExpTypes'
    <2>1. IsExportWriter(expWriter'[e])  BY <1>2 DEF IsExportWriter, ExpLabels
    <2> QED  BY <1>0, <1>1, <1>2, <2>1 DEF ExpTypes
  <1>5. ExpWriting(e)'
    <2>1. expWriter'[e].pc = "begun" /\ expWriter'[e].bytes = 0 /\ e \in expPub'  BY <1>1, <1>2
    <2> QED  BY <2>1 DEF ExpWriting
  <1>6. ExpSettled(e)'
    BY <1>0, <1>1 DEF ExpEach, ExpSettled, ExportClaimed
  <1>7. ExpKept(e)'
    <2>1. InstalledSoFar(e)' = {}  BY <1>2 DEF InstalledSoFar
    <2> QED  BY <1>0, <1>1, <2>1 DEF ExpEach, ExpKept
  <1>8. ExpQuota'
    <2>1. \A x \in Exports : expWriter'[x].bytes = expWriter[x].bytes
      BY <1>0, <1>2 DEF NoExport
    <2> QED  BY <1>0, <1>1, <2>1, ExpQuotaSame
  <1>9. ExpMaintained'
    BY <1>0, <1>1 DEF ExpMaintained
  <1> QED  BY <1>3, <1>4, <1>5, <1>6, <1>7, <1>8, <1>9, ExpOwnStep DEF ExpEach

\* The steps after which the writer is gone: its row may go with it, and it
\* holds no bytes.
LEMMA ExpEnds ==
    ASSUME ExpInv, NEW e \in Exports, expWriter[e].pc # "none", expWriter[e].bytes = 0,
           expWriter' = [expWriter EXCEPT ![e] = NoExport],
           expPub' \in {expPub, expPub \ {e}},
           UNCHANGED <<expManifest, expTomb, expJournal, expTree, expBytes, expMaint>>
    PROVE  ExpInv'
  <1>0. ExpTypes /\ ExpEach(e) /\ ExpQuota /\ expMaint = NoExportMaint
    BY ExpNoMaint DEF ExpInv
  <1>2. /\ expWriter'[e] = [pc |-> "none", set |-> FALSE, parts |-> 0, target |-> <<>>, bytes |-> 0]
        /\ DOMAIN expWriter' = Exports /\ \A x \in Exports \ {e} : expWriter'[x] = expWriter[x]
    BY <1>0 DEF ExpTypes, NoExport
  <1>3. ExpElsewhere(e)
    BY <1>2 DEF ExpElsewhere
  <1>4. ExpTypes'
    <2>1. /\ expWriter'[e].pc = "none" /\ expWriter'[e].set = FALSE /\ expWriter'[e].parts = 0
          /\ expWriter'[e].target = <<>> /\ expWriter'[e].bytes = 0
      BY <1>2
    <2>2. DOMAIN expWriter'[e] = {"pc", "set", "parts", "target", "bytes"}
      BY <1>2
    <2>3. expWriter'[e].set \in BOOLEAN  BY <2>1
    <2>4. IsExportWriter(expWriter'[e])  BY <2>2, <2>3, <2>1 DEF IsExportWriter, ExpLabels
    <2> QED  BY <1>0, <1>2, <2>4 DEF ExpTypes
  <1>5. ExpWriting(e)'
    BY <1>2 DEF ExpWriting, NoExport
  <1>6. ExpSettled(e)'
    BY <1>0 DEF ExpEach, ExpSettled
  <1>7. ExpKept(e)'
    <2>1. InstalledSoFar(e)' = {}  BY <1>2 DEF InstalledSoFar
    <2> QED  BY <1>0, <2>1 DEF ExpEach, ExpKept
  <1>8. ExpQuota'
    <2>1. \A x \in Exports : expWriter'[x].bytes = expWriter[x].bytes
      BY <1>2
    <2> QED  BY <1>0, <2>1, ExpQuotaSame
  <1>9. ExpMaintained'
    BY <1>0 DEF ExpMaintained
  <1> QED  BY <1>3, <1>4, <1>5, <1>6, <1>7, <1>8, <1>9, ExpOwnStep DEF ExpEach

LEMMA ExpCreateStaging ==
    ASSUME ExpInv, NEW e \in Exports, CreateExportStaging(e)
    PROVE  ExpInv'
  <1>0. IsExportWriter(expWriter[e]) /\ ExpWriting(e) /\ expWriter[e].pc = "begun"
    BY DEF ExpInv, ExpTypes, ExpEach, CreateExportStaging
  <1>1. expWriter[e].bytes = 0
    BY <1>0 DEF IsExportWriter, ExpWriting
  <1>2. CASE Exists(<<DestinationOf(e)>>) \/ e \in expStaging
    BY <1>0, <1>1, <1>2, ExpEnds DEF CreateExportStaging
  <1>3. CASE ~(Exists(<<DestinationOf(e)>>) \/ e \in expStaging)
    <2>1. ExpGoto(e, "open") /\ UNCHANGED <<expRows, expTree, expBytes, expMaint>>
      BY <1>3 DEF CreateExportStaging, expRows
    <2> QED  BY <1>0, <1>1, <2>1, ExpMoves DEF ExpLabels
  <1> QED  BY <1>2, <1>3

\* account_export_staging.
LEMMA ExpWrite ==
    ASSUME ExpInv, NEW e \in Exports, WriteBuffer(e)
    PROVE  ExpInv'
  <1>0. /\ ExpTypes /\ ExpEach(e) /\ ExpQuota /\ expWriter[e].pc = "staged" /\ expWriter[e].bytes = 0
        /\ expMaint = NoExportMaint /\ IsExportWriter(expWriter[e])
    BY ExpNoMaint DEF ExpInv, WriteBuffer, ExpTypes
  <1>1. CASE expBytes + 1 <= StagingLimit
    <2>1. /\ expBytes' = expBytes + 1 /\ expWriter' = [expWriter EXCEPT ![e].bytes = @ + 1]
          /\ UNCHANGED <<expPub, expManifest, expTomb, expJournal, expTree, expMaint>>
      BY <1>1 DEF WriteBuffer, AccountStaging, expRows
    <2>2. /\ expWriter'[e] = [expWriter[e] EXCEPT !.bytes = 1] /\ DOMAIN expWriter' = Exports
          /\ \A x \in Exports \ {e} : expWriter'[x] = expWriter[x]
      BY <1>0, <2>1 DEF ExpTypes, IsExportWriter
    <2>3. /\ expWriter'[e].pc = "staged" /\ expWriter'[e].set = expWriter[e].set
          /\ expWriter'[e].parts = expWriter[e].parts /\ expWriter'[e].bytes = 1
          /\ IsExportWriter(expWriter'[e])
      BY <1>0, <2>2 DEF IsExportWriter
    <2>4. ExpElsewhere(e)
      BY <2>1, <2>2 DEF ExpElsewhere
    <2>5. ExpTypes'
      BY <1>0, <2>1, <2>2, <2>3 DEF ExpTypes
    <2>6. ExpWriting(e)'
      BY <1>0, <2>1, <2>3 DEF ExpEach, ExpWriting
    <2>7. ExpSettled(e)'
      BY <1>0, <2>1 DEF ExpEach, ExpSettled
    <2>8. ExpKept(e)'
      <3>1. InstalledSoFar(e)' = InstalledSoFar(e)  BY <2>3 DEF InstalledSoFar
      <3> QED  BY <1>0, <2>1, <3>1 DEF ExpEach, ExpKept
    <2>9. ExpQuota'
      <3>1. Holding' = Holding \cup {e} /\ e \notin Holding
        <4>1. expWriter'[e].bytes > 0 /\ ~(expWriter[e].bytes > 0)  BY <1>0, <2>3
        <4> QED  BY <4>1, <2>2, Zenon DEF Holding
      <3>2. IsFiniteSet(Holding)
        <4>1. Holding \in SUBSET Exports /\ IsFiniteSet(Exports)  BY ExportAssumption DEF Holding
        <4> QED  BY <4>1, FS_Subset
      <3>3. Cardinality(Holding \cup {e}) = Cardinality(Holding) + 1
        BY <3>1, <3>2, FS_AddElement
      <3> QED  BY <1>0, <1>1, <2>1, <3>1, <3>3, ExportAssumption DEF ExpQuota
    <2>10. ExpMaintained'
      BY <1>0, <2>1 DEF ExpMaintained
    <2> QED  BY <2>4, <2>5, <2>6, <2>7, <2>8, <2>9, <2>10, ExpOwnStep DEF ExpEach
  <1>2. CASE ~(expBytes + 1 <= StagingLimit)
    <2>1. ExpGoto(e, "drop") /\ UNCHANGED <<expRows, expTree, expBytes, expMaint>>
      BY <1>2 DEF WriteBuffer, AccountStaging, ExpGoto
    <2> QED  BY <1>0, <2>1, ExpMoves DEF ExpLabels
  <1> QED  BY <1>1, <1>2

\* The bytes of a staged file that is installed or dropped are given back.
LEMMA ExpRelease ==
    ASSUME ExpInv, NEW e \in Exports, ReleaseAccounting(e), expWriter'[e].bytes = 0,
           \A x \in Exports \ {e} : expWriter'[x] = expWriter[x]
    PROVE  ExpQuota'
  <1>0. ExpQuota /\ IsExportWriter(expWriter[e])
    BY DEF ExpInv, ExpTypes
  <1>1. Holding' = Holding \ {e}
    BY DEF Holding
  <1>2. IsFiniteSet(Holding)
    <2>1. Holding \in SUBSET Exports /\ IsFiniteSet(Exports)  BY ExportAssumption DEF Holding
    <2> QED  BY <2>1, FS_Subset
  <1>3. Cardinality(Holding \ {e}) = IF e \in Holding THEN Cardinality(Holding) - 1 ELSE Cardinality(Holding)
    BY <1>2, FS_RemoveElement
  <1>4. Cardinality(Holding) \in Nat /\ Cardinality(Holding \ {e}) \in Nat
    <2>1. IsFiniteSet(Holding \ {e})  BY <1>2, FS_Subset
    <2> QED  BY <1>2, <2>1, FS_CardinalityType
  <1>5. expWriter[e].bytes = IF e \in Holding THEN 1 ELSE 0
    BY <1>0 DEF IsExportWriter, Holding
  <1> QED  BY <1>0, <1>1, <1>3, <1>4, <1>5, ExportAssumption DEF ExpQuota, ReleaseAccounting

\* install_inner: the destination is journaled before anything is put there.
LEMMA ExpJournals ==
    ASSUME ExpInv, NEW e \in Exports, NEW p \in ExpPathsOf(e),
           expWriter[e].pc \in {"staged", "checkSet"}, DOMAIN expWriter' = Exports,
           \A x \in Exports \ {e} : expWriter'[x] = expWriter[x], IsExportWriter(expWriter'[e]),
           expWriter'[e].set = expWriter[e].set, expWriter'[e].parts = expWriter[e].parts,
           expWriter'[e].bytes = expWriter[e].bytes,
           expWriter'[e].pc \in {"checkSet", "makeSet", "check"},
           expWriter'[e].target = IF expWriter[e].set THEN <<DestinationOf(e), expWriter[e].parts>> ELSE <<DestinationOf(e)>>,
           <<e, expWriter'[e].target>> \in expJournal',
           expWriter'[e].pc = "makeSet" => p = <<DestinationOf(e)>>,
           expJournal' = expJournal \cup ({e} \X {p}),
           UNCHANGED <<expPub, expManifest, expTomb, expTree, expBytes, expMaint>>
    PROVE  ExpInv'
  <1>0. ExpTypes /\ ExpEach(e) /\ ExpQuota /\ expMaint = NoExportMaint /\ IsExportWriter(expWriter[e])
    BY ExpNoMaint DEF ExpInv, ExpTypes
  <1>2. /\ \A j : j \in expJournal' <=> j \in expJournal \/ j = <<e, p>>
        /\ \A q : <<e, q>>[1] = e /\ e \in expPub
    BY <1>0 DEF ExpEach, ExpWriting
  <1>3. ExpElsewhere(e)
    BY <1>2 DEF ExpElsewhere
  <1>4. ExpTypes'
    <2>1. \A j \in expJournal' : \E x \in Exports : \E q \in ExpPathsOf(x) : j = <<x, q>>
      BY <1>0, <1>2 DEF ExpTypes
    <2> QED  BY <1>0, <2>1 DEF ExpTypes
  <1>5. ExpWriting(e)'
    <2>1. expWriter'[e].target \in ExpPathsOf(e)
      BY <1>0 DEF ExpPathsOf, IsExportWriter
    <2>2. expWriter'[e].pc = "makeSet" => <<e, <<DestinationOf(e)>>>> \in expJournal'
      BY <1>2
    <2> QED  BY <1>2, <2>1, <2>2 DEF ExpWriting
  <1>6. ExpSettled(e)'
    BY <1>0, <1>2 DEF ExpEach, ExpSettled
  <1>7. ExpKept(e)'
    <2>1. InstalledSoFar(e)' = InstalledSoFar(e)  BY DEF InstalledSoFar
    <2> QED  BY <1>0, <2>1 DEF ExpEach, ExpKept
  <1>8. ExpQuota'
    <2>1. \A x \in Exports : expWriter'[x].bytes = expWriter[x].bytes
      OBVIOUS
    <2> QED  BY <1>0, <2>1, ExpQuotaSame
  <1>9. ExpMaintained'
    BY <1>0 DEF ExpMaintained
  <1> QED  BY <1>3, <1>4, <1>5, <1>6, <1>7, <1>8, <1>9, ExpOwnStep DEF ExpEach

LEMMA ExpStartInstall ==
    ASSUME ExpInv, NEW e \in Exports, StartInstall(e)
    PROVE  ExpInv'
  <1> DEFINE w == expWriter[e]
             target == IF w.set THEN <<DestinationOf(e), w.parts>> ELSE <<DestinationOf(e)>>
             label == IF w.set /\ w.parts = 0 THEN "checkSet" ELSE "check"
  <1>0. IsExportWriter(w) /\ w.pc = "staged" /\ DOMAIN expWriter = Exports
    BY DEF ExpInv, ExpTypes, StartInstall
  <1>1. /\ expWriter' = [expWriter EXCEPT ![e].target = target, ![e].pc = label]
        /\ expJournal' = expJournal \cup ({e} \X {target})
        /\ UNCHANGED <<expPub, expManifest, expTomb, expTree, expBytes, expMaint>>
    BY DEF StartInstall, JournalExportInstall
  <1>2. target \in ExpPathsOf(e)
    BY <1>0 DEF ExpPathsOf, IsExportWriter
  <1>3. label \in {"checkSet", "check"}
    OBVIOUS
  <1>4. target = IF w.set THEN <<DestinationOf(e), w.parts>> ELSE <<DestinationOf(e)>>
    OBVIOUS
  <1> HIDE DEF target, label
  <1>5. /\ DOMAIN expWriter' = Exports /\ \A x \in Exports \ {e} : expWriter'[x] = expWriter[x]
        /\ expWriter'[e] = [w EXCEPT !.target = target, !.pc = label]
    BY <1>0, <1>1
  <1> HIDE DEF w
  <1>6. /\ expWriter'[e].pc = label /\ expWriter'[e].set = w.set /\ expWriter'[e].parts = w.parts
        /\ expWriter'[e].target = target /\ expWriter'[e].bytes = w.bytes
        /\ DOMAIN expWriter'[e] = {"pc", "set", "parts", "target", "bytes"}
    BY <1>0, <1>5 DEF IsExportWriter
  <1>7. IsExportWriter(expWriter'[e])
    <2>1. label \in ExpLabels  BY <1>3 DEF ExpLabels
    <2> QED  BY <1>0, <1>5, <1>6, <2>1 DEF IsExportWriter
  <1>8. <<e, target>> \in expJournal'
    BY <1>1
  <1> QED  BY <1>0, <1>1, <1>2, <1>3, <1>4, <1>5, <1>6, <1>7, <1>8, ExpJournals DEF w

LEMMA ExpCheckSet ==
    ASSUME ExpInv, NEW e \in Exports, CheckSet(e)
    PROVE  ExpInv'
  <1>0. /\ ExpTypes /\ IsExportWriter(expWriter[e]) /\ ExpWriting(e) /\ expWriter[e].pc = "checkSet"
    BY DEF ExpInv, ExpTypes, ExpEach, CheckSet
  <1>1. CASE Exists(<<DestinationOf(e)>>)
    <2>1. ExpGoto(e, "drop") /\ UNCHANGED <<expRows, expTree, expBytes, expMaint>>
      BY <1>1 DEF CheckSet, expRows
    <2> QED  BY <1>0, <2>1, ExpMoves DEF ExpLabels
  <1>2. CASE ~Exists(<<DestinationOf(e)>>)
    <2> DEFINE p == <<DestinationOf(e)>>
    <2>1. /\ ExpGoto(e, "makeSet") /\ expJournal' = expJournal \cup ({e} \X {p})
          /\ UNCHANGED <<expPub, expManifest, expTomb, expTree, expBytes, expMaint>>
      BY <1>2 DEF CheckSet, JournalExportInstall
    <2>2. /\ DOMAIN expWriter' = Exports /\ \A x \in Exports \ {e} : expWriter'[x] = expWriter[x]
          /\ IsExportWriter(expWriter'[e]) /\ expWriter'[e].pc = "makeSet"
          /\ expWriter'[e].set = expWriter[e].set /\ expWriter'[e].parts = expWriter[e].parts
          /\ expWriter'[e].target = expWriter[e].target /\ expWriter'[e].bytes = expWriter[e].bytes
      <3>1. "makeSet" \in ExpLabels  BY DEF ExpLabels
      <3> QED  BY <1>0, <2>1, <3>1, ExpMove
    <2>3. p \in ExpPathsOf(e)  BY DEF ExpPathsOf
    <2>4. /\ <<e, expWriter'[e].target>> \in expJournal'
          /\ expWriter'[e].target = IF expWriter[e].set THEN <<DestinationOf(e), expWriter[e].parts>> ELSE <<DestinationOf(e)>>
      BY <1>0, <2>1, <2>2 DEF ExpWriting
    <2>5. expWriter'[e].pc = "makeSet" => p = <<DestinationOf(e)>>
      OBVIOUS
    <2> HIDE DEF p
    <2> QED  BY <1>0, <2>1, <2>2, <2>3, <2>4, <2>5, ExpJournals
  <1> QED  BY <1>1, <1>2

\* A file of an export comes to its destination, which was journaled.
LEMMA ExpSettledWith ==
    ASSUME NEW e \in Exports, NEW p, ExpSettled(e), <<e, p>> \in expJournal,
           UNCHANGED <<expPub, expManifest, expTomb, expJournal>>,
           \A t \in expTree' : t \in expTree \/ t = <<p, e>>
    PROVE  ExpSettled(e)'
  BY DEF ExpSettled

LEMMA ExpMakeSet ==
    ASSUME ExpInv, NEW e \in Exports, MakeSet(e)
    PROVE  ExpInv'
  <1>0. /\ ExpTypes /\ ExpEach(e) /\ ExpQuota /\ expWriter[e].pc = "makeSet"
        /\ expMaint = NoExportMaint /\ IsExportWriter(expWriter[e])
    BY ExpNoMaint DEF ExpInv, ExpTypes, MakeSet
  <1>1. CASE Exists(<<DestinationOf(e)>>)
    <2>1. ExpGoto(e, "drop") /\ UNCHANGED <<expRows, expTree, expBytes, expMaint>>
      BY <1>1 DEF MakeSet
    <2> QED  BY <1>0, <2>1, ExpMoves DEF ExpLabels
  <1>2. CASE ~Exists(<<DestinationOf(e)>>)
    <2> DEFINE p == <<DestinationOf(e)>>
    <2>1. /\ ExpGoto(e, "check") /\ expTree' = expTree \cup {<<p, e>>}
          /\ UNCHANGED <<expPub, expManifest, expTomb, expJournal, expBytes, expMaint>>
      BY <1>2 DEF MakeSet, expRows
    <2>2. p \in ExpPathsOf(e) /\ <<e, p>> \in expJournal /\ <<p, e>>[2] = e
      BY <1>0 DEF ExpPathsOf, ExpEach, ExpWriting
    <2> HIDE DEF p
    <2>3. "check" \in ExpLabels  BY DEF ExpLabels
    <2>4. ExpElsewhere(e)
      BY <1>0, <2>1, <2>2, <2>3, ExpMove DEF ExpElsewhere
    <2>5. ExpTypes'
      <3>1. \A t \in expTree' : \E x \in Exports : \E q \in ExpPathsOf(x) : t = <<q, x>>
        BY <1>0, <2>1, <2>2 DEF ExpTypes
      <3> QED  BY <1>0, <2>1, <2>3, <3>1, ExpMove DEF ExpTypes
    <2>6. ExpWriting(e)'
      BY <1>0, <2>1, <2>3, ExpMove DEF ExpEach, ExpWriting
    <2>7. ExpSettled(e)'
      BY <1>0, <2>1, <2>2, ExpSettledWith DEF ExpEach
    <2>8. ExpKept(e)'
      BY <1>0, <2>1, <2>3, ExpMove DEF ExpEach, ExpKept
    <2>9. ExpQuota'
      BY <1>0, <2>1, <2>3, ExpMove, ExpQuotaSame
    <2>10. ExpMaintained'
      BY <1>0, <2>1 DEF ExpMaintained
    <2> QED  BY <2>4, <2>5, <2>6, <2>7, <2>8, <2>9, <2>10, ExpOwnStep DEF ExpEach
  <1> QED  BY <1>1, <1>2

\* The rename puts the next part in place and takes away what another export
\* had put there, which is nothing when the destinations differ.
LEMMA ExpRename ==
    ASSUME ExpInv, NEW e \in Exports, RenameStaged(e)
    PROVE  ExpInv'
  <1> DEFINE w == expWriter[e]
             v == [w EXCEPT !.pc = "open", !.parts = w.parts + 1, !.bytes = 0]
  <1>0. /\ ExpTypes /\ ExpEach(e) /\ ExpQuota /\ w.pc = "rename" /\ e \in expPub
        /\ expMaint = NoExportMaint /\ IsExportWriter(w)
        /\ w.target \in ExpPathsOf(e) /\ <<e, w.target>> \in expJournal
        /\ w.target = IF w.set THEN <<DestinationOf(e), w.parts>> ELSE <<DestinationOf(e)>>
    BY ExpNoMaint DEF ExpInv, ExpTypes, RenameStaged, ExpEach, ExpWriting
  <1>1. /\ expTree' = {t \in expTree : t[1] # w.target} \cup {<<w.target, e>>}
        /\ expWriter' = [expWriter EXCEPT ![e] = v] /\ ReleaseAccounting(e)
        /\ UNCHANGED <<expPub, expManifest, expTomb, expJournal, expMaint>>
    <2>1. expWriter' = [expWriter EXCEPT ![e] = v]
      BY <1>0 DEF RenameStaged, ExpTypes
    <2> QED  BY <2>1 DEF RenameStaged, expRows
  <1>2. /\ v.pc = "open" /\ v.set = w.set /\ v.parts = w.parts + 1 /\ v.bytes = 0 /\ IsExportWriter(v)
    <2>1. PICK u : u = w  OBVIOUS
    <2>2. PICK x : x = [u EXCEPT !.pc = "open", !.parts = u.parts + 1, !.bytes = 0]  OBVIOUS
    <2>3. /\ x.pc = "open" /\ x.set = u.set /\ x.parts = u.parts + 1 /\ x.bytes = 0 /\ DOMAIN x = DOMAIN u
      BY <1>0, <2>1, <2>2 DEF IsExportWriter
    <2>4. x = v  BY <2>1, <2>2
    <2> HIDE DEF w, v
    <2> QED  BY <1>0, <2>1, <2>3, <2>4 DEF IsExportWriter, ExpLabels
  <1>3. /\ expWriter'[e] = v /\ DOMAIN expWriter' = Exports
        /\ \A x \in Exports \ {e} : expWriter'[x] = expWriter[x]
    BY <1>0, <1>1 DEF ExpTypes
  <1> HIDE DEF v
  <1>4. ExpElsewhere(e)
    <2> SUFFICES ASSUME NEW x \in Exports \ {e}
                 PROVE  /\ \A t \in expTree' : t[2] = x => t \in expTree
                        /\ ~SharedDestination => \A t \in expTree : t[2] = x => t \in expTree'
      BY <1>1, <1>3 DEF ExpElsewhere
    <2>1. \A t \in expTree' : t[2] = x => t \in expTree
      <3>1. <<w.target, e>>[2] # x  OBVIOUS
      <3> QED  BY <1>1, <3>1
    <2>2. ASSUME ~SharedDestination, NEW t \in expTree, t[2] = x PROVE t \in expTree'
      <3>1. PICK y \in Exports : \E q \in ExpPathsOf(y) : t = <<q, y>>
        BY <1>0 DEF ExpTypes
      <3>2. y = x /\ t[1] \in ExpPathsOf(x)
        BY <2>2, <3>1
      <3>3. t[1][1] = x /\ w.target[1] = e
        BY <1>0, <2>2, <3>2, ExpPathHead DEF DestinationOf
      <3>4. t[1] # w.target
        BY <3>3
      <3> QED  BY <1>1, <3>4
    <2> QED  BY <2>1, <2>2
  <1>5. ExpTypes'
    <2>1. \A t \in expTree' : \E x \in Exports : \E q \in ExpPathsOf(x) : t = <<q, x>>
      BY <1>0, <1>1 DEF ExpTypes
    <2> QED  BY <1>0, <1>1, <1>2, <1>3, <2>1 DEF ExpTypes
  <1>6. ExpWriting(e)'
    BY <1>0, <1>1, <1>2, <1>3 DEF ExpWriting
  <1>7. ExpSettled(e)'
    BY <1>0, <1>1, ExpSettledWith DEF ExpEach
  <1>8. ExpKept(e)'
    <2> SUFFICES ASSUME ~SharedDestination
                 PROVE  /\ \A p \in InstalledSoFar(e)' : <<p, e>> \in expTree'
                        /\ \A p \in expManifest'[e] : p \in ExpPathsOf(e) /\ <<p, e>> \in expTree'
      BY DEF ExpKept
    <2>1. \A p : <<p, e>> \in expTree => <<p, e>> \in expTree'
      BY <1>1
    <2>2. \A p \in InstalledSoFar(e)' : p \in InstalledSoFar(e) \/ p = w.target
      <3>1. CASE w.set
        <4>1. /\ InstalledSoFar(e)' = {<<DestinationOf(e), n>> : n \in 0..w.parts}
              /\ InstalledSoFar(e) = {<<DestinationOf(e), n>> : n \in 0..(w.parts - 1)}
          <5>1. expWriter'[e].set = w.set
            BY <1>2, <1>3
          <5>2. expWriter'[e].parts - 1 = w.parts
            <6>1. w.parts \in Nat  BY <1>0 DEF IsExportWriter
            <6> HIDE DEF w
            <6> QED  BY <1>2, <1>3, <6>1
          <5> QED  BY <3>1, <5>1, <5>2 DEF InstalledSoFar
        <4>2. \A n \in 0..w.parts : n = w.parts \/ n \in 0..(w.parts - 1)
          BY <1>0 DEF IsExportWriter
        <4> QED  BY <4>1, <4>2, <1>0, <3>1
      <3>2. CASE ~w.set
        BY <1>2, <1>3, <1>0, <3>2 DEF InstalledSoFar, IsExportWriter
      <3> QED  BY <3>1, <3>2
    <2>3. \A p \in InstalledSoFar(e) : <<p, e>> \in expTree
      BY <1>0 DEF ExpEach, ExpKept
    <2>4. expManifest'[e] = {}
      BY <1>0, <1>1 DEF ExpEach, ExpSettled
    <2> QED  BY <1>1, <2>1, <2>2, <2>3, <2>4
  <1>9. ExpQuota'
    BY <1>1, <1>2, <1>3, ExpRelease
  <1>10. ExpMaintained'
    BY <1>0, <1>1 DEF ExpMaintained
  <1> QED  BY <1>4, <1>5, <1>6, <1>7, <1>8, <1>9, <1>10, ExpOwnStep DEF ExpEach

LEMMA ExpCommit ==
    ASSUME ExpInv, NEW e \in Exports, CommitExport(e)
    PROVE  ExpInv'
  <1> DEFINE w == expWriter[e]
  <1>0. /\ ExpTypes /\ ExpEach(e) /\ ExpQuota /\ w.pc = "open" /\ w.parts > 0 /\ e \in expPub
        /\ expMaint = NoExportMaint /\ IsExportWriter(w)
    BY ExpNoMaint DEF ExpInv, ExpTypes, CommitExport
  <1>1. /\ expManifest' = [expManifest EXCEPT ![e] = InstalledPaths(e)]
        /\ expPub' = expPub \ {e} /\ expJournal' = {j \in expJournal : j[1] # e}
        /\ ExpGoto(e, "committed") /\ UNCHANGED <<expTomb, expTree, expBytes, expMaint>>
    BY DEF CommitExport, SettleManifest
  <1>2. "committed" \in ExpLabels
    BY DEF ExpLabels
  <1>3. expManifest'[e] = InstalledPaths(e) /\ DOMAIN expManifest' = Exports
        /\ \A x \in Exports \ {e} : expManifest'[x] = expManifest[x]
    BY <1>0, <1>1 DEF ExpTypes
  <1>4. InstalledPaths(e) = InstalledSoFar(e) /\ InstalledPaths(e) # {} /\ InstalledPaths(e) \subseteq ExpPathsOf(e)
    <2>1. CASE w.set
      <3>1. 0 \in 0..(w.parts - 1) /\ 0..(w.parts - 1) \subseteq Nat
        BY <1>0 DEF IsExportWriter
      <3>2. InstalledPaths(e) = {<<DestinationOf(e), n>> : n \in 0..(w.parts - 1)}
        BY <2>1 DEF InstalledPaths
      <3>3. InstalledSoFar(e) = {<<DestinationOf(e), n>> : n \in 0..(w.parts - 1)}
        BY <2>1 DEF InstalledSoFar
      <3> HIDE DEF w
      <3> QED  BY <3>1, <3>2, <3>3 DEF ExpPathsOf
    <2>2. CASE ~w.set
      BY <1>0, <2>2 DEF InstalledPaths, InstalledSoFar, ExpPathsOf
    <2> QED  BY <2>1, <2>2
  <1>5. ExpElsewhere(e)
    <2>1. \A x \in Exports \ {e} : expWriter'[x] = expWriter[x]
      BY <1>0, <1>1, <1>2, ExpMove
    <2> QED  BY <1>1, <1>3, <2>1 DEF ExpElsewhere
  <1>6. ExpTypes'
    BY <1>0, <1>1, <1>2, <1>3, ExpMove DEF ExpTypes
  <1>7. ExpWriting(e)'
    <2>1. expWriter[e].bytes = 0
      BY <1>0 DEF ExpEach, ExpWriting, IsExportWriter
    <2>2. expWriter'[e].pc = "committed" /\ expWriter'[e].bytes = 0
      BY <1>0, <1>1, <1>2, <2>1, ExpMove
    <2> QED  BY <2>2 DEF ExpWriting
  <1>8. ExpSettled(e)'
    <2>1. e \notin expTomb /\ e \notin expPub'
      BY <1>0, <1>1 DEF ExpEach, ExpSettled
    <2> QED  BY <1>1, <1>3, <1>4, <2>1 DEF ExpSettled
  <1>9. ExpKept(e)'
    <2>1. InstalledSoFar(e)' = InstalledSoFar(e)
      BY <1>0, <1>1, <1>2, ExpMove
    <2>2. ~SharedDestination => \A p \in InstalledSoFar(e) : <<p, e>> \in expTree
      BY <1>0 DEF ExpEach, ExpKept
    <2> QED  BY <1>1, <1>3, <1>4, <2>1, <2>2 DEF ExpKept
  <1>10. ExpQuota'
    BY <1>0, <1>1, <1>2, ExpMove, ExpQuotaSame
  <1>11. ExpMaintained'
    BY <1>0, <1>1 DEF ExpMaintained
  <1> QED  BY <1>5, <1>6, <1>7, <1>8, <1>9, <1>10, <1>11, ExpOwnStep DEF ExpEach

LEMMA ExpDropStaging ==
    ASSUME ExpInv, NEW e \in Exports, DropStaging(e)
    PROVE  ExpInv'
  <1> DEFINE w == expWriter[e]
             v == [w EXCEPT !.pc = "unpublish", !.bytes = 0]
  <1>0. /\ ExpTypes /\ ExpEach(e) /\ ExpQuota /\ w.pc = "drop" /\ e \in expPub
        /\ expMaint = NoExportMaint /\ IsExportWriter(w)
    BY ExpNoMaint DEF ExpInv, ExpTypes, DropStaging, ExpEach, ExpWriting
  <1>1. /\ expWriter' = [expWriter EXCEPT ![e].pc = "unpublish", ![e].bytes = 0] /\ ReleaseAccounting(e)
        /\ UNCHANGED <<expPub, expManifest, expTomb, expJournal, expTree, expMaint>>
    BY DEF DropStaging, expRows
  <1>2. /\ expWriter'[e] = v /\ DOMAIN expWriter' = Exports
        /\ \A x \in Exports \ {e} : expWriter'[x] = expWriter[x]
    BY <1>0, <1>1 DEF ExpTypes
  <1>3. /\ v.pc = "unpublish" /\ v.set = w.set /\ v.parts = w.parts /\ v.bytes = 0 /\ IsExportWriter(v)
    <2>1. PICK u : u = w  OBVIOUS
    <2>2. PICK x : x = [u EXCEPT !.pc = "unpublish", !.bytes = 0]  OBVIOUS
    <2>3. /\ x.pc = "unpublish" /\ x.set = u.set /\ x.parts = u.parts /\ x.bytes = 0 /\ DOMAIN x = DOMAIN u
      BY <1>0, <2>1, <2>2 DEF IsExportWriter
    <2>4. x = v  BY <2>1, <2>2
    <2> HIDE DEF w, v
    <2> QED  BY <1>0, <2>1, <2>3, <2>4 DEF IsExportWriter, ExpLabels
  <1> HIDE DEF v
  <1>4. ExpElsewhere(e)
    BY <1>1, <1>2 DEF ExpElsewhere
  <1>5. ExpTypes'
    BY <1>0, <1>1, <1>2, <1>3 DEF ExpTypes
  <1>6. ExpWriting(e)'
    BY <1>0, <1>1, <1>2, <1>3 DEF ExpWriting
  <1>7. ExpSettled(e)'
    BY <1>0, <1>1 DEF ExpEach, ExpSettled
  <1>8. ExpKept(e)'
    <2>1. InstalledSoFar(e)' = InstalledSoFar(e)  BY <1>2, <1>3 DEF InstalledSoFar
    <2> QED  BY <1>0, <1>1, <2>1 DEF ExpEach, ExpKept
  <1>9. ExpQuota'
    BY <1>1, <1>2, <1>3, ExpRelease
  <1>10. ExpMaintained'
    BY <1>0, <1>1 DEF ExpMaintained
  <1> QED  BY <1>4, <1>5, <1>6, <1>7, <1>8, <1>9, <1>10, ExpOwnStep DEF ExpEach

LEMMA ExpTombstone ==
    ASSUME ExpInv, NEW e \in Exports, TombstoneExport(e)
    PROVE  ExpInv'
  <1>0. ExpTypes /\ ExpEach(e) /\ ExpQuota /\ expMaint = NoExportMaint /\ expManifest[e] # {}
    BY DEF ExpInv, TombstoneExport
  <1>1. /\ expManifest' = [expManifest EXCEPT ![e] = {}] /\ expTomb' = expTomb \cup {e}
        /\ UNCHANGED <<expPub, expJournal, expTree, expWriter, expBytes, expMaint>>
    BY DEF TombstoneExport
  <1>2. expManifest'[e] = {} /\ DOMAIN expManifest' = Exports
        /\ \A x \in Exports \ {e} : expManifest'[x] = expManifest[x]
    BY <1>0, <1>1 DEF ExpTypes
  <1>3. ExpElsewhere(e)
    BY <1>1, <1>2 DEF ExpElsewhere
  <1>4. ExpTypes'
    BY <1>0, <1>1, <1>2 DEF ExpTypes
  <1>5. ExpWriting(e)'
    BY <1>0, <1>1 DEF ExpEach, ExpWriting
  <1>6. ExpSettled(e)'
    BY <1>0, <1>1, <1>2 DEF ExpEach, ExpSettled
  <1>7. ExpKept(e)'
    <2>1. InstalledSoFar(e)' = InstalledSoFar(e)  BY <1>1 DEF InstalledSoFar
    <2> QED  BY <1>0, <1>1, <1>2, <2>1 DEF ExpEach, ExpKept
  <1>8. ExpQuota'
    BY <1>0, <1>1, ExpQuotaSame
  <1>9. ExpMaintained'
    BY <1>0, <1>1 DEF ExpMaintained
  <1> QED  BY <1>3, <1>4, <1>5, <1>6, <1>7, <1>8, <1>9, ExpOwnStep DEF ExpEach

LEMMA ExpCrash ==
    ASSUME ExpInv, CrashExports
    PROVE  ExpInv'
  <1>1. /\ expWriter' = [e \in Exports |-> NoExport] /\ expBytes' = 0 /\ expMaint' = NoExportMaint
        /\ UNCHANGED <<expPub, expManifest, expTomb, expJournal, expTree>>
    BY DEF CrashExports, expRows
  <1>2. \A e \in Exports : /\ expWriter'[e] = NoExport /\ expWriter'[e].pc = "none" /\ expWriter'[e].set = FALSE
                           /\ expWriter'[e].parts = 0 /\ expWriter'[e].bytes = 0
                           /\ DOMAIN expWriter'[e] = {"pc", "set", "parts", "target", "bytes"}
    BY <1>1 DEF NoExport
  <1>3. ExpTypes'
    <2>1. \A e \in Exports : expWriter'[e].set \in BOOLEAN  BY <1>2
    <2>2. \A e \in Exports : IsExportWriter(expWriter'[e])
      BY <1>2, <2>1 DEF IsExportWriter, ExpLabels
    <2> QED  BY <1>1, <2>2 DEF ExpInv, ExpTypes
  <1>4. ASSUME NEW e \in Exports PROVE ExpEach(e)'
    <2>1. ExpWriting(e)'
      BY <1>2 DEF ExpWriting
    <2>2. ExpSettled(e)'
      BY <1>1 DEF ExpInv, ExpEach, ExpSettled
    <2>3. ExpKept(e)'
      <3>1. InstalledSoFar(e)' = {}  BY <1>2 DEF InstalledSoFar
      <3> QED  BY <1>1, <3>1 DEF ExpInv, ExpEach, ExpKept
    <2> QED  BY <2>1, <2>2, <2>3 DEF ExpEach
  <1>5. ExpQuota'
    <2>1. Holding' = {}  BY <1>2 DEF Holding
    <2>2. Cardinality({}) = 0  BY FS_EmptySet
    <2> QED  BY <1>1, <2>1, <2>2, ExportAssumption DEF ExpQuota
  <1>6. ExpMaintained'
    BY <1>1 DEF ExpMaintained
  <1> QED  BY <1>3, <1>4, <1>5, <1>6 DEF ExpInv

\* A maintenance begins on an export that its list names.
LEMMA ExpMaintStarts ==
    ASSUME ExpInv, NEW e \in Exports, NEW op \in {"stale", "orphan", "staging", "collect"},
           ExportMaintenance(op, e),
           op = "stale" => e \in expPub, op \in {"orphan", "staging"} => ~ExportClaimed(e),
           op = "collect" => e \in expTomb
    PROVE  ExpInv'
  <1>1. /\ ExportBusy = {} /\ expMaint' = [op |-> op, of |-> e, step |-> "files"]
        /\ UNCHANGED <<expPub, expManifest, expTomb, expJournal, expTree, expWriter, expBytes>>
    BY DEF ExportMaintenance, expRows
  <1>2. ExpTypes' /\ ExpQuota'
    BY <1>1 DEF ExpInv, ExpTypes, ExpQuota, Holding
  <1>3. ASSUME NEW x \in Exports PROVE ExpEach(x)'
    BY <1>1 DEF ExpInv, ExpEach, ExpWriting, ExpSettled, ExpKept, InstalledSoFar
  <1>4. ExpMaintained'
    BY <1>1 DEF ExpMaintained, ExportBusy, ExportClaimed
  <1> QED  BY <1>2, <1>3, <1>4 DEF ExpInv

\* remove_destination_residue: what it removes lies at or below a path of the
\* export, and of an export whose rows will go, all.
LEMMA ExpResidue ==
    ASSUME ExpInv, RemoveResidue
    PROVE  ExpInv'
  <1>1. PICK e \in Exports, op \in {"stale", "orphan", "staging", "collect"} :
            /\ expMaint = [op |-> op, of |-> e, step |-> "files"] /\ ExportBusy = {}
            /\ op = "stale" => e \in expPub
            /\ op \in {"orphan", "staging"} => ~ExportClaimed(e)
            /\ op = "collect" => e \in expTomb
    BY DEF ExpInv, ExpMaintained, RemoveResidue, NoExportMaint
  <1> DEFINE paths == CASE op = "collect" -> {<<DestinationOf(e)>>}
                        [] op = "staging" \/ expManifest[e] # {} -> {}
                        [] OTHER -> {j[2] : j \in {k \in expJournal : k[1] = e}}
  <1>2. /\ expTree' = expTree \ UNION {Below(path) : path \in paths}
        /\ expMaint' = [op |-> op, of |-> e, step |-> "rows"]
        /\ UNCHANGED <<expPub, expManifest, expTomb, expJournal, expWriter, expBytes>>
    BY <1>1 DEF RemoveResidue, expRows
  <1>3. ExpTypes /\ ExpEach(e)
    BY DEF ExpInv
  <1>4. expManifest[e] = {}
    BY <1>1, <1>3 DEF ExpEach, ExpSettled, ExportClaimed
  <1>5. paths \subseteq ExpPathsOf(e)
    <2>1. CASE op = "collect"
      BY <2>1 DEF ExpPathsOf
    <2>2. CASE op = "staging"
      BY <2>2
    <2>3. CASE op \in {"stale", "orphan"}
      <3>1. paths = {j[2] : j \in {k \in expJournal : k[1] = e}}
        BY <1>4, <2>3
      <3>2. ASSUME NEW j \in expJournal, j[1] = e PROVE j[2] \in ExpPathsOf(e)
        BY <1>3, <3>2 DEF ExpTypes
      <3> QED  BY <3>1, <3>2
    <2> QED  BY <2>1, <2>2, <2>3
  <1>6. ASSUME op # "staging" PROVE \A t \in expTree' : t[2] # e
    <2> SUFFICES ASSUME NEW t \in expTree, t[2] = e PROVE \E path \in paths : t \in Below(path)
      BY <1>2
    <2>1. t[1] \in ExpPathsOf(e)
      BY <1>3 DEF ExpTypes
    <2>2. CASE op = "collect"
      <3>1. t[1][1] = DestinationOf(e)  BY <2>1, ExpPathHead
      <3>2. Len(<<DestinationOf(e)>>) = 1 /\ <<DestinationOf(e)>>[1] = DestinationOf(e)  OBVIOUS
      <3>3. t \in Below(<<DestinationOf(e)>>)  BY <3>1, <3>2 DEF Below
      <3>4. paths = {<<DestinationOf(e)>>}  BY <1>4, <2>2
      <3> HIDE DEF paths
      <3> QED  BY <3>3, <3>4
    <2>3. CASE op \in {"stale", "orphan"}
      <3>1. <<e, t[1]>> \in expJournal
        BY <1>1, <1>3, <1>4, <2>3 DEF ExpEach, ExpSettled, ExportClaimed
      <3>2. paths = {j[2] : j \in {k \in expJournal : k[1] = e}}
        BY <1>4, <2>3
      <3>3. t[1] \in paths
        <4>1. <<e, t[1]>>[1] = e /\ <<e, t[1]>>[2] = t[1]  OBVIOUS
        <4> QED  BY <3>1, <3>2, <4>1
      <3>4. t \in Below(t[1])  BY DEF Below
      <3> QED  BY <3>3, <3>4
    <2> QED  BY <1>6, <2>2, <2>3
  <1>7. ASSUME ~SharedDestination, NEW x \in Exports \ {e}, NEW t \in expTree, t[2] = x PROVE t \in expTree'
    <2> SUFFICES ASSUME NEW path \in paths, t \in Below(path) PROVE FALSE
      BY <1>2
    <2>1. t[1] \in ExpPathsOf(x)
      BY <1>3, <1>7 DEF ExpTypes
    <2>2. t[1][1] = x  BY <1>7, <2>1, ExpPathHead DEF DestinationOf
    <2>3. path[1] = e  BY <1>5, <1>7, ExpPathHead DEF DestinationOf
    <2>4. t[1][1] = path[1]  BY DEF Below
    <2> QED  BY <2>2, <2>3, <2>4
  <1> HIDE DEF paths
  <1>8. ExpElsewhere(e)
    BY <1>2, <1>7 DEF ExpElsewhere
  <1>9. ExpTypes'
    BY <1>2, <1>3 DEF ExpTypes
  <1>10. ExpEach(e)'
    <2>1. ExpWriting(e)'
      BY <1>2, <1>3 DEF ExpEach, ExpWriting
    <2>2. ExpSettled(e)'
      BY <1>2, <1>3 DEF ExpEach, ExpSettled
    <2>3. expWriter[e] = NoExport
      BY <1>1, <1>3 DEF ExportBusy, ExpEach, ExpWriting
    <2>4. ExpKept(e)'
      <3>1. InstalledSoFar(e)' = {}  BY <1>2, <2>3 DEF InstalledSoFar, NoExport
      <3> QED  BY <1>2, <1>4, <3>1 DEF ExpKept
    <2> QED  BY <2>1, <2>2, <2>4 DEF ExpEach
  <1>11. ExpQuota'
    BY <1>2 DEF ExpInv, ExpQuota, Holding
  <1>12. ExpMaintained'
    BY <1>1, <1>2, <1>6 DEF ExpMaintained, ExportBusy, ExportClaimed
  <1> QED  BY <1>8, <1>9, <1>10, <1>11, <1>12, ExpOwnStep

\* The rows go when the files they name are gone.
LEMMA ExpResidueRows ==
    ASSUME ExpInv, RemoveResidueRows
    PROVE  ExpInv'
  <1>1. PICK e \in Exports, op \in {"stale", "orphan", "staging", "collect"} :
            /\ expMaint = [op |-> op, of |-> e, step |-> "rows"] /\ ExportBusy = {}
            /\ op = "stale" => e \in expPub
            /\ op # "staging" => \A t \in expTree : t[2] # e
    BY DEF ExpInv, ExpMaintained, RemoveResidueRows, NoExportMaint
  <1>2. /\ expJournal' = IF op \in {"stale", "orphan"} THEN {j \in expJournal : j[1] # e} ELSE expJournal
        /\ expTomb' = IF op = "collect" THEN expTomb \ {e} ELSE expTomb
        /\ \/ op = "stale" /\ expMaint' = [op |-> op, of |-> e, step |-> "publication"]
           \/ expMaint' = NoExportMaint
        /\ UNCHANGED <<expPub, expManifest, expTree, expWriter, expBytes>>
    BY <1>1 DEF RemoveResidueRows
  <1>3. ExpTypes /\ ExpEach(e) /\ expWriter[e].pc = "none"
    BY <1>1 DEF ExpInv, ExportBusy
  <1>4. ExpElsewhere(e)
    BY <1>2 DEF ExpElsewhere
  <1>5. ExpTypes'
    BY <1>2, <1>3 DEF ExpTypes
  <1>6. ExpEach(e)'
    <2>1. ExpWriting(e)'
      BY <1>2, <1>3 DEF ExpEach, ExpWriting, NoExport
    <2>2. ExpSettled(e)'
      BY <1>1, <1>2, <1>3 DEF ExpEach, ExpSettled
    <2>3. ExpKept(e)'
      BY <1>2, <1>3 DEF ExpEach, ExpKept, InstalledSoFar
    <2> QED  BY <2>1, <2>2, <2>3 DEF ExpEach
  <1>7. ExpQuota'
    BY <1>2 DEF ExpInv, ExpQuota, Holding
  <1>8. ExpMaintained'
    BY <1>1, <1>2 DEF ExpMaintained, ExportBusy, ExportClaimed
  <1> QED  BY <1>4, <1>5, <1>6, <1>7, <1>8, ExpOwnStep

LEMMA ExpResiduePublication ==
    ASSUME ExpInv, RemovePublication
    PROVE  ExpInv'
  <1>1. PICK e \in Exports : expMaint.of = e /\ ExportBusy = {}
    BY DEF ExpInv, ExpMaintained, RemovePublication, NoExportMaint
  <1>2. /\ expPub' = expPub \ {e} /\ expMaint' = NoExportMaint
        /\ UNCHANGED <<expManifest, expTomb, expJournal, expTree, expWriter, expBytes>>
    BY <1>1 DEF RemovePublication
  <1>3. ExpTypes /\ ExpEach(e) /\ expWriter[e].pc = "none"
    BY <1>1 DEF ExpInv, ExportBusy
  <1>4. ExpElsewhere(e)
    BY <1>2 DEF ExpElsewhere
  <1>5. ExpTypes'
    BY <1>2, <1>3 DEF ExpTypes
  <1>6. ExpEach(e)'
    <2>1. ExpWriting(e)'
      BY <1>2, <1>3 DEF ExpEach, ExpWriting, NoExport
    <2>2. ExpSettled(e)'
      BY <1>2, <1>3 DEF ExpEach, ExpSettled
    <2>3. ExpKept(e)'
      BY <1>2, <1>3 DEF ExpEach, ExpKept, InstalledSoFar
    <2> QED  BY <2>1, <2>2, <2>3 DEF ExpEach
  <1>7. ExpQuota'
    BY <1>2 DEF ExpInv, ExpQuota, Holding
  <1>8. ExpMaintained'
    BY <1>2 DEF ExpMaintained
  <1> QED  BY <1>4, <1>5, <1>6, <1>7, <1>8, ExpOwnStep

LEMMA ExpInitInv == ExportInit => ExpInv
  <1> SUFFICES ASSUME ExportInit PROVE ExpInv
    OBVIOUS
  <1> USE DEF ExportInit
  <1>2. \A e \in Exports : /\ expWriter[e] = NoExport /\ expWriter[e].pc = "none" /\ expWriter[e].set = FALSE
                           /\ expWriter[e].parts = 0 /\ expWriter[e].bytes = 0
                           /\ DOMAIN expWriter[e] = {"pc", "set", "parts", "target", "bytes"}
    BY DEF NoExport
  <1>3. ExpTypes
    <2>1. \A e \in Exports : expWriter[e].set \in BOOLEAN  BY <1>2
    <2>2. \A e \in Exports : IsExportWriter(expWriter[e])
      BY <1>2, <2>1 DEF IsExportWriter, ExpLabels
    <2> QED  BY <2>2 DEF ExpTypes
  <1>4. ASSUME NEW e \in Exports PROVE ExpEach(e)
    <2>1. ExpWriting(e)
      BY <1>2 DEF ExpWriting
    <2>2. ExpSettled(e)
      BY DEF ExpSettled
    <2>3. ExpKept(e)
      <3>1. InstalledSoFar(e) = {}  BY <1>2 DEF InstalledSoFar
      <3> QED  BY <3>1 DEF ExpKept
    <2> QED  BY <2>1, <2>2, <2>3 DEF ExpEach
  <1>5. ExpQuota
    <2>1. Holding = {}  BY <1>2 DEF Holding
    <2>2. Cardinality({}) = 0  BY FS_EmptySet
    <2> QED  BY <2>1, <2>2, ExportAssumption DEF ExpQuota
  <1>6. ExpMaintained
    BY DEF ExpMaintained
  <1> QED  BY <1>3, <1>4, <1>5, <1>6 DEF ExpInv

LEMMA ExportInductive == ExpInv /\ [ExportNext]_expVars => ExpInv'
  <1> SUFFICES ASSUME ExpInv, [ExportNext]_expVars PROVE ExpInv'
    OBVIOUS
  <1>1. ASSUME NEW e \in Exports, ExportStep(e) PROVE ExpInv'
    <2>0. ExpTypes /\ ExpWriting(e) /\ IsExportWriter(expWriter[e])
      BY DEF ExpInv, ExpEach, ExpTypes
    <2>1. CASE \E set \in BOOLEAN : BeginExport(e, set)
      BY <2>1, ExpBegin
    <2>2. CASE CreateExportStaging(e)
      BY <2>2, ExpCreateStaging
    <2>3. CASE CreateStagedFile(e)
      <3>1. ExpGoto(e, "staged") /\ UNCHANGED <<expRows, expTree, expBytes, expMaint>> /\ expWriter[e].pc = "open"
        BY <2>3 DEF CreateStagedFile
      <3> QED  BY <2>0, <3>1, ExpMoves DEF ExpLabels
    <2>4. CASE WriteBuffer(e)
      BY <2>4, ExpWrite
    <2>5. CASE FailExport(e)
      <3>1. /\ ExpGoto(e, "drop") /\ UNCHANGED <<expRows, expTree, expBytes, expMaint>>
            /\ expWriter[e].pc \in {"open", "staged"}
        BY <2>5 DEF FailExport
      <3> QED  BY <2>0, <3>1, ExpMoves DEF ExpLabels
    <2>6. CASE StartInstall(e)
      BY <2>6, ExpStartInstall
    <2>7. CASE CheckSet(e)
      BY <2>7, ExpCheckSet
    <2>8. CASE MakeSet(e)
      BY <2>8, ExpMakeSet
    <2>9. CASE CheckTarget(e)
      <3>1. /\ ExpGoto(e, "drop") \/ ExpGoto(e, "rename")
            /\ UNCHANGED <<expRows, expTree, expBytes, expMaint>> /\ expWriter[e].pc = "check"
        BY <2>9 DEF CheckTarget
      <3> QED  BY <2>0, <3>1, ExpMoves DEF ExpLabels
    <2>10. CASE RenameStaged(e)
      BY <2>10, ExpRename
    <2>11. CASE CommitExport(e)
      BY <2>11, ExpCommit
    <2>12. CASE CleanExport(e) \/ DropPublication(e)
      <3>1. /\ expWriter[e].pc \in {"committed", "unpublish"} /\ expPub' \in {expPub, expPub \ {e}}
            /\ expWriter' = [expWriter EXCEPT ![e] = NoExport]
            /\ UNCHANGED <<expManifest, expTomb, expJournal, expTree, expBytes, expMaint>>
        BY <2>12 DEF CleanExport, DropPublication, expRows
      <3>2. expWriter[e].bytes = 0
        BY <2>0, <3>1 DEF ExpWriting, IsExportWriter
      <3> QED  BY <3>1, <3>2, ExpEnds
    <2>13. CASE DropStaging(e)
      BY <2>13, ExpDropStaging
    <2>14. CASE TombstoneExport(e)
      BY <2>14, ExpTombstone
    <2>15. CASE RecoverStale(e) \/ RecoverOrphan(e) \/ RecoverStaging(e) \/ CollectExport(e)
      BY <2>15, ExpMaintStarts DEF RecoverStale, RecoverOrphan, RecoverStaging, CollectExport
    <2> QED  BY <1>1, <2>1, <2>2, <2>3, <2>4, <2>5, <2>6, <2>7, <2>8, <2>9, <2>10, <2>11, <2>12, <2>13,
                <2>14, <2>15 DEF ExportStep
  <1>2. CASE RemoveResidue
    BY <1>2, ExpResidue
  <1>3. CASE RemoveResidueRows
    BY <1>3, ExpResidueRows
  <1>4. CASE RemovePublication
    BY <1>4, ExpResiduePublication
  <1>5. CASE CrashExports
    BY <1>5, ExpCrash
  <1>6. CASE UNCHANGED expVars
    <2>1. /\ UNCHANGED <<expPub, expManifest, expTomb, expJournal, expTree, expWriter, expBytes, expMaint>>
      BY <1>6 DEF expVars, expRows
    <2>2. ExpTypes' /\ ExpQuota'
      BY <2>1 DEF ExpInv, ExpTypes, ExpQuota, Holding
    <2>3. ASSUME NEW x \in Exports PROVE ExpEach(x)'
      BY <2>1 DEF ExpInv, ExpEach, ExpWriting, ExpSettled, ExpKept, InstalledSoFar
    <2>4. ExpMaintained'
      BY <2>1 DEF ExpInv, ExpMaintained, ExportBusy, ExportClaimed
    <2> QED  BY <2>2, <2>3, <2>4 DEF ExpInv
  <1> QED  BY <1>1, <1>2, <1>3, <1>4, <1>5, <1>6 DEF ExportNext

LEMMA ExpInvImplies ==
    ASSUME ExpInv
    PROVE  NoLostInstall /\ QuotaExact /\ (~SharedDestination => CommittedExportKept)
  <1>1. NoLostInstall
    <2> SUFFICES ASSUME NEW t \in expTree, expManifest[t[2]] = {}, t[2] \notin expTomb
                 PROVE  \E j \in expJournal : j[1] = t[2] /\ j[2][1] = t[1][1]
      BY DEF NoLostInstall
    <2>1. t[2] \in Exports /\ t[1] \in ExpPathsOf(t[2])
      BY DEF ExpInv, ExpTypes
    <2>2. <<t[2], t[1]>> \in expJournal
      BY <2>1 DEF ExpInv, ExpEach, ExpSettled
    <2> QED  BY <2>2
  <1>2. QuotaExact
    <2>1. Cardinality({e \in Exports : expWriter[e].bytes > 0}) = expBytes /\ expBytes \in 0..StagingLimit
      BY DEF ExpInv, ExpQuota, Holding
    <2>2. \A e \in Exports : expManifest[e] # {} => \A j \in expJournal : j[1] # e
      BY DEF ExpInv, ExpEach, ExpSettled
    <2> QED  BY <2>1, <2>2 DEF QuotaExact
  <1>3. ~SharedDestination => CommittedExportKept
    BY DEF ExpInv, ExpEach, ExpKept, CommittedExportKept
  <1> QED  BY <1>1, <1>2, <1>3

\* ExportWriter, recover_export_residue and collect_export_garbage: whatever
\* exports are written, dropped, die, are recovered or collected beside each
\* other, nothing at a destination is out of reach of recovery, and the staging
\* counter is what is staged; and when no two exports name the same
\* destination, the files of a manifest stay.
THEOREM ExportsAreKept == ExportSpec => [](NoLostInstall /\ QuotaExact /\ (~SharedDestination => CommittedExportKept))
  <1>1. ExportInit => ExpInv  BY ExpInitInv
  <1>2. ExpInv /\ [ExportNext]_expVars => ExpInv'  BY ExportInductive
  <1>3. ExpInv => NoLostInstall /\ QuotaExact /\ (~SharedDestination => CommittedExportKept)  BY ExpInvImplies
  <1> QED  BY <1>1, <1>2, <1>3, PTL DEF ExportSpec

\* While recovery runs no manifest row is written or retired: commit needs a
\* writer, and tombstone_export is refused by the gate.
LEMMA ExpManifestStays ==
    ASSUME ExpInv, [ExportNext]_expVars, expMaint.op \in {"stale", "orphan"}
    PROVE  expManifest' = expManifest
  <1>1. expMaint # NoExportMaint
    BY DEF NoExportMaint
  <1>2. \A e \in Exports : expWriter[e].pc = "none"
    BY <1>1 DEF ExpInv, ExpMaintained, ExportBusy
  <1>3. ASSUME NEW e \in Exports, ExportStep(e) PROVE expManifest' = expManifest
    <2>1. ~CommitExport(e)
      BY <1>2 DEF CommitExport
    <2>2. ~TombstoneExport(e)
      BY <1>1 DEF TombstoneExport
    <2>3. CASE \/ \E set \in BOOLEAN : BeginExport(e, set)
               \/ CreateExportStaging(e) \/ CreateStagedFile(e) \/ WriteBuffer(e) \/ FailExport(e)
      BY <2>3 DEF BeginExport, CreateExportStaging, CreateStagedFile, WriteBuffer, FailExport, expRows
    <2>4. CASE StartInstall(e) \/ CheckSet(e) \/ MakeSet(e) \/ CheckTarget(e) \/ RenameStaged(e)
      BY <2>4 DEF StartInstall, CheckSet, MakeSet, CheckTarget, RenameStaged, expRows
    <2>5. CASE CleanExport(e) \/ DropStaging(e) \/ DropPublication(e)
      BY <2>5 DEF CleanExport, DropStaging, DropPublication, expRows
    <2>6. CASE RecoverStale(e) \/ RecoverOrphan(e) \/ RecoverStaging(e) \/ CollectExport(e)
      BY <2>6 DEF RecoverStale, RecoverOrphan, RecoverStaging, CollectExport, ExportMaintenance, expRows
    <2> QED
      BY <1>3, <2>1, <2>2, <2>3, <2>4, <2>5, <2>6 DEF ExportStep
  <1>4. ASSUME RemoveResidue \/ RemoveResidueRows \/ RemovePublication \/ CrashExports
        PROVE  expManifest' = expManifest
    BY <1>4 DEF RemoveResidue, RemoveResidueRows, RemovePublication, CrashExports, expRows
  <1>5. ASSUME UNCHANGED expVars PROVE expManifest' = expManifest
    BY <1>5 DEF expVars, expRows
  <1> QED
    BY <1>3, <1>4, <1>5 DEF ExportNext

\* With one destination per export, no step of a recovery removes a file that a
\* manifest lists: what recover_export_residue promises in its comment, and what
\* two exports to one destination refute.
THEOREM RecoveryIsHarmless == ~SharedDestination => (ExportSpec => RecoveryKeepsCommitted)
  <1> SUFFICES ASSUME ~SharedDestination PROVE ExportSpec => RecoveryKeepsCommitted
    OBVIOUS
  <1>1. ExportInit => ExpInv  BY ExpInitInv
  <1>2. ExpInv /\ [ExportNext]_expVars => ExpInv'  BY ExportInductive
  <1>3. ASSUME ExpInv, ExpInv', [ExportNext]_expVars
        PROVE  [expMaint.op \in {"stale", "orphan"} =>
                    \A e \in Exports : \A path \in expManifest[e] :
                        <<path, e>> \in expTree => <<path, e>> \in expTree']_expVars
    <2>1. expMaint.op \in {"stale", "orphan"} => expManifest' = expManifest
      BY <1>3, ExpManifestStays
    <2>2. \A e \in Exports : \A path \in expManifest'[e] : <<path, e>> \in expTree'
      BY <1>3 DEF ExpInv, ExpEach, ExpKept
    <2> QED
      BY <2>1, <2>2
  <1> QED
    BY <1>1, <1>2, <1>3, PTL DEF ExportSpec, RecoveryKeepsCommitted

-----------------------------------------------------------------------------
(* Verification bundles.                                                   *)

BunLabels == {"none", "begun", "staged", "makeDirs", "abort", "unjournal", "cleanup"}
IsBundleWriter(w) ==
    /\ DOMAIN w = {"pc", "draft", "packs", "made"} /\ w.pc \in BunLabels
    /\ w.draft \in [shared : BOOLEAN, rejects : BOOLEAN] /\ w.packs \in [Sections -> Nat]

BunTypes ==
    /\ bunJournal \subseteq Bundles /\ DOMAIN bunRow = Bundles
    /\ DOMAIN bunWriter = Bundles /\ \A b \in Bundles : IsBundleWriter(bunWriter[b])
    /\ \A d \in bunDirs :
            \/ \E b \in Bundles : d = <<"staging", b>>
            \/ d = <<"final", SharedSnapshot>>
            \/ \E b \in Bundles, role \in Roles : d = <<"final", <<b, role>>>>
    /\ bunSpent \in [crash : Nat, rot : Nat, packs : Nat]
    /\ TRUE \notin bunServed

HasChild(b, role) == <<"final", <<b, role>>>> \in bunDirs
HasStaging(b) == <<"staging", b>> \in bunDirs

\* Whose the directories are: a writer remembers every directory it made, and
\* a bundle that is neither journaled nor committed has none.
BunPlace(b) ==
    LET w == bunWriter[b] IN
    /\ w.pc \notin {"none", "cleanup"} => b \in bunJournal
    /\ b \in bunJournal => b \notin Committed
    /\ \A role \in Roles : HasChild(b, role) => b \in bunJournal \cup Committed
    /\ w.pc \in {"none", "begun", "staged", "unjournal"} => w.made = <<>>
    /\ w.made \in Seq({b} \X Roles)
    /\ w.pc \notin {"none", "cleanup"} =>
            \A role \in Roles : HasChild(b, role) => \E i \in 1..Len(w.made) : w.made[i] = <<b, role>>
    /\ b \in bunJournal /\ w.draft.shared => ~HasChild(b, "accepted")
    /\ HasStaging(b) => b \in bunJournal \/ Busy(b) \/ bunSpent.crash > 0
    /\ HasStaging(b) /\ w.pc \in {"begun", "unjournal"} => bunSpent.crash > 0

\* Where the packs are: in staging until they are renamed, and the directories
\* are made in the order of the roles.
BunPacks(b) ==
    LET w == bunWriter[b] IN
    /\ \A x \in Sections \ SectionPlan(w.draft) : w.packs[x] = 0
    /\ w.pc = "begun" => \A x \in Sections : w.packs[x] = 0
    /\ w.pc = "staged" => \A x \in Sections : \A n \in 0..(w.packs[x] - 1) : <<"staging", b, x, n>> \in bunFiles
    /\ w.pc = "makeDirs" =>
            /\ Len(w.made) <= Len(FinalRoles(w))
            /\ \A i \in 1..Len(w.made) : /\ w.made[i] = <<b, FinalRoles(w)[i]>>
                                         /\ HasChild(b, FinalRoles(w)[i])
            /\ \A x \in Sections : \A n \in 0..(w.packs[x] - 1) :
                    \/ <<"staging", b, x, n>> \in bunFiles
                    \/ <<"final", <<b, RoleOf(x)>>, x, n>> \in bunFiles

BunWhole(b) ==
    b \in Committed =>
        /\ \A role \in Roles : role = "rejected" => (bunRow[b].rejects \/ FilesOfChild(b, role) = {})
        /\ \A role \in {"validation", "dedup"} : HasChild(b, role)
        /\ \A role \in Roles : FilesOfChild(b, role) \subseteq bunFiles
        /\ bunRow[b].digest = BundleDigest(b, bunRow[b])

BunSharedThere ==
    /\ <<"final", SharedSnapshot>> \in bunDirs
    /\ <<"final", SharedSnapshot, "accepted", 0>> \in bunFiles
RefersTo(b) == (b \in Committed /\ bunRow[b].shared) \/ (b \in bunJournal /\ bunWriter[b].draft.shared)
BunSharing == \A b, c \in Bundles : RefersTo(b) /\ RefersTo(c) => b = c

\* Recovery has the store to itself; the directories of the bundle it is at are
\* of the roles it has still to do.
BunRecovering ==
    \/ bunMaint = NoRecovery
    \/ /\ \A b \in Bundles : ~Busy(b)
       /\ \E b \in bunJournal :
            /\ bunMaint.cur = {b} /\ bunMaint.todo \subseteq bunJournal \ {b}
            /\ bunMaint.ids \in Seq(Roles) /\ DOMAIN bunMaint = {"todo", "cur", "ids"}
            /\ \A role \in Roles : HasChild(b, role) => \E i \in 1..Len(bunMaint.ids) : bunMaint.ids[i] = role

BunEach(b) == BunPlace(b) /\ BunPacks(b) /\ BunWhole(b)
BunInv == BunTypes /\ (\A b \in Bundles : BunEach(b)) /\ BunSharedThere /\ BunSharing /\ BunRecovering

LEMMA BunIdentity ==
    ASSUME NEW b, NEW draft, NEW role
    PROVE  /\ Identity(b, draft, role) = IF role = "accepted" /\ draft.shared THEN SharedSnapshot ELSE <<b, role>>
           /\ draft.shared => SharedSnapshot \in Claims(b, draft)
  <1>1. Identity(b, draft, role) = IF role = "accepted" /\ draft.shared THEN SharedSnapshot ELSE <<b, role>>
    BY DEF Identity
  <1>2. ASSUME draft.shared PROVE SharedSnapshot \in Claims(b, draft)
    <2>1. "accepted" \in Roles \ (IF draft.rejects THEN {} ELSE {"rejected"})
      BY DEF Roles
    <2>2. Identity(b, draft, "accepted") = SharedSnapshot
      BY <1>2 DEF Identity
    <2> QED  BY <2>1, <2>2 DEF Claims
  <1> QED  BY <1>1, <1>2

\* The identities of a bundle's new children are its own.
LEMMA BunClaims ==
    ASSUME NEW b \in Bundles, NEW c \in Bundles \ {b}, NEW role \in Roles, NEW draft
    PROVE  <<b, role>> \notin Claims(c, draft)
  <1>1. SharedSnapshot # <<b, role>>
    BY BundleAssumption
  <1>2. \A r : Identity(c, draft, r) \in {SharedSnapshot, <<c, r>>}
    BY DEF Identity
  <1> QED  BY <1>1, <1>2 DEF Claims

LEMMA BunFiles ==
    ASSUME NEW b \in Bundles, NEW role \in Roles, NEW f \in FilesOfChild(b, role)
    PROVE  \/ f = <<"final", SharedSnapshot, "accepted", 0>>
           \/ \E x, n : f = <<"final", <<b, role>>, x, n>>
  BY DEF FilesOfChild, Identity

LEMMA BunFrame ==
    ASSUME NEW x \in Bundles, BunEach(x), BunSharedThere',
           bunWriter'[x] = bunWriter[x], bunRow'[x] = bunRow[x], x \in bunJournal' <=> x \in bunJournal,
           HasStaging(x)' <=> HasStaging(x), \A role \in Roles : HasChild(x, role)' <=> HasChild(x, role),
           \A s, n : <<"staging", x, s, n>> \in bunFiles => <<"staging", x, s, n>> \in bunFiles',
           \A role \in Roles : \A s, n :
                <<"final", <<x, role>>, s, n>> \in bunFiles => <<"final", <<x, role>>, s, n>> \in bunFiles',
           bunSpent'.crash = bunSpent.crash
    PROVE  BunEach(x)'
  <1>0. BunPlace(x) /\ BunPacks(x) /\ BunWhole(x) /\ (x \in Committed' <=> x \in Committed) /\ "accepted" \in Roles
    BY DEF BunEach, Committed, Roles
  <1>1. BunPlace(x)'
    BY <1>0 DEF BunPlace, Busy
  <1>2. BunPacks(x)'
    <2>1. \A s \in Sections : RoleOf(s) \in Roles
      BY DEF Sections, RoleOf, Roles
    <2>2. /\ \A s \in Sections \ SectionPlan(bunWriter'[x].draft) : bunWriter'[x].packs[s] = 0
          /\ bunWriter'[x].pc = "begun" => \A s \in Sections : bunWriter'[x].packs[s] = 0
          /\ bunWriter'[x].pc = "staged" => \A s \in Sections : \A n \in 0..(bunWriter'[x].packs[s] - 1) :
                <<"staging", x, s, n>> \in bunFiles'
      BY <1>0 DEF BunPacks
    <2>3. ASSUME bunWriter[x].pc = "makeDirs"
          PROVE  /\ Len(bunWriter[x].made) <= Len(FinalRoles(bunWriter[x]))
                 /\ \A i \in 1..Len(bunWriter[x].made) : /\ bunWriter[x].made[i] = <<x, FinalRoles(bunWriter[x])[i]>>
                                                         /\ HasChild(x, FinalRoles(bunWriter[x])[i])'
      <3>1. \A i \in 1..Len(bunWriter[x].made) : FinalRoles(bunWriter[x])[i] \in Roles
        <4> SUFFICES ASSUME NEW i \in 1..Len(bunWriter[x].made) PROVE FinalRoles(bunWriter[x])[i] \in Roles
          OBVIOUS
        <4>1. bunWriter[x].made \in Seq({x} \X Roles)
          BY <1>0 DEF BunPlace
        <4>2. bunWriter[x].made[i] \in {x} \X Roles
          BY <4>1
        <4> QED  BY <1>0, <2>3, <4>2 DEF BunPacks
      <3> QED  BY <1>0, <2>3, <3>1 DEF BunPacks
    <2>4. ASSUME bunWriter[x].pc = "makeDirs", NEW s \in Sections, NEW n \in 0..(bunWriter[x].packs[s] - 1)
          PROVE  <<"staging", x, s, n>> \in bunFiles' \/ <<"final", <<x, RoleOf(s)>>, s, n>> \in bunFiles'
      BY <1>0, <2>1, <2>4 DEF BunPacks
    <2> QED  BY <2>2, <2>3, <2>4 DEF BunPacks
  <1>3. BunWhole(x)'
    <2>1. \A role : FilesOfChild(x, role)' = FilesOfChild(x, role)
      BY DEF FilesOfChild
    <2>2. \A role \in Roles : FilesOfChild(x, role) \subseteq bunFiles => FilesOfChild(x, role) \subseteq bunFiles'
      BY BunFiles DEF BunSharedThere
    <2>3. BundleDigest(x, bunRow[x])' = BundleDigest(x, bunRow[x])
      BY DEF BundleDigest
    <2>4. {"validation", "dedup"} \subseteq Roles
      BY DEF Roles
    <2> QED  BY <1>0, <2>1, <2>2, <2>3, <2>4 DEF BunWhole
  <1> QED  BY <1>1, <1>2, <1>3 DEF BunEach

\* What a step of one bundle does not touch.
BunElsewhere(b) ==
    /\ bunSpent'.crash = bunSpent.crash
    /\ \A x \in Bundles \ {b} :
        /\ bunWriter'[x] = bunWriter[x] /\ bunRow'[x] = bunRow[x] /\ (x \in bunJournal' <=> x \in bunJournal)
        /\ HasStaging(x)' <=> HasStaging(x)
        /\ \A role \in Roles : HasChild(x, role)' <=> HasChild(x, role)
        /\ \A s, n : <<"staging", x, s, n>> \in bunFiles => <<"staging", x, s, n>> \in bunFiles'
        /\ \A role \in Roles : \A s, n :
                <<"final", <<x, role>>, s, n>> \in bunFiles => <<"final", <<x, role>>, s, n>> \in bunFiles'
LEMMA BunOthers ==
    ASSUME BunInv, NEW b \in Bundles, BunElsewhere(b), BunSharedThere'
    PROVE  \A x \in Bundles \ {b} : BunEach(x)' /\ (RefersTo(x)' <=> RefersTo(x))
  <1> SUFFICES ASSUME NEW x \in Bundles \ {b} PROVE BunEach(x)' /\ (RefersTo(x)' <=> RefersTo(x))
    OBVIOUS
  <1>1. BunEach(x)
    BY DEF BunInv
  <1>2. /\ bunWriter'[x] = bunWriter[x] /\ bunRow'[x] = bunRow[x] /\ (x \in bunJournal' <=> x \in bunJournal)
        /\ HasStaging(x)' <=> HasStaging(x)
        /\ \A role \in Roles : HasChild(x, role)' <=> HasChild(x, role)
        /\ \A s, n : <<"staging", x, s, n>> \in bunFiles => <<"staging", x, s, n>> \in bunFiles'
        /\ \A role \in Roles : \A s, n :
                <<"final", <<x, role>>, s, n>> \in bunFiles => <<"final", <<x, role>>, s, n>> \in bunFiles'
        /\ bunSpent'.crash = bunSpent.crash
    BY Zenon DEF BunElsewhere
  <1>3. BunEach(x)'
    BY <1>1, <1>2, BunFrame
  <1>4. RefersTo(x)' <=> RefersTo(x)
    BY <1>2 DEF RefersTo, Committed
  <1> QED  BY <1>3, <1>4

\* A step of a writer: recovery is not there, and who refers to the existing
\* Snapshot referred to it before.
LEMMA BunOwnStep ==
    ASSUME BunInv, NEW b \in Bundles, BunElsewhere(b), BunTypes', BunEach(b)', BunSharedThere',
           RefersTo(b)' => RefersTo(b), bunMaint' = NoRecovery
    PROVE  BunInv'
  <1>1. \A x \in Bundles : BunEach(x)' /\ (RefersTo(x)' => RefersTo(x))
    BY BunOthers
  <1>2. BunSharing'
    BY <1>1 DEF BunInv, BunSharing
  <1>3. BunRecovering'
    BY DEF BunRecovering
  <1> QED  BY <1>1, <1>2, <1>3 DEF BunInv

LEMMA BunNoMaint ==
    ASSUME BunInv, NEW b \in Bundles, bunWriter[b].pc # "none"
    PROVE  bunMaint = NoRecovery
  BY DEF BunInv, BunRecovering, Busy

\* remove_dir_all touches one directory.
LEMMA BunRemoves ==
    ASSUME NEW area, NEW id, RemoveTree(area, id)
    PROVE  /\ bunDirs' \in {bunDirs, bunDirs \ {<<area, id>>}} /\ bunFiles' \subseteq bunFiles
           /\ \A f \in bunFiles : ~(f[1] = area /\ f[2] = id) => f \in bunFiles'
  BY DEF RemoveTree

LEMMA BunMove ==
    ASSUME BunTypes, NEW b \in Bundles, NEW label \in BunLabels, BunGoto(b, label)
    PROVE  /\ DOMAIN bunWriter' = Bundles /\ \A x \in Bundles : IsBundleWriter(bunWriter'[x])
           /\ bunWriter'[b].pc = label /\ bunWriter'[b].draft = bunWriter[b].draft
           /\ bunWriter'[b].packs = bunWriter[b].packs /\ bunWriter'[b].made = bunWriter[b].made
           /\ FinalRoles(bunWriter'[b]) = FinalRoles(bunWriter[b])
           /\ \A x \in Bundles \ {b} : bunWriter'[x] = bunWriter[x]
  <1>1. bunWriter' = [bunWriter EXCEPT ![b].pc = label] /\ IsBundleWriter(bunWriter[b])
    BY DEF BunGoto, BunTypes
  <1>2. /\ DOMAIN bunWriter' = Bundles /\ bunWriter'[b] = [bunWriter[b] EXCEPT !.pc = label]
        /\ \A x \in Bundles \ {b} : bunWriter'[x] = bunWriter[x]
    BY <1>1 DEF BunTypes
  <1>3. /\ bunWriter'[b].pc = label /\ bunWriter'[b].draft = bunWriter[b].draft
        /\ bunWriter'[b].packs = bunWriter[b].packs /\ bunWriter'[b].made = bunWriter[b].made
        /\ IsBundleWriter(bunWriter'[b])
    BY <1>1, <1>2 DEF IsBundleWriter
  <1>4. FinalRoles(bunWriter'[b]) = FinalRoles(bunWriter[b])
    BY <1>3 DEF FinalRoles, HasRejected
  <1> QED  BY <1>2, <1>3, <1>4 DEF BunTypes

\* A writer moves on with the database and the files as they are.
LEMMA BunMoves ==
    ASSUME BunInv, NEW b \in Bundles, NEW label \in BunLabels, BunGoto(b, label),
           UNCHANGED <<bunDb, bunDirs, bunFiles, bunMaint, bunServed, bunSpent>>,
           \/ bunWriter[b].pc = "begun" /\ label = "unjournal" /\ HasStaging(b)
           \/ bunWriter[b].pc = "abort" /\ label = "unjournal" /\ ~HasStaging(b) /\ bunWriter[b].made = <<>>
           \/ bunWriter[b].pc \in {"staged", "makeDirs"} /\ label = "abort"
           \/ bunWriter[b].pc = "staged" /\ label = "makeDirs"
    PROVE  BunInv'
  <1>0. /\ BunTypes /\ BunPlace(b) /\ BunPacks(b) /\ BunWhole(b) /\ BunSharedThere
        /\ bunMaint = NoRecovery /\ bunWriter[b].pc # "none"
    BY BunNoMaint DEF BunInv, BunEach
  <1>1. /\ UNCHANGED <<bunJournal, bunRow, bunShared>>
    BY DEF bunDb
  <1>2. BunElsewhere(b)
    BY <1>0, <1>1, BunMove DEF BunElsewhere, HasStaging, HasChild
  <1>3. BunTypes'
    BY <1>0, <1>1, BunMove DEF BunTypes
  <1>4. BunPlace(b)'
    BY <1>0, <1>1, BunMove DEF BunPlace, HasStaging, HasChild, Busy, Committed
  <1>5. BunPacks(b)'
    <2>1. FinalRoles(bunWriter[b]) \in Seq(Roles)
      BY DEF FinalRoles, Roles
    <2>2. CASE label = "makeDirs"
      <3>1. bunWriter[b].pc = "staged" /\ bunWriter[b].made = <<>>
        BY <1>0, <2>2 DEF BunPlace
      <3>2. Len(bunWriter[b].made) = 0 /\ 0 <= Len(FinalRoles(bunWriter[b]))
        BY <2>1, <3>1
      <3>3. /\ bunWriter'[b].pc = "makeDirs" /\ bunWriter'[b].draft = bunWriter[b].draft
            /\ bunWriter'[b].packs = bunWriter[b].packs /\ bunWriter'[b].made = bunWriter[b].made
            /\ FinalRoles(bunWriter'[b]) = FinalRoles(bunWriter[b])
        BY <1>0, <2>2, BunMove
      <3> QED  BY <1>0, <3>1, <3>2, <3>3 DEF BunPacks
    <2>3. CASE label # "makeDirs"
      BY <1>0, <2>3, BunMove DEF BunPacks
    <2> QED  BY <2>2, <2>3
  <1>6. BunWhole(b)'
    BY <1>0, <1>1 DEF BunWhole, Committed, FilesOfChild, HasChild
  <1>7. BunSharedThere'
    BY <1>0 DEF BunSharedThere
  <1>8. RefersTo(b)' => RefersTo(b)
    BY <1>0, <1>1, BunMove DEF RefersTo, Committed
  <1> QED  BY <1>0, <1>2, <1>3, <1>4, <1>5, <1>6, <1>7, <1>8, BunOwnStep DEF BunEach

\* begin_verification_bundle: nobody else claims the existing Snapshot.
LEMMA BunBegin ==
    ASSUME BunInv, NEW b \in Bundles, NEW draft \in [shared : BOOLEAN, rejects : BOOLEAN], BeginBundle(b, draft)
    PROVE  BunInv'
  <1>0. /\ BunTypes /\ BunPlace(b) /\ BunPacks(b) /\ BunWhole(b) /\ BunSharedThere
        /\ bunMaint = NoRecovery /\ bunWriter[b].pc = "none" /\ b \notin bunJournal /\ b \notin Committed
    BY DEF BunInv, BunEach, BeginBundle, Busy, Unclaimed
  <1>1. /\ bunJournal' = bunJournal \cup {b}
        /\ bunWriter' = [bunWriter EXCEPT ![b] = [NoBundleWriter EXCEPT !.pc = "begun", !.draft = draft]]
        /\ UNCHANGED <<bunRow, bunDirs, bunFiles, bunMaint, bunServed, bunSpent>>
    BY DEF BeginBundle, bunFs
  <1>2. /\ DOMAIN bunWriter' = Bundles
        /\ bunWriter'[b] = [NoBundleWriter EXCEPT !.pc = "begun", !.draft = draft]
        /\ \A x \in Bundles \ {b} : bunWriter'[x] = bunWriter[x]
    BY <1>0, <1>1 DEF BunTypes
  <1>3. /\ bunWriter'[b].pc = "begun" /\ bunWriter'[b].draft = draft /\ bunWriter'[b].made = <<>>
        /\ bunWriter'[b].packs = [x \in Sections |-> 0]
        /\ DOMAIN bunWriter'[b] = {"pc", "draft", "packs", "made"}
    BY <1>2 DEF NoBundleWriter
  <1>4. IsBundleWriter(bunWriter'[b])
    BY <1>3 DEF IsBundleWriter, BunLabels
  <1>5. BunElsewhere(b)
    BY <1>1, <1>2 DEF BunElsewhere, HasStaging, HasChild
  <1>6. BunTypes'
    BY <1>0, <1>1, <1>2, <1>4 DEF BunTypes
  <1>7. BunPlace(b)'
    <2>1. \A role \in Roles : ~HasChild(b, role)
      BY <1>0 DEF BunPlace
    <2>2. HasStaging(b) => bunSpent.crash > 0
      BY <1>0 DEF BunPlace, Busy
    <2>3. <<>> \in Seq({b} \X Roles)
      OBVIOUS
    <2> QED  BY <1>0, <1>1, <1>3, <2>1, <2>2, <2>3 DEF BunPlace, HasStaging, HasChild, Committed, Roles
  <1>8. BunPacks(b)'
    BY <1>3 DEF BunPacks
  <1>9. BunWhole(b)'
    BY <1>0, <1>1 DEF BunWhole, Committed
  <1>10. BunSharedThere'
    BY <1>0, <1>1 DEF BunSharedThere
  <1>11. \A x \in Bundles \ {b} : BunEach(x)' /\ (RefersTo(x)' <=> RefersTo(x))
    BY <1>5, <1>10, BunOthers
  <1>12. BunSharing'
    <2>1. ASSUME NEW x \in Bundles \ {b}, RefersTo(x) PROVE ~draft.shared
      <3> SUFFICES ASSUME draft.shared PROVE FALSE
        OBVIOUS
      <3>1. SharedSnapshot \in Claims(b, draft)
        BY BunIdentity
      <3>2. CASE x \in Committed /\ bunRow[x].shared
        <4>1. SharedSnapshot \in Claims(x, bunRow[x])  BY <3>2, BunIdentity
        <4> QED  BY <3>1, <3>2, <4>1 DEF BeginBundle, Unclaimed
      <3>3. CASE x \in bunJournal /\ bunWriter[x].draft.shared
        <4>1. SharedSnapshot \in Claims(x, bunWriter[x].draft)  BY <3>3, BunIdentity
        <4> QED  BY <3>1, <3>3, <4>1 DEF BeginBundle, Unclaimed
      <3> QED  BY <2>1, <3>2, <3>3 DEF RefersTo
    <2>2. RefersTo(b)' => draft.shared
      BY <1>0, <1>1, <1>3 DEF RefersTo, Committed
    <2> QED  BY <1>11, <2>1, <2>2 DEF BunInv, BunSharing
  <1>13. BunRecovering'
    BY <1>0, <1>1 DEF BunRecovering
  <1> QED  BY <1>6, <1>7, <1>8, <1>9, <1>10, <1>11, <1>12, <1>13 DEF BunInv, BunEach

LEMMA BunCreateStaging ==
    ASSUME BunInv, NEW b \in Bundles, CreateBundleStaging(b)
    PROVE  BunInv'
  <1>0. /\ BunTypes /\ BunPlace(b) /\ BunPacks(b) /\ BunWhole(b) /\ BunSharedThere
        /\ bunMaint = NoRecovery /\ bunWriter[b].pc = "begun"
    BY BunNoMaint DEF BunInv, BunEach, CreateBundleStaging
  <1>1. CASE HasStaging(b)
    <2>1. BunGoto(b, "unjournal") /\ UNCHANGED <<bunDb, bunDirs, bunFiles, bunMaint, bunServed, bunSpent>>
      BY <1>1 DEF CreateBundleStaging, HasStaging
    <2> QED  BY <1>0, <1>1, <2>1, BunMoves DEF BunLabels
  <1>2. CASE ~HasStaging(b)
    <2>1. /\ BunGoto(b, "staged") /\ bunDirs' = bunDirs \cup {<<"staging", b>>}
          /\ UNCHANGED <<bunJournal, bunRow, bunFiles, bunMaint, bunServed, bunSpent>>
      BY <1>2 DEF CreateBundleStaging, HasStaging, bunDb
    <2>2. "staged" \in BunLabels
      BY DEF BunLabels
    <2>3. /\ DOMAIN bunWriter' = Bundles /\ \A x \in Bundles : IsBundleWriter(bunWriter'[x])
          /\ bunWriter'[b].pc = "staged" /\ bunWriter'[b].draft = bunWriter[b].draft
          /\ bunWriter'[b].packs = bunWriter[b].packs /\ bunWriter'[b].made = bunWriter[b].made
          /\ \A x \in Bundles \ {b} : bunWriter'[x] = bunWriter[x]
      BY <1>0, <2>1, <2>2, BunMove
    <2>4. \A d : d # <<"staging", b>> => (d \in bunDirs' <=> d \in bunDirs)
      BY <2>1
    <2>5. \A x, role : <<"final", <<x, role>>>> # <<"staging", b>>
      OBVIOUS
    <2>6. BunElsewhere(b)
      BY <2>1, <2>3, <2>4, <2>5 DEF BunElsewhere, HasStaging, HasChild
    <2>7. BunTypes'
      BY <1>0, <2>1, <2>3 DEF BunTypes
    <2>8. BunPlace(b)'
      BY <1>0, <2>1, <2>3, <2>4, <2>5 DEF BunPlace, HasStaging, HasChild, Committed
    <2>9. BunPacks(b)'
      <3>1. \A x \in Sections : bunWriter'[b].packs[x] = 0
        BY <1>0, <2>3 DEF BunPacks
      <3> QED  BY <2>3, <3>1 DEF BunPacks
    <2>10. BunWhole(b)'
      BY <1>0, <2>1 DEF BunWhole, Committed, BunPlace
    <2>11. BunSharedThere'
      BY <1>0, <2>1 DEF BunSharedThere
    <2>12. RefersTo(b)' => RefersTo(b)
      BY <2>1, <2>3 DEF RefersTo, Committed
    <2> QED  BY <1>0, <2>1, <2>6, <2>7, <2>8, <2>9, <2>10, <2>11, <2>12, BunOwnStep DEF BunEach
  <1> QED  BY <1>1, <1>2

LEMMA BunAppend ==
    ASSUME BunInv, NEW b \in Bundles, NEW x \in Sections, NEW fits, AppendPack(b, x, fits)
    PROVE  BunInv'
  <1> DEFINE w == bunWriter[b]
  <1>0. /\ BunTypes /\ BunPlace(b) /\ BunPacks(b) /\ BunWhole(b) /\ BunSharedThere
        /\ bunMaint = NoRecovery /\ w.pc = "staged" /\ x \in SectionPlan(w.draft) /\ IsBundleWriter(w)
    BY BunNoMaint DEF BunInv, BunEach, AppendPack, BunTypes
  <1>1. CASE ~fits
    <2>1. BunGoto(b, "abort") /\ UNCHANGED <<bunDb, bunDirs, bunFiles, bunMaint, bunServed, bunSpent>>
      BY <1>1 DEF AppendPack
    <2> QED  BY <1>0, <2>1, BunMoves DEF BunLabels
  <1>2. CASE fits
    <2>1. /\ bunFiles' = bunFiles \cup {<<"staging", b, x, w.packs[x]>>}
          /\ bunWriter' = [bunWriter EXCEPT ![b].packs[x] = @ + 1]
          /\ bunSpent' = [bunSpent EXCEPT !.packs = @ + 1]
          /\ UNCHANGED <<bunJournal, bunRow, bunDirs, bunMaint, bunServed>>
      BY <1>2 DEF AppendPack, bunDb
    <2>2. /\ DOMAIN bunWriter' = Bundles /\ bunWriter'[b] = [w EXCEPT !.packs[x] = @ + 1]
          /\ \A y \in Bundles \ {b} : bunWriter'[y] = bunWriter[y]
      BY <1>0, <2>1 DEF BunTypes
    <2>3. /\ bunWriter'[b].pc = "staged" /\ bunWriter'[b].draft = w.draft /\ bunWriter'[b].made = w.made
          /\ bunWriter'[b].packs = [w.packs EXCEPT ![x] = @ + 1]
          /\ DOMAIN bunWriter'[b] = {"pc", "draft", "packs", "made"}
      BY <1>0, <2>2 DEF IsBundleWriter
    <2>4. IsBundleWriter(bunWriter'[b])
      BY <1>0, <2>3 DEF IsBundleWriter, BunLabels
    <2>5. bunSpent' \in [crash : Nat, rot : Nat, packs : Nat] /\ bunSpent'.crash = bunSpent.crash
      BY <1>0, <2>1 DEF BunTypes
    <2>6. BunElsewhere(b)
      BY <2>1, <2>2, <2>5 DEF BunElsewhere, HasStaging, HasChild
    <2>7. BunTypes'
      BY <1>0, <2>1, <2>2, <2>4, <2>5 DEF BunTypes
    <2>8. BunPlace(b)'
      BY <1>0, <2>1, <2>3, <2>5 DEF BunPlace, HasStaging, HasChild, Committed
    <2>9. BunPacks(b)'
      <3>1. \A y \in Sections \ SectionPlan(w.draft) : bunWriter'[b].packs[y] = 0
        BY <1>0, <2>3 DEF BunPacks, IsBundleWriter
      <3>2. ASSUME NEW y \in Sections, NEW n \in 0..(bunWriter'[b].packs[y] - 1)
            PROVE  <<"staging", b, y, n>> \in bunFiles'
        <4>1. CASE y # x
          <5>1. bunWriter'[b].packs[y] = w.packs[y]  BY <1>0, <2>3, <4>1 DEF IsBundleWriter
          <5> QED  BY <1>0, <2>1, <5>1 DEF BunPacks
        <4>2. CASE y = x
          <5>1. bunWriter'[b].packs[y] = w.packs[x] + 1 /\ w.packs[x] \in Nat
            BY <1>0, <2>3, <4>2 DEF IsBundleWriter
          <5>2. n = w.packs[x] \/ n \in 0..(w.packs[x] - 1)
            <6> HIDE DEF w
            <6> QED  BY <5>1
          <5> QED  BY <1>0, <2>1, <4>2, <5>2 DEF BunPacks
        <4> QED  BY <4>1, <4>2
      <3> QED  BY <2>3, <3>1, <3>2 DEF BunPacks
    <2>10. BunWhole(b)'
      BY <1>0, <2>1 DEF BunWhole, Committed, BunPlace
    <2>11. BunSharedThere'
      BY <1>0, <2>1 DEF BunSharedThere
    <2>12. RefersTo(b)' => RefersTo(b)
      BY <2>1, <2>3 DEF RefersTo, Committed
    <2> QED  BY <1>0, <2>1, <2>6, <2>7, <2>8, <2>9, <2>10, <2>11, <2>12, BunOwnStep DEF BunEach
  <1> QED  BY <1>1, <1>2

\* The roles of a bundle's new children: the accepted Snapshot is not one of
\* them when it exists, and the two reports always are.
LEMMA BunRoles ==
    ASSUME NEW w
    PROVE  /\ FinalRoles(w) \in Seq(Roles) /\ Len(FinalRoles(w)) \in Nat
           /\ \A i \in 1..Len(FinalRoles(w)) : FinalRoles(w)[i] = "accepted" => ~w.draft.shared
           /\ \E i \in 1..Len(FinalRoles(w)) : FinalRoles(w)[i] = "validation"
           /\ \E i \in 1..Len(FinalRoles(w)) : FinalRoles(w)[i] = "dedup"
  <1>1. FinalRoles(w) \in Seq(Roles) /\ Len(FinalRoles(w)) \in Nat
    <2>1. /\ <<>> \in Seq(Roles) /\ <<"accepted">> \in Seq(Roles) /\ <<"rejected">> \in Seq(Roles)
          /\ <<"validation", "dedup">> \in Seq(Roles)
      BY DEF Roles
    <2>2. FinalRoles(w) \in Seq(Roles)  BY <2>1 DEF FinalRoles
    <2> QED  BY <2>2
  <1>2. CASE w.draft.shared /\ HasRejected(w)
    <2>1. PICK s : s = <<>> \o <<"validation", "dedup">> \o <<"rejected">>  OBVIOUS
    <2>2. s[1] = "validation" /\ s[2] = "dedup" /\ s[3] = "rejected" /\ Len(s) = 3  BY <2>1
    <2>3. FinalRoles(w) = s  BY <1>2, <2>1 DEF FinalRoles
    <2>4. \A i \in 1..3 : s[i] # "accepted"
      <3>1. \A i \in 1..3 : i = 1 \/ i = 2 \/ i = 3  OBVIOUS
      <3> QED  BY <2>2, <3>1
    <2>5. 1 \in 1..Len(s) /\ 2 \in 1..Len(s)  BY <2>2
    <2> QED  BY <1>1, <2>2, <2>3, <2>4, <2>5, Zenon
  <1>3. CASE w.draft.shared /\ ~HasRejected(w)
    <2>1. PICK s : s = <<>> \o <<"validation", "dedup">> \o <<>>  OBVIOUS
    <2>2. s[1] = "validation" /\ s[2] = "dedup" /\ Len(s) = 2  BY <2>1
    <2>3. FinalRoles(w) = s  BY <1>3, <2>1 DEF FinalRoles
    <2>4. \A i \in 1..2 : s[i] # "accepted"
      <3>1. \A i \in 1..2 : i = 1 \/ i = 2  OBVIOUS
      <3> QED  BY <2>2, <3>1
    <2>5. 1 \in 1..Len(s) /\ 2 \in 1..Len(s)  BY <2>2
    <2> QED  BY <1>1, <2>2, <2>3, <2>4, <2>5, Zenon
  <1>4. CASE ~w.draft.shared /\ HasRejected(w)
    <2>1. PICK s : s = <<"accepted">> \o <<"validation", "dedup">> \o <<"rejected">>  OBVIOUS
    <2>2. s[2] = "validation" /\ s[3] = "dedup" /\ Len(s) = 4  BY <2>1
    <2>3. FinalRoles(w) = s  BY <1>4, <2>1 DEF FinalRoles
    <2> QED  BY <1>1, <1>4, <2>2, <2>3
  <1>5. CASE ~w.draft.shared /\ ~HasRejected(w)
    <2>1. PICK s : s = <<"accepted">> \o <<"validation", "dedup">> \o <<>>  OBVIOUS
    <2>2. s[2] = "validation" /\ s[3] = "dedup" /\ Len(s) = 3  BY <2>1
    <2>3. FinalRoles(w) = s  BY <1>5, <2>1 DEF FinalRoles
    <2> QED  BY <1>1, <1>5, <2>2, <2>3
  <1> QED  BY <1>2, <1>3, <1>4, <1>5

LEMMA BunCreateFinal ==
    ASSUME BunInv, NEW b \in Bundles, CreateFinalDir(b)
    PROVE  BunInv'
  <1> DEFINE w == bunWriter[b]
             k == Len(w.made) + 1
             role == FinalRoles(w)[k]
  <1>0. /\ BunTypes /\ BunPlace(b) /\ BunPacks(b) /\ BunWhole(b) /\ BunSharedThere
        /\ bunMaint = NoRecovery /\ w.pc = "makeDirs" /\ IsBundleWriter(w)
        /\ w.made \in Seq({b} \X Roles) /\ Len(w.made) < Len(FinalRoles(w)) /\ b \in bunJournal
    BY BunNoMaint DEF BunInv, BunEach, CreateFinalDir, BunTypes, BunPlace
  <1>1. /\ FinalRoles(w) \in Seq(Roles) /\ Len(FinalRoles(w)) \in Nat
        /\ \A i \in 1..Len(FinalRoles(w)) : FinalRoles(w)[i] = "accepted" => ~w.draft.shared
    BY BunRoles
  <1>2. k \in 1..Len(FinalRoles(w)) /\ Len(w.made) \in Nat
    <2>1. Len(w.made) \in Nat  BY <1>0
    <2> QED  BY <1>0, <1>1, <2>1
  <1>3. role \in Roles /\ (role = "accepted" => ~w.draft.shared)
    BY <1>1, <1>2
  <1>4. Identity(b, w.draft, role) = <<b, role>>
    BY <1>3, BunIdentity
  <1>5. CASE HasChild(b, role)
    <2>1. BunGoto(b, "abort") /\ UNCHANGED <<bunDb, bunDirs, bunFiles, bunMaint, bunServed, bunSpent>>
      BY <1>4, <1>5 DEF CreateFinalDir, HasChild
    <2> QED  BY <1>0, <2>1, BunMoves DEF BunLabels
  <1>6. CASE ~HasChild(b, role)
    <2>1. /\ bunDirs' = bunDirs \cup {<<"final", <<b, role>>>>}
          /\ bunWriter' = [bunWriter EXCEPT ![b].made = Append(@, <<b, role>>)]
          /\ UNCHANGED <<bunJournal, bunRow, bunFiles, bunMaint, bunServed, bunSpent>>
      BY <1>4, <1>6 DEF CreateFinalDir, HasChild, bunDb
    <2>2. /\ DOMAIN bunWriter' = Bundles /\ bunWriter'[b] = [w EXCEPT !.made = Append(@, <<b, role>>)]
          /\ \A y \in Bundles \ {b} : bunWriter'[y] = bunWriter[y]
      BY <1>0, <2>1 DEF BunTypes
    <2>3. /\ bunWriter'[b].pc = "makeDirs" /\ bunWriter'[b].draft = w.draft
          /\ bunWriter'[b].made = Append(w.made, <<b, role>>) /\ bunWriter'[b].packs = w.packs
          /\ DOMAIN bunWriter'[b] = {"pc", "draft", "packs", "made"}
      BY <1>0, <2>2 DEF IsBundleWriter
    <2>4. IsBundleWriter(bunWriter'[b]) /\ FinalRoles(bunWriter'[b]) = FinalRoles(w)
      BY <1>0, <2>3 DEF IsBundleWriter, FinalRoles, HasRejected
    <2> DEFINE made == bunWriter'[b].made
    <2>5. /\ made \in Seq({b} \X Roles) /\ Len(made) = k
          /\ \A i \in 1..Len(w.made) : made[i] = w.made[i]
          /\ made[k] = <<b, role>>
      <3>1. <<b, role>> \in {b} \X Roles  BY <1>3
      <3> QED  BY <1>0, <2>3, <3>1, AppendProperties
    <2>6. \A i \in 1..k : i = k \/ i \in 1..Len(w.made)
      BY <1>2
    <2>7. \A d : d # <<"final", <<b, role>>>> => (d \in bunDirs' <=> d \in bunDirs)
      BY <2>1
    <2> HIDE DEF role, made
    <2>8. /\ \A x \in Bundles \ {b} : \A r : <<"final", <<x, r>>>> # <<"final", <<b, role>>>>
          /\ \A x : <<"staging", x>> # <<"final", <<b, role>>>>
      OBVIOUS
    <2>9. BunElsewhere(b)
      BY <2>1, <2>2, <2>7, <2>8 DEF BunElsewhere, HasStaging, HasChild
    <2>10. BunTypes'
      BY <1>0, <1>3, <2>1, <2>2, <2>4 DEF BunTypes
    <2>11. BunPlace(b)'
      <3>1. ASSUME NEW r \in Roles, HasChild(b, r)' PROVE \E i \in 1..Len(made) : made[i] = <<b, r>>
        <4>1. CASE r = role
          <5>1. k \in 1..Len(made)  BY <1>2, <2>5
          <5> QED  BY <2>5, <4>1, <5>1
        <4>2. CASE r # role
          <5>1. HasChild(b, r)  BY <2>7, <3>1, <4>2 DEF HasChild
          <5>2. PICK i \in 1..Len(w.made) : w.made[i] = <<b, r>>  BY <1>0, <5>1 DEF BunPlace
          <5>3. i \in 1..Len(made)  BY <1>2, <2>5, <5>2
          <5> QED  BY <2>5, <5>2, <5>3
        <4> QED  BY <4>1, <4>2
      <3>2. w.draft.shared => ~HasChild(b, "accepted")'
        BY <1>0, <1>3, <2>7 DEF BunPlace, HasChild
      <3>3. /\ b \in bunJournal' /\ b \notin Committed' /\ bunWriter'[b].pc = "makeDirs"
        BY <1>0, <2>1, <2>3 DEF BunPlace, Committed
      <3>4. made \in Seq({b} \X Roles) /\ bunWriter'[b].made = made /\ bunWriter'[b].draft = w.draft
        BY <2>3, <2>5 DEF made
      <3> QED  BY <3>1, <3>2, <3>3, <3>4 DEF BunPlace
    <2>12. BunPacks(b)'
      <3>1. \A x \in Sections \ SectionPlan(w.draft) : w.packs[x] = 0
        BY <1>0 DEF BunPacks
      <3>2. Len(made) <= Len(FinalRoles(w))
        BY <1>2, <2>5
      <3>3. ASSUME NEW i \in 1..Len(made)
            PROVE  made[i] = <<b, FinalRoles(w)[i]>> /\ <<"final", <<b, FinalRoles(w)[i]>>>> \in bunDirs'
        <4>1. CASE i = k
          <5>1. role = FinalRoles(w)[i]  BY <4>1 DEF role
          <5> QED  BY <2>1, <2>5, <4>1, <5>1
        <4>2. CASE i # k
          <5>1. i \in 1..Len(w.made)  BY <2>5, <2>6, <4>2
          <5>2. made[i] = <<b, FinalRoles(w)[i]>> /\ HasChild(b, FinalRoles(w)[i])
            BY <1>0, <2>5, <5>1 DEF BunPacks
          <5> QED  BY <2>1, <5>2 DEF HasChild
        <4> QED  BY <4>1, <4>2
      <3>4. \A x \in Sections : \A n \in 0..(w.packs[x] - 1) :
                <<"staging", b, x, n>> \in bunFiles' \/ <<"final", <<b, RoleOf(x)>>, x, n>> \in bunFiles'
        BY <1>0, <2>1 DEF BunPacks
      <3>5. bunWriter'[b].made = made
        BY DEF made
      <3> QED  BY <2>3, <2>4, <3>1, <3>2, <3>3, <3>4, <3>5 DEF BunPacks, HasChild
    <2>13. BunWhole(b)'
      BY <1>0, <2>1 DEF BunWhole, Committed, BunPlace
    <2>14. BunSharedThere'
      BY <1>0, <2>1 DEF BunSharedThere
    <2>15. RefersTo(b)' => RefersTo(b)
      BY <2>1, <2>3 DEF RefersTo, Committed
    <2> QED  BY <1>0, <2>1, <2>9, <2>10, <2>11, <2>12, <2>13, <2>14, <2>15, BunOwnStep DEF BunEach
  <1> QED  BY <1>5, <1>6

\* A pack that exists has a section in the plan, so its child is new.
LEMMA BunPackChild ==
    ASSUME NEW b \in Bundles, BunPacks(b), NEW x \in Sections, NEW n \in 0..(bunWriter[b].packs[x] - 1)
    PROVE  Identity(b, bunWriter[b].draft, RoleOf(x)) = <<b, RoleOf(x)>>
  <1>1. bunWriter[b].packs[x] # 0
    OBVIOUS
  <1>2. x \in SectionPlan(bunWriter[b].draft)
    BY <1>1 DEF BunPacks
  <1>3. RoleOf(x) = "accepted" => x = "accepted"
    BY DEF RoleOf, Sections
  <1> QED  BY <1>2, <1>3 DEF SectionPlan, Identity

LEMMA BunInstall ==
    ASSUME BunInv, NEW b \in Bundles, InstallFile(b)
    PROVE  BunInv'
  <1> DEFINE w == bunWriter[b]
  <1>0. /\ BunTypes /\ BunPlace(b) /\ BunPacks(b) /\ BunWhole(b) /\ BunSharedThere
        /\ bunMaint = NoRecovery /\ w.pc = "makeDirs"
    BY BunNoMaint DEF BunInv, BunEach, InstallFile
  <1>1. PICK file \in Staged(b) :
            bunFiles' = (bunFiles \ {file}) \cup {<<"final", Identity(b, w.draft, RoleOf(file[3])), file[3], file[4]>>}
    BY DEF InstallFile
  <1>2. /\ UNCHANGED <<bunJournal, bunRow, bunDirs, bunWriter, bunMaint, bunServed, bunSpent>>
    BY DEF InstallFile, bunDb
  <1>3. file[1] = "staging" /\ file[2] = b /\ \A f \in bunFiles : f # file => f \in bunFiles'
    BY <1>1 DEF Staged
  <1>4. /\ \A id, s, n : <<"final", id, s, n>> # file
        /\ \A x \in Bundles \ {b} : \A s, n : <<"staging", x, s, n>> # file
    BY <1>3
  <1>5. BunElsewhere(b)
    BY <1>2, <1>3, <1>4 DEF BunElsewhere, HasStaging, HasChild
  <1>6. BunTypes'
    BY <1>0, <1>2 DEF BunTypes
  <1>7. BunPlace(b)'
    BY <1>0, <1>2 DEF BunPlace, HasStaging, HasChild, Committed, Busy
  <1>8. BunPacks(b)'
    <2>1. ASSUME NEW x \in Sections, NEW n \in 0..(w.packs[x] - 1)
          PROVE  <<"staging", b, x, n>> \in bunFiles' \/ <<"final", <<b, RoleOf(x)>>, x, n>> \in bunFiles'
      <3>1. CASE <<"staging", b, x, n>> = file
        <4>1. file[3] = x /\ file[4] = n  BY <3>1
        <4>2. Identity(b, w.draft, RoleOf(x)) = <<b, RoleOf(x)>>  BY <1>0, <2>1, BunPackChild
        <4> QED  BY <1>1, <4>1, <4>2
      <3>2. CASE <<"staging", b, x, n>> # file
        BY <1>0, <1>3, <1>4, <2>1, <3>2 DEF BunPacks
      <3> QED  BY <3>1, <3>2
    <2>2. /\ \A x \in Sections \ SectionPlan(w.draft) : w.packs[x] = 0
          /\ Len(w.made) <= Len(FinalRoles(w))
          /\ \A i \in 1..Len(w.made) : w.made[i] = <<b, FinalRoles(w)[i]>> /\ HasChild(b, FinalRoles(w)[i])'
      BY <1>0, <1>2 DEF BunPacks, HasChild
    <2> QED  BY <1>0, <1>2, <2>1, <2>2 DEF BunPacks
  <1>9. BunWhole(b)'
    BY <1>0, <1>2 DEF BunWhole, Committed, BunPlace
  <1>10. BunSharedThere'
    BY <1>0, <1>2, <1>3, <1>4 DEF BunSharedThere
  <1>11. RefersTo(b)' => RefersTo(b)
    BY <1>2 DEF RefersTo, Committed
  <1> QED  BY <1>0, <1>2, <1>5, <1>6, <1>7, <1>8, <1>9, <1>10, <1>11, BunOwnStep DEF BunEach

\* The transaction of commit_inner, when nothing is left in staging.
LEMMA BunCommit ==
    ASSUME BunInv, NEW b \in Bundles, CommitBundle(b)
    PROVE  BunInv'
  <1> DEFINE w == bunWriter[b]
             m == [shared |-> w.draft.shared, rejects |-> HasRejected(w), packs |-> w.packs, digest |-> <<>>]
             row == [m EXCEPT !.digest = BundleDigest(b, m)]
  <1>0. /\ BunTypes /\ BunPlace(b) /\ BunPacks(b) /\ BunWhole(b) /\ BunSharedThere
        /\ bunMaint = NoRecovery /\ w.pc = "makeDirs" /\ IsBundleWriter(w)
        /\ Len(w.made) = Len(FinalRoles(w)) /\ Staged(b) = {}
    BY BunNoMaint DEF BunInv, BunEach, BunTypes, CommitBundle, CommitRow
  <1>1. CASE BunGoto(b, "abort") /\ UNCHANGED bunDb
    <2>1. BunGoto(b, "abort") /\ UNCHANGED <<bunDb, bunDirs, bunFiles, bunMaint, bunServed, bunSpent>>
      BY <1>1 DEF CommitBundle, CommitRow, bunFs
    <2> QED  BY <1>0, <2>1, BunMoves DEF BunLabels
  <1>2. CASE /\ b \in bunJournal /\ bunJournal' = bunJournal \ {b}
             /\ bunRow' = [bunRow EXCEPT ![b] = row] /\ BunGoto(b, "cleanup")
    <2>1. UNCHANGED <<bunDirs, bunFiles, bunMaint, bunServed, bunSpent>>
      BY DEF CommitBundle, CommitRow, bunFs
    <2>2. "cleanup" \in BunLabels
      BY DEF BunLabels
    <2>3. /\ DOMAIN bunWriter' = Bundles /\ \A x \in Bundles : IsBundleWriter(bunWriter'[x])
          /\ bunWriter'[b].pc = "cleanup" /\ bunWriter'[b].draft = w.draft
          /\ bunWriter'[b].packs = w.packs /\ bunWriter'[b].made = w.made
          /\ \A x \in Bundles \ {b} : bunWriter'[x] = bunWriter[x]
      BY <1>0, <1>2, <2>2, BunMove
    <2>4. /\ bunRow'[b] = row /\ DOMAIN bunRow' = Bundles /\ \A x \in Bundles \ {b} : bunRow'[x] = bunRow[x]
      BY <1>0, <1>2 DEF BunTypes
    <2>5. /\ row.shared = w.draft.shared /\ row.rejects = HasRejected(w) /\ row.packs = w.packs
          /\ row.digest = BundleDigest(b, m)
          /\ m.shared = w.draft.shared /\ m.rejects = HasRejected(w) /\ m.packs = w.packs
      OBVIOUS
    <2> HIDE DEF row, m
    <2>6. BundleDigest(b, row) = BundleDigest(b, m)
      <3>1. \A role : Identity(b, row, role) = Identity(b, m, role)
        BY <2>5 DEF Identity
      <3> QED  BY <2>5, <3>1 DEF BundleDigest
    <2>7. b \in Committed'
      <3>1. row.digest # <<>>
        BY <2>5 DEF BundleDigest
      <3>2. row # NoMember
        BY <3>1 DEF NoMember
      <3> QED  BY <2>4, <3>2 DEF Committed
    <2>8. BunElsewhere(b)
      BY <1>2, <2>1, <2>3, <2>4 DEF BunElsewhere, HasStaging, HasChild
    <2>9. BunTypes'
      BY <1>0, <1>2, <2>1, <2>3, <2>4 DEF BunTypes
    <2>10. BunPlace(b)'
      BY <1>0, <1>2, <2>1, <2>3, <2>7 DEF BunPlace, HasStaging, HasChild, Busy
    <2>11. BunPacks(b)'
      BY <1>0, <2>3 DEF BunPacks
    <2>12. BunWhole(b)'
      <3>1. ASSUME NEW x \in Sections, NEW n \in 0..(w.packs[x] - 1)
            PROVE  <<"final", <<b, RoleOf(x)>>, x, n>> \in bunFiles'
        <4>1. <<"staging", b, x, n>> \notin bunFiles
          BY <1>0 DEF Staged
        <4> QED  BY <1>0, <2>1, <4>1 DEF BunPacks
      <3>2. \A role \in {"validation", "dedup"} : HasChild(b, role)'
        <4>1. \A i \in 1..Len(FinalRoles(w)) : HasChild(b, FinalRoles(w)[i])
          BY <1>0 DEF BunPacks
        <4>2. /\ \E i \in 1..Len(FinalRoles(w)) : FinalRoles(w)[i] = "validation"
              /\ \E i \in 1..Len(FinalRoles(w)) : FinalRoles(w)[i] = "dedup"
          BY BunRoles
        <4>3. HasChild(b, "validation") /\ HasChild(b, "dedup")
          BY <4>1, <4>2
        <4> QED  BY <2>1, <4>3 DEF HasChild
      <3>3. ASSUME NEW role \in Roles PROVE FilesOfChild(b, role)' \subseteq bunFiles'
        <4>1. CASE Identity(b, row, role) = SharedSnapshot
          <5>1. FilesOfChild(b, role)' = {<<"final", SharedSnapshot, "accepted", 0>>}
            BY <2>4, <4>1 DEF FilesOfChild
          <5> QED  BY <1>0, <2>1, <5>1 DEF BunSharedThere
        <4>2. CASE Identity(b, row, role) # SharedSnapshot
          <5>1. Identity(b, row, role) = <<b, role>>
            BY <4>2 DEF Identity
          <5>2. FilesOfChild(b, role)' = UNION {{<<"final", <<b, role>>, x, n>> : n \in 0..(w.packs[x] - 1)} :
                                                  x \in {y \in Sections : RoleOf(y) = role}}
            BY <2>4, <2>5, <4>2, <5>1 DEF FilesOfChild
          <5> QED  BY <3>1, <5>2
        <4> QED  BY <4>1, <4>2
      <3>4. row.rejects \/ FilesOfChild(b, "rejected")' = {}
        <4> SUFFICES ASSUME ~HasRejected(w) PROVE FilesOfChild(b, "rejected")' = {}
          BY <2>5
        <4>1. w.packs["rejected"] = 0
          <5>1. "rejected" \in Sections  BY DEF Sections
          <5>2. CASE w.draft.rejects
            <6>1. w.packs["rejected"] \in Nat  BY <1>0, <5>1 DEF IsBundleWriter
            <6> QED  BY <5>2, <6>1 DEF HasRejected
          <5>3. CASE ~w.draft.rejects
            <6>1. "rejected" \notin SectionPlan(w.draft)  BY <5>3 DEF SectionPlan
            <6> QED  BY <1>0, <5>1, <6>1 DEF BunPacks
          <5> QED  BY <5>2, <5>3
        <4>2. Identity(b, row, "rejected") = <<b, "rejected">> /\ SharedSnapshot # <<b, "rejected">>
          BY BundleAssumption DEF Identity, Roles
        <4>3. FilesOfChild(b, "rejected")' = UNION {{<<"final", <<b, "rejected">>, x, n>> : n \in 0..(w.packs[x] - 1)} :
                                                      x \in {y \in Sections : RoleOf(y) = "rejected"}}
          BY <2>4, <2>5, <4>2 DEF FilesOfChild
        <4>4. \A x \in Sections : RoleOf(x) = "rejected" => x = "rejected"
          BY DEF RoleOf, Sections
        <4>5. 0..(0 - 1) = {}
          OBVIOUS
        <4> QED  BY <4>1, <4>3, <4>4, <4>5
      <3> QED  BY <2>4, <2>5, <2>6, <3>2, <3>3, <3>4 DEF BunWhole
    <2>13. BunSharedThere'
      BY <1>0, <2>1 DEF BunSharedThere
    <2>14. RefersTo(b)' => RefersTo(b)
      BY <1>2, <2>3, <2>4, <2>5 DEF RefersTo
    <2> QED  BY <1>0, <2>1, <2>8, <2>9, <2>10, <2>11, <2>12, <2>13, <2>14, BunOwnStep DEF BunEach
  <1> QED  BY <1>1, <1>2 DEF CommitBundle, CommitRow

\* What removing a directory of a bundle leaves alone.
LEMMA BunRemoveOwn ==
    ASSUME BunSharedThere, NEW b \in Bundles, NEW role \in Roles,
           RemoveTree("staging", b) \/ RemoveTree("final", <<b, role>>)
    PROVE  /\ BunSharedThere' /\ bunDirs' \subseteq bunDirs
           /\ \A x \in Bundles \ {b} :
                /\ HasStaging(x)' <=> HasStaging(x)
                /\ \A r \in Roles : HasChild(x, r)' <=> HasChild(x, r)
                /\ \A s, n : <<"staging", x, s, n>> \in bunFiles => <<"staging", x, s, n>> \in bunFiles'
                /\ \A r \in Roles : \A s, n :
                        <<"final", <<x, r>>, s, n>> \in bunFiles => <<"final", <<x, r>>, s, n>> \in bunFiles'
  <1>1. SharedSnapshot # <<b, role>>
    BY BundleAssumption
  <1>2. CASE RemoveTree("staging", b)
    <2>1. /\ bunDirs' \in {bunDirs, bunDirs \ {<<"staging", b>>}}
          /\ \A f \in bunFiles : ~(f[1] = "staging" /\ f[2] = b) => f \in bunFiles'
      BY <1>2, BunRemoves
    <2>2. \A d : d # <<"staging", b>> => (d \in bunDirs' <=> d \in bunDirs)
      BY <2>1
    <2> QED  BY <2>1, <2>2 DEF BunSharedThere, HasStaging, HasChild
  <1>3. CASE RemoveTree("final", <<b, role>>)
    <2>1. /\ bunDirs' \in {bunDirs, bunDirs \ {<<"final", <<b, role>>>>}}
          /\ \A f \in bunFiles : ~(f[1] = "final" /\ f[2] = <<b, role>>) => f \in bunFiles'
      BY <1>3, BunRemoves
    <2>2. \A d : d # <<"final", <<b, role>>>> => (d \in bunDirs' <=> d \in bunDirs)
      BY <2>1
    <2>3. \A x \in Bundles \ {b} : \A r : <<x, r>> # <<b, role>>
      OBVIOUS
    <2> QED  BY <1>1, <2>1, <2>2, <2>3 DEF BunSharedThere, HasStaging, HasChild
  <1> QED  BY <1>2, <1>3

LEMMA BunRemoveStaging ==
    ASSUME NEW b \in Bundles, RemoveTree("staging", b)
    PROVE  /\ \A x \in Bundles, r \in Roles : HasChild(x, r)' <=> HasChild(x, r)
           /\ \A id, s, n : <<"final", id, s, n>> \in bunFiles => <<"final", id, s, n>> \in bunFiles'
  <1>1. /\ bunDirs' \in {bunDirs, bunDirs \ {<<"staging", b>>}}
        /\ \A f \in bunFiles : ~(f[1] = "staging" /\ f[2] = b) => f \in bunFiles'
    BY BunRemoves
  <1> QED  BY <1>1 DEF HasChild

\* abort.
LEMMA BunAbort ==
    ASSUME BunInv, NEW b \in Bundles, AbortBundle(b)
    PROVE  BunInv'
  <1> DEFINE w == bunWriter[b]
  <1>0. /\ BunTypes /\ BunPlace(b) /\ BunPacks(b) /\ BunSharedThere /\ bunMaint = NoRecovery
        /\ w.pc = "abort" /\ IsBundleWriter(w) /\ b \in bunJournal /\ b \notin Committed
        /\ w.made \in Seq({b} \X Roles)
    BY BunNoMaint DEF BunInv, BunEach, BunTypes, BunPlace, AbortBundle, AbortSteps
  <1>1. CASE /\ w.made = <<>> /\ <<"staging", b>> \notin bunDirs /\ BunGoto(b, "unjournal") /\ UNCHANGED bunFs
    <2>1. BunGoto(b, "unjournal") /\ UNCHANGED <<bunDb, bunDirs, bunFiles, bunMaint, bunServed, bunSpent>>
      BY <1>1 DEF AbortBundle, AbortSteps, bunFs
    <2> QED  BY <1>0, <1>1, <2>1, BunMoves DEF BunLabels, HasStaging
  <1>2. CASE w.made = <<>> /\ RemoveTree("staging", b) /\ UNCHANGED bunWriter
    <2>1. UNCHANGED <<bunJournal, bunRow, bunMaint, bunServed, bunSpent, bunWriter>>
      BY <1>2 DEF AbortBundle, AbortSteps, bunDb
    <2>2. /\ BunSharedThere' /\ bunDirs' \subseteq bunDirs /\ BunElsewhere(b)
      <3>1. "dedup" \in Roles  BY DEF Roles
      <3> QED  BY <1>0, <1>2, <2>1, <3>1, BunRemoveOwn DEF BunElsewhere
    <2>3. BunTypes'
      BY <1>0, <2>1, <2>2 DEF BunTypes
    <2>4. BunPlace(b)'
      BY <1>0, <1>2, <2>1, <2>2 DEF BunPlace, HasStaging, HasChild, Busy, Committed
    <2>5. BunPacks(b)' /\ BunWhole(b)'
      BY <1>0, <2>1 DEF BunPacks, BunWhole, Committed
    <2>6. RefersTo(b)' => RefersTo(b)
      BY <2>1 DEF RefersTo, Committed
    <2> QED  BY <1>0, <2>1, <2>2, <2>3, <2>4, <2>5, <2>6, BunOwnStep DEF BunEach
  <1>3. CASE /\ w.made # <<>> /\ RemoveTree("final", Head(w.made))
             /\ bunWriter' = IF <<"final", Head(w.made)>> \notin bunDirs'
                             THEN [bunWriter EXCEPT ![b].made = Tail(@)] ELSE bunWriter
    <2>1. UNCHANGED <<bunJournal, bunRow, bunMaint, bunServed, bunSpent>>
      BY <1>3 DEF AbortBundle, AbortSteps, bunDb
    <2>2. /\ Head(w.made) \in {b} \X Roles /\ Tail(w.made) \in Seq({b} \X Roles)
          /\ Len(Tail(w.made)) = Len(w.made) - 1 /\ Len(w.made) \in Nat
          /\ \A i \in 1..Len(Tail(w.made)) : Tail(w.made)[i] = w.made[i + 1]
          /\ Head(w.made) = w.made[1]
      BY <1>0, <1>3, HeadTailProperties
    <2>3. PICK role \in Roles : Head(w.made) = <<b, role>>
      BY <2>2
    <2>4. /\ BunSharedThere' /\ bunDirs' \subseteq bunDirs
          /\ \A x \in Bundles \ {b} :
                /\ HasStaging(x)' <=> HasStaging(x)
                /\ \A r \in Roles : HasChild(x, r)' <=> HasChild(x, r)
                /\ \A s, n : <<"staging", x, s, n>> \in bunFiles => <<"staging", x, s, n>> \in bunFiles'
                /\ \A r \in Roles : \A s, n :
                        <<"final", <<x, r>>, s, n>> \in bunFiles => <<"final", <<x, r>>, s, n>> \in bunFiles'
      BY <1>0, <1>3, <2>3, BunRemoveOwn
    <2> DEFINE made == bunWriter'[b].made
    <2>5. /\ DOMAIN bunWriter' = Bundles /\ bunWriter'[b].pc = "abort" /\ bunWriter'[b].draft = w.draft
          /\ bunWriter'[b].packs = w.packs /\ IsBundleWriter(bunWriter'[b])
          /\ made = IF <<"final", Head(w.made)>> \notin bunDirs' THEN Tail(w.made) ELSE w.made
          /\ \A x \in Bundles \ {b} : bunWriter'[x] = bunWriter[x]
      <3>1. CASE <<"final", Head(w.made)>> \in bunDirs'
        BY <1>0, <1>3, <3>1 DEF BunTypes
      <3>2. CASE <<"final", Head(w.made)>> \notin bunDirs'
        <4>1. /\ DOMAIN bunWriter' = Bundles /\ bunWriter'[b] = [w EXCEPT !.made = Tail(@)]
              /\ \A x \in Bundles \ {b} : bunWriter'[x] = bunWriter[x]
          BY <1>0, <1>3, <3>2 DEF BunTypes
        <4> QED  BY <1>0, <3>2, <4>1 DEF IsBundleWriter
      <3> QED  BY <3>1, <3>2
    <2>6. BunElsewhere(b)
      BY <2>1, <2>4, <2>5 DEF BunElsewhere
    <2>7. BunTypes'
      BY <1>0, <2>1, <2>4, <2>5 DEF BunTypes
    <2>8. BunPlace(b)'
      <3>1. ASSUME NEW r \in Roles, HasChild(b, r)' PROVE \E i \in 1..Len(made) : made[i] = <<b, r>>
        <4>1. PICK i \in 1..Len(w.made) : w.made[i] = <<b, r>>
          BY <1>0, <2>4, <3>1 DEF BunPlace, HasChild
        <4>2. CASE <<"final", Head(w.made)>> \in bunDirs'
          BY <2>5, <4>1, <4>2
        <4>3. CASE <<"final", Head(w.made)>> \notin bunDirs'
          <5>1. i # 1
            BY <2>2, <3>1, <4>1, <4>3 DEF HasChild
          <5>2. i - 1 \in 1..Len(Tail(w.made)) /\ (i - 1) + 1 = i
            BY <2>2, <4>1, <5>1
          <5>3. Tail(w.made)[i - 1] = <<b, r>>
            BY <2>2, <4>1, <5>2
          <5> QED  BY <2>5, <4>3, <5>2, <5>3
        <4> QED  BY <4>2, <4>3
      <3>2. made \in Seq({b} \X Roles)
        BY <1>0, <2>2, <2>5
      <3>3. w.draft.shared => ~HasChild(b, "accepted")'
        BY <1>0, <2>4 DEF BunPlace, HasChild
      <3> HIDE DEF made
      <3>4. bunWriter'[b].made = made
        BY DEF made
      <3>5. /\ b \in bunJournal' /\ b \notin Committed' /\ bunWriter'[b].pc = "abort" /\ bunWriter'[b].draft = w.draft
        BY <1>0, <2>1, <2>5 DEF Committed
      <3> QED  BY <3>1, <3>2, <3>3, <3>4, <3>5 DEF BunPlace
    <2>9. BunPacks(b)' /\ BunWhole(b)'
      BY <1>0, <2>1, <2>5 DEF BunPacks, BunWhole, Committed
    <2>10. RefersTo(b)' => RefersTo(b)
      BY <2>1, <2>5 DEF RefersTo, Committed
    <2> QED  BY <1>0, <2>1, <2>4, <2>6, <2>7, <2>8, <2>9, <2>10, BunOwnStep DEF BunEach
  <1> QED  BY <1>1, <1>2, <1>3 DEF AbortBundle, AbortSteps

LEMMA BunNoWriter ==
    /\ NoBundleWriter.pc = "none" /\ NoBundleWriter.draft = NoDraft /\ NoBundleWriter.made = <<>>
    /\ NoBundleWriter.packs = [x \in Sections |-> 0] /\ NoDraft.shared = FALSE
    /\ IsBundleWriter(NoBundleWriter)
  <1>1. /\ NoBundleWriter.pc = "none" /\ NoBundleWriter.draft = NoDraft /\ NoBundleWriter.made = <<>>
        /\ NoBundleWriter.packs = [x \in Sections |-> 0]
        /\ DOMAIN NoBundleWriter = {"pc", "draft", "packs", "made"}
    BY DEF NoBundleWriter
  <1>2. NoDraft \in [shared : BOOLEAN, rejects : BOOLEAN] /\ NoDraft.shared = FALSE
    BY DEF NoDraft
  <1> QED  BY <1>1, <1>2 DEF IsBundleWriter, BunLabels

\* A bundle whose writer has gone: its directories are accounted for.
LEMMA BunGone ==
    ASSUME NEW b \in Bundles, bunWriter'[b] = NoBundleWriter,
           b \in bunJournal' => b \notin Committed',
           \A role \in Roles : HasChild(b, role)' => b \in bunJournal' \cup Committed',
           HasStaging(b)' => b \in bunJournal' \/ bunSpent'.crash > 0
    PROVE  BunPlace(b)' /\ BunPacks(b)' /\ (RefersTo(b)' => b \in Committed' /\ bunRow'[b].shared)
  <1>1. /\ bunWriter'[b].pc = "none" /\ bunWriter'[b].made = <<>> /\ bunWriter'[b].draft.shared = FALSE
        /\ \A x \in Sections : bunWriter'[b].packs[x] = 0
    BY BunNoWriter
  <1>2. <<>> \in Seq({b} \X Roles)
    OBVIOUS
  <1>3. BunPlace(b)'
    BY <1>1, <1>2 DEF BunPlace
  <1>4. BunPacks(b)'
    BY <1>1 DEF BunPacks
  <1>5. RefersTo(b)' => b \in Committed' /\ bunRow'[b].shared
    BY <1>1 DEF RefersTo
  <1> QED  BY <1>3, <1>4, <1>5

LEMMA BunUnjournal ==
    ASSUME BunInv, NEW b \in Bundles, Unjournal(b)
    PROVE  BunInv'
  <1>0. /\ BunTypes /\ BunPlace(b) /\ BunWhole(b) /\ BunSharedThere /\ bunMaint = NoRecovery
        /\ bunWriter[b].pc = "unjournal"
    BY BunNoMaint DEF BunInv, BunEach, Unjournal
  <1>1. /\ bunJournal' = bunJournal \ {b} /\ bunWriter' = [bunWriter EXCEPT ![b] = NoBundleWriter]
        /\ UNCHANGED <<bunRow, bunDirs, bunFiles, bunMaint, bunServed, bunSpent>>
    BY DEF Unjournal, bunFs
  <1>2. /\ DOMAIN bunWriter' = Bundles /\ bunWriter'[b] = NoBundleWriter
        /\ \A x \in Bundles \ {b} : bunWriter'[x] = bunWriter[x]
    BY <1>0, <1>1 DEF BunTypes
  <1>3. BunElsewhere(b)
    BY <1>1, <1>2 DEF BunElsewhere, HasStaging, HasChild
  <1>4. BunTypes'
    BY <1>0, <1>1, <1>2, BunNoWriter DEF BunTypes
  <1>5. \A role \in Roles : ~HasChild(b, role)
    <2>1. Len(bunWriter[b].made) = 0
      BY <1>0 DEF BunPlace
    <2> QED  BY <1>0, <2>1 DEF BunPlace
  <1>6. BunPlace(b)' /\ BunPacks(b)' /\ (RefersTo(b)' => b \in Committed' /\ bunRow'[b].shared)
    <2>1. b \notin bunJournal' /\ (HasStaging(b)' => bunSpent'.crash > 0) /\ \A role \in Roles : ~HasChild(b, role)'
      BY <1>0, <1>1, <1>5 DEF BunPlace, HasStaging, HasChild
    <2> QED  BY <1>2, <2>1, BunGone
  <1>7. BunWhole(b)'
    BY <1>0, <1>1 DEF BunWhole, Committed, FilesOfChild, HasChild
  <1>8. BunSharedThere'
    BY <1>0, <1>1 DEF BunSharedThere
  <1>9. RefersTo(b)' => RefersTo(b)
    BY <1>1, <1>6 DEF RefersTo, Committed
  <1> QED  BY <1>0, <1>1, <1>3, <1>4, <1>6, <1>7, <1>8, <1>9, BunOwnStep DEF BunEach

LEMMA BunClean ==
    ASSUME BunInv, NEW b \in Bundles, CleanBundleStaging(b)
    PROVE  BunInv'
  <1>0. /\ BunTypes /\ BunPlace(b) /\ BunPacks(b) /\ BunWhole(b) /\ BunSharedThere /\ bunMaint = NoRecovery
        /\ bunWriter[b].pc = "cleanup"
    BY BunNoMaint DEF BunInv, BunEach, CleanBundleStaging
  <1>1. /\ RemoveTree("staging", b) /\ UNCHANGED <<bunJournal, bunRow, bunMaint, bunServed, bunSpent>>
        /\ bunWriter' = IF <<"staging", b>> \notin bunDirs'
                        THEN [bunWriter EXCEPT ![b] = NoBundleWriter] ELSE bunWriter
    BY DEF CleanBundleStaging, bunDb
  <1>2. /\ DOMAIN bunWriter' = Bundles
        /\ bunWriter'[b] = IF HasStaging(b)' THEN bunWriter[b] ELSE NoBundleWriter
        /\ \A x \in Bundles \ {b} : bunWriter'[x] = bunWriter[x]
    BY <1>0, <1>1 DEF BunTypes, HasStaging
  <1>3. BunSharedThere' /\ bunDirs' \subseteq bunDirs /\ BunElsewhere(b)
    <2>1. "dedup" \in Roles  BY DEF Roles
    <2> QED  BY <1>0, <1>1, <1>2, <2>1, BunRemoveOwn DEF BunElsewhere
  <1>4. /\ \A r \in Roles : HasChild(b, r)' <=> HasChild(b, r)
        /\ \A id, s, n : <<"final", id, s, n>> \in bunFiles => <<"final", id, s, n>> \in bunFiles'
    BY <1>1, BunRemoveStaging
  <1>5. BunTypes'
    BY <1>0, <1>1, <1>2, <1>3, BunNoWriter DEF BunTypes
  <1>6. BunPlace(b)' /\ BunPacks(b)' /\ (RefersTo(b)' => RefersTo(b))
    <2>1. b \in Committed' <=> b \in Committed
      BY <1>1 DEF Committed
    <2>2. CASE HasStaging(b)'
      <3>1. bunWriter'[b] = bunWriter[b]
        BY <1>2, <2>2
      <3>2. "accepted" \in Roles
        BY DEF Roles
      <3> QED  BY <1>0, <1>1, <1>4, <2>1, <3>1, <3>2 DEF BunPlace, BunPacks, RefersTo, Busy
    <2>3. CASE ~HasStaging(b)'
      <3>1. BunPlace(b)' /\ BunPacks(b)' /\ (RefersTo(b)' => b \in Committed' /\ bunRow'[b].shared)
        BY <1>0, <1>1, <1>2, <1>4, <2>1, <2>3, BunGone DEF BunPlace
      <3> QED  BY <1>1, <2>1, <3>1 DEF RefersTo
    <2> QED  BY <2>2, <2>3
  <1>7. BunWhole(b)'
    <2>1. \A role : FilesOfChild(b, role)' = FilesOfChild(b, role)
      BY <1>1 DEF FilesOfChild
    <2>2. \A role \in Roles : FilesOfChild(b, role) \subseteq bunFiles => FilesOfChild(b, role) \subseteq bunFiles'
      BY <1>4, BunFiles
    <2>3. {"validation", "dedup"} \subseteq Roles /\ (b \in Committed' <=> b \in Committed)
      BY <1>1 DEF Roles, Committed
    <2> QED  BY <1>0, <1>1, <1>4, <2>1, <2>2, <2>3 DEF BunWhole
  <1> QED  BY <1>0, <1>1, <1>3, <1>5, <1>6, <1>7, BunOwnStep DEF BunEach

\* Steps that change no row, file or writer.
LEMMA BunQuiet ==
    ASSUME BunInv, UNCHANGED <<bunJournal, bunRow, bunDirs, bunFiles, bunWriter>>,
           bunSpent' \in [crash : Nat, rot : Nat, packs : Nat], bunSpent'.crash = bunSpent.crash,
           TRUE \notin bunServed', BunRecovering'
    PROVE  BunInv'
  <1>1. BunTypes'
    BY DEF BunInv, BunTypes
  <1>2. BunSharedThere'
    BY DEF BunInv, BunSharedThere
  <1>3. ASSUME NEW x \in Bundles PROVE BunEach(x)'
    <2>1. BunEach(x)
      BY DEF BunInv
    <2> QED  BY <1>2, <2>1, BunFrame DEF HasStaging, HasChild
  <1>4. BunSharing'
    BY DEF BunInv, BunSharing, RefersTo, Committed
  <1> QED  BY <1>1, <1>2, <1>3, <1>4 DEF BunInv

LEMMA BunRead ==
    ASSUME BunInv, NEW b \in Bundles, NEW role \in Roles, ReadPack(b, role)
    PROVE  BunInv'
  <1>1. /\ bunMaint = NoRecovery
        /\ UNCHANGED <<bunJournal, bunRow, bunDirs, bunFiles, bunWriter, bunMaint, bunSpent>>
    BY DEF ReadPack, bunDb, bunFs
  <1>2. PICK file : PackIntact(file) /\ bunServed' = bunServed \cup {file \in bunRotten}
    BY DEF ReadPack
  <1>3. TRUE \notin bunServed'
    <2>1. (file \in bunRotten) = FALSE  BY <1>2 DEF PackIntact
    <2>2. TRUE \notin bunServed  BY DEF BunInv, BunTypes
    <2> QED  BY <1>2, <2>1, <2>2
  <1>4. BunRecovering'
    BY <1>1 DEF BunRecovering
  <1> QED  BY <1>1, <1>3, <1>4, BunQuiet DEF BunInv, BunTypes

LEMMA BunCrash ==
    ASSUME BunInv, CrashBundles
    PROVE  BunInv'
  <1>0. BunTypes
    BY DEF BunInv
  <1>1. /\ bunWriter' = [b \in Bundles |-> IF b \in bunJournal
                                           THEN [NoBundleWriter EXCEPT !.draft = bunWriter[b].draft]
                                           ELSE NoBundleWriter]
        /\ bunMaint' = NoRecovery /\ bunSpent' = [bunSpent EXCEPT !.crash = @ + 1]
        /\ UNCHANGED <<bunJournal, bunRow, bunDirs, bunFiles, bunServed>>
    BY DEF CrashBundles, bunDb, bunFs
  <1>2. bunSpent' \in [crash : Nat, rot : Nat, packs : Nat] /\ bunSpent'.crash > 0
    BY <1>0, <1>1 DEF BunTypes
  <1>3. ASSUME NEW b \in Bundles
        PROVE  /\ bunWriter'[b].pc = "none" /\ bunWriter'[b].made = <<>> /\ IsBundleWriter(bunWriter'[b])
               /\ \A x \in Sections : bunWriter'[b].packs[x] = 0
               /\ b \in bunJournal => bunWriter'[b].draft = bunWriter[b].draft
    <2>1. CASE b \in bunJournal
      <3>1. bunWriter'[b] = [NoBundleWriter EXCEPT !.draft = bunWriter[b].draft] /\ IsBundleWriter(bunWriter[b])
        BY <1>0, <1>1, <2>1 DEF BunTypes
      <3> QED  BY <3>1, BunNoWriter DEF IsBundleWriter
    <2>2. CASE b \notin bunJournal
      <3>1. bunWriter'[b] = NoBundleWriter
        BY <1>1, <2>2
      <3> QED  BY <2>2, <3>1, BunNoWriter
    <2> QED  BY <2>1, <2>2
  <1>4. BunTypes'
    BY <1>0, <1>1, <1>2, <1>3 DEF BunTypes
  <1>5. ASSUME NEW b \in Bundles PROVE BunEach(b)'
    <2>1. BunPlace(b) /\ BunWhole(b) /\ <<>> \in Seq({b} \X Roles)
      BY DEF BunInv, BunEach
    <2>2. BunPlace(b)'
      BY <1>1, <1>2, <1>3, <2>1 DEF BunPlace, HasStaging, HasChild, Committed
    <2>3. BunPacks(b)'
      BY <1>3 DEF BunPacks
    <2>4. BunWhole(b)'
      BY <1>1, <2>1 DEF BunWhole, Committed, FilesOfChild, HasChild
    <2> QED  BY <2>2, <2>3, <2>4 DEF BunEach
  <1>6. BunSharedThere'
    BY <1>1 DEF BunInv, BunSharedThere
  <1>7. BunSharing'
    <2>1. \A b \in Bundles : RefersTo(b)' => RefersTo(b)
      BY <1>1, <1>3 DEF RefersTo, Committed
    <2> QED  BY <2>1 DEF BunInv, BunSharing
  <1>8. BunRecovering'
    BY <1>1 DEF BunRecovering
  <1> QED  BY <1>4, <1>5, <1>6, <1>7, <1>8 DEF BunInv

\* recover_bundles begins with every identity of a bundle before it.
LEMMA BunFullIds ==
    LET ids == <<"accepted", "validation", "rejected", "dedup">> IN
    ids \in Seq(Roles) /\ \A role \in Roles : \E i \in 1..Len(ids) : ids[i] = role
  <1> DEFINE ids == <<"accepted", "validation", "rejected", "dedup">>
  <1>1. /\ ids \in Seq(Roles) /\ Len(ids) = 4 /\ ids[1] = "accepted" /\ ids[2] = "validation"
        /\ ids[3] = "rejected" /\ ids[4] = "dedup"
    BY DEF Roles
  <1>2. 1 \in 1..4 /\ 2 \in 1..4 /\ 3 \in 1..4 /\ 4 \in 1..4
    OBVIOUS
  <1> HIDE DEF ids
  <1>3. \A role \in Roles : \E i \in 1..Len(ids) : ids[i] = role
    BY <1>1, <1>2 DEF Roles
  <1> QED  BY <1>1, <1>3 DEF ids

LEMMA BunStartRecovery ==
    ASSUME BunInv, StartBundleRecovery
    PROVE  BunInv'
  <1>1. /\ UNCHANGED <<bunJournal, bunRow, bunDirs, bunFiles, bunWriter, bunServed, bunSpent>>
        /\ \A b \in Bundles : ~Busy(b)
    BY DEF StartBundleRecovery, bunDb, bunFs
  <1>2. PICK b \in bunJournal : bunMaint' = [todo |-> bunJournal \ {b}, cur |-> {b},
                                              ids |-> <<"accepted", "validation", "rejected", "dedup">>]
    BY DEF StartBundleRecovery
  <1>3. BunRecovering'
    BY <1>1, <1>2, BunFullIds DEF BunRecovering, Busy
  <1> QED  BY <1>1, <1>3, BunQuiet DEF BunInv, BunTypes

\* Recovery takes directories of the bundle it is at, and nothing else.
LEMMA BunTakes ==
    ASSUME BunInv, NEW b \in bunJournal, bunWriter[b].pc = "none", BunElsewhere(b), BunSharedThere',
           bunDirs' \subseteq bunDirs, UNCHANGED <<bunJournal, bunRow, bunWriter, bunServed, bunSpent>>, BunRecovering'
    PROVE  BunInv'
  <1>0. b \in Bundles /\ BunTypes /\ BunPlace(b) /\ BunPacks(b) /\ b \notin Committed /\ b \notin Committed'
    BY DEF BunInv, BunTypes, BunEach, BunPlace, Committed
  <1>1. BunTypes'
    BY <1>0 DEF BunTypes
  <1>2. \A role : HasChild(b, role)' => HasChild(b, role)
    BY DEF HasChild
  <1>3. BunPlace(b)'
    BY <1>0, <1>2 DEF BunPlace
  <1>4. BunPacks(b)' /\ BunWhole(b)'
    BY <1>0 DEF BunPacks, BunWhole
  <1>5. \A x \in Bundles : BunEach(x)'
    BY <1>0, <1>3, <1>4, BunOthers DEF BunEach
  <1>6. BunSharing'
    BY DEF BunInv, BunSharing, RefersTo, Committed
  <1> QED  BY <1>1, <1>5, <1>6 DEF BunInv

\* What recovery works through: the identities that are left, and no directory
\* of a role that is done.
BunAt(b) ==
    /\ b \in bunJournal /\ (\A x \in Bundles : ~Busy(x))
    /\ bunMaint.cur = {b} /\ bunMaint.todo \subseteq bunJournal \ {b}
    /\ bunMaint.ids \in Seq(Roles) /\ DOMAIN bunMaint = {"todo", "cur", "ids"}
    /\ \A role \in Roles : HasChild(b, role) => \E i \in 1..Len(bunMaint.ids) : bunMaint.ids[i] = role

LEMMA BunDone ==
    ASSUME NEW b, BunAt(b), bunMaint.ids # <<>>, bunMaint' = [bunMaint EXCEPT !.ids = Tail(@)],
           UNCHANGED <<bunJournal, bunWriter>>, bunDirs' \subseteq bunDirs, <<"final", <<b, Head(bunMaint.ids)>>>> \notin bunDirs'
    PROVE  BunRecovering'
  <1> DEFINE ids == bunMaint.ids
  <1>1. /\ Tail(ids) \in Seq(Roles) /\ Len(Tail(ids)) = Len(ids) - 1 /\ Len(ids) \in Nat
        /\ \A i \in 1..Len(Tail(ids)) : Tail(ids)[i] = ids[i + 1]
        /\ Head(ids) = ids[1]
    BY HeadTailProperties DEF BunAt
  <1>2. /\ bunMaint'.cur = {b} /\ bunMaint'.todo = bunMaint.todo /\ bunMaint'.ids = Tail(ids)
        /\ DOMAIN bunMaint' = {"todo", "cur", "ids"}
    BY DEF BunAt
  <1>3. ASSUME NEW role \in Roles, HasChild(b, role)' PROVE \E i \in 1..Len(Tail(ids)) : Tail(ids)[i] = role
    <2>1. PICK i \in 1..Len(ids) : ids[i] = role
      BY <1>3 DEF BunAt, HasChild
    <2>2. i # 1
      BY <1>1, <1>3, <2>1 DEF HasChild
    <2>3. i - 1 \in 1..Len(Tail(ids)) /\ (i - 1) + 1 = i
      BY <1>1, <2>1, <2>2
    <2>4. Tail(ids)[i - 1] = role
      BY <1>1, <2>1, <2>3
    <2> QED  BY <2>3, <2>4
  <1> HIDE DEF ids
  <1>4. \A x \in Bundles : ~Busy(x)'
    BY DEF BunAt, Busy
  <1> QED  BY <1>1, <1>2, <1>3, <1>4 DEF BunRecovering, BunAt

\* The last step of recovery for one bundle takes its journal row.
LEMMA BunForget ==
    ASSUME BunInv, NEW b \in Bundles, BunAt(b), bunMaint.ids = <<>>, ~HasStaging(b),
           bunJournal' = bunJournal \ {b}, bunWriter' = [bunWriter EXCEPT ![b] = NoBundleWriter],
           bunMaint' = (IF bunMaint.todo = {} THEN NoRecovery
                        ELSE LET c == CHOOSE x \in bunMaint.todo : TRUE IN
                             [todo |-> bunMaint.todo \ {c}, cur |-> {c},
                              ids |-> <<"accepted", "validation", "rejected", "dedup">>]),
           UNCHANGED <<bunRow, bunDirs, bunFiles, bunServed, bunSpent>>
    PROVE  BunInv'
  <1>0. BunTypes /\ BunPlace(b) /\ BunWhole(b) /\ BunSharedThere
    BY DEF BunInv, BunEach
  <1>1. /\ DOMAIN bunWriter' = Bundles /\ bunWriter'[b] = NoBundleWriter
        /\ \A x \in Bundles \ {b} : bunWriter'[x] = bunWriter[x]
    BY <1>0 DEF BunTypes
  <1>2. BunElsewhere(b)
    BY <1>1 DEF BunElsewhere, HasStaging, HasChild
  <1>3. BunTypes'
    BY <1>0, <1>1, BunNoWriter DEF BunTypes
  <1>4. \A role \in Roles : ~HasChild(b, role)
    <2>1. Len(bunMaint.ids) = 0
      OBVIOUS
    <2> QED  BY <2>1 DEF BunAt
  <1>5. BunPlace(b)' /\ BunPacks(b)' /\ (RefersTo(b)' => b \in Committed' /\ bunRow'[b].shared)
    <2>1. b \notin bunJournal' /\ ~HasStaging(b)' /\ \A role \in Roles : ~HasChild(b, role)'
      BY <1>4 DEF HasStaging, HasChild
    <2> QED  BY <1>1, <2>1, BunGone
  <1>6. BunWhole(b)'
    BY <1>0 DEF BunWhole, Committed, FilesOfChild, HasChild
  <1>7. BunSharedThere'
    BY <1>0 DEF BunSharedThere
  <1>8. RefersTo(b)' => RefersTo(b)
    BY <1>5 DEF RefersTo, Committed
  <1>9. \A x \in Bundles : BunEach(x)' /\ (RefersTo(x)' => RefersTo(x))
    BY <1>2, <1>5, <1>6, <1>7, <1>8, BunOthers DEF BunEach
  <1>10. BunSharing'
    BY <1>9 DEF BunInv, BunSharing
  <1>11. \A x \in Bundles : ~Busy(x)'
    BY <1>1, BunNoWriter DEF BunAt, Busy
  <1>12. BunRecovering'
    <2>1. CASE bunMaint.todo = {}
      BY <2>1 DEF BunRecovering
    <2>2. CASE bunMaint.todo # {}
      <3>1. PICK c \in bunMaint.todo :
                bunMaint' = [todo |-> bunMaint.todo \ {c}, cur |-> {c},
                             ids |-> <<"accepted", "validation", "rejected", "dedup">>]
        BY <2>2
      <3>2. c \in bunJournal' /\ bunMaint.todo \ {c} \subseteq bunJournal' \ {c}
        BY <3>1 DEF BunAt
      <3> QED  BY <1>11, <3>1, <3>2, BunFullIds DEF BunRecovering
    <2> QED  BY <2>1, <2>2
  <1> QED  BY <1>3, <1>7, <1>9, <1>10, <1>12 DEF BunInv

\* A step of recover_bundles: the bundle that recovery is at loses directories
\* of its own, one identity after the other, and then its row.
LEMMA BunRecover ==
    ASSUME BunInv, RecoverIdentity
    PROVE  BunInv'
  <1>1. PICK b \in bunMaint.cur :
        /\ \/ /\ <<"staging", b>> \in bunDirs
              /\ RemoveTree("staging", b) /\ UNCHANGED <<bunDb, bunMaint, bunWriter>>
           \/ /\ <<"staging", b>> \notin bunDirs /\ bunMaint.ids # <<>>
              /\ LET id == Identity(b, bunWriter[b].draft, Head(bunMaint.ids)) IN
                 IF OwnedElsewhere(b, id)
                 THEN bunMaint' = [bunMaint EXCEPT !.ids = Tail(@)] /\ UNCHANGED bunFs
                 ELSE /\ RemoveTree("final", id)
                      /\ bunMaint' = IF <<"final", id>> \notin bunDirs'
                                     THEN [bunMaint EXCEPT !.ids = Tail(@)] ELSE bunMaint
              /\ UNCHANGED <<bunDb, bunWriter>>
           \/ /\ <<"staging", b>> \notin bunDirs /\ bunMaint.ids = <<>>
              /\ bunJournal' = bunJournal \ {b}
              /\ bunWriter' = [bunWriter EXCEPT ![b] = NoBundleWriter]
              /\ bunMaint' = (IF bunMaint.todo = {} THEN NoRecovery
                              ELSE LET c == CHOOSE x \in bunMaint.todo : TRUE IN
                                   [todo |-> bunMaint.todo \ {c}, cur |-> {c},
                                    ids |-> <<"accepted", "validation", "rejected", "dedup">>])
              /\ UNCHANGED <<bunRow, bunShared, bunFs>>
        /\ UNCHANGED <<bunServed, bunSpent>>
    BY Zenon DEF RecoverIdentity
  <1> DEFINE ids == bunMaint.ids
             role == Head(bunMaint.ids)
             id == Identity(b, bunWriter[b].draft, role)
  <1>2. BunAt(b)
    <2>1. bunMaint # NoRecovery
      BY DEF NoRecovery
    <2> QED  BY <2>1 DEF BunInv, BunRecovering, BunAt
  <1>3. /\ b \in bunJournal /\ b \in Bundles /\ bunWriter[b].pc = "none" /\ BunTypes /\ BunPlace(b) /\ BunSharedThere
    BY <1>2 DEF BunAt, BunInv, BunTypes, BunEach, Busy
  <1>4. CASE RemoveTree("staging", b) /\ UNCHANGED <<bunDb, bunMaint, bunWriter>>
    <2>1. "dedup" \in Roles  BY DEF Roles
    <2>2. UNCHANGED <<bunJournal, bunRow, bunMaint, bunWriter, bunServed, bunSpent>>
      BY <1>1, <1>4 DEF bunDb
    <2>3. BunSharedThere' /\ bunDirs' \subseteq bunDirs /\ BunElsewhere(b)
      BY <1>3, <1>4, <2>1, <2>2, BunRemoveOwn DEF BunElsewhere
    <2>4. BunRecovering'
      BY <1>2, <2>2, <2>3 DEF BunAt, BunRecovering, Busy, HasChild
    <2> QED  BY <1>3, <2>2, <2>3, <2>4, BunTakes
  <1>5. CASE /\ ids # <<>> /\ OwnedElsewhere(b, id) /\ bunMaint' = [bunMaint EXCEPT !.ids = Tail(@)]
             /\ UNCHANGED bunFs /\ UNCHANGED <<bunDb, bunWriter>>
    <2>1. UNCHANGED <<bunJournal, bunRow, bunDirs, bunFiles, bunWriter, bunServed, bunSpent>>
      BY <1>1, <1>5 DEF bunDb, bunFs
    <2>2. role \in Roles
      BY <1>2, <1>5, HeadTailProperties DEF BunAt
    <2>3. id = SharedSnapshot
      <3>1. id \in {SharedSnapshot, <<b, role>>}
        BY BunIdentity
      <3>2. ASSUME id = <<b, role>> PROVE id = SharedSnapshot
        BY <1>3, <1>5, <2>2, <3>2, BunClaims DEF OwnedElsewhere
      <3> QED  BY <3>1, <3>2
    <2>4. role = "accepted" /\ bunWriter[b].draft.shared
      <3>1. SharedSnapshot # <<b, role>>
        BY <1>3, <2>2, BundleAssumption
      <3> QED  BY <2>3, <3>1, BunIdentity
    <2>5. <<"final", <<b, role>>>> \notin bunDirs'
      BY <1>3, <2>1, <2>4 DEF BunPlace, HasChild
    <2>6. BunRecovering'
      BY <1>2, <1>5, <2>1, <2>5, BunDone
    <2>7. BunElsewhere(b) /\ BunSharedThere'
      BY <1>3, <2>1 DEF BunElsewhere, BunSharedThere, HasStaging, HasChild
    <2> QED  BY <1>3, <2>1, <2>6, <2>7, BunTakes
  <1>6. CASE /\ ids # <<>> /\ ~OwnedElsewhere(b, id) /\ RemoveTree("final", id)
             /\ bunMaint' = IF <<"final", id>> \notin bunDirs'
                            THEN [bunMaint EXCEPT !.ids = Tail(@)] ELSE bunMaint
             /\ UNCHANGED <<bunDb, bunWriter>>
    <2>1. UNCHANGED <<bunJournal, bunRow, bunWriter, bunServed, bunSpent>>
      BY <1>1, <1>6 DEF bunDb
    <2>2. role \in Roles
      BY <1>2, <1>6, HeadTailProperties DEF BunAt
    <2>3. id = <<b, role>>
      BY <1>6, BunIdentity DEF OwnedElsewhere
    <2>4. BunSharedThere' /\ bunDirs' \subseteq bunDirs /\ BunElsewhere(b)
      <3>1. RemoveTree("final", <<b, role>>)
        BY <1>6, <2>3
      <3> HIDE DEF role
      <3> QED  BY <1>3, <2>1, <2>2, <3>1, BunRemoveOwn DEF BunElsewhere
    <2>5. BunRecovering'
      <3>1. CASE <<"final", id>> \in bunDirs'
        <4>1. bunMaint' = bunMaint
          BY <1>6, <3>1
        <4> QED  BY <1>2, <2>1, <2>4, <4>1 DEF BunAt, BunRecovering, Busy, HasChild
      <3>2. CASE <<"final", id>> \notin bunDirs'
        <4>1. <<"final", <<b, role>>>> \notin bunDirs'
          BY <2>3, <3>2
        <4>2. bunMaint' = [bunMaint EXCEPT !.ids = Tail(@)]
          BY <1>6, <3>2
        <4> QED  BY <1>2, <1>6, <2>1, <2>4, <4>1, <4>2, BunDone
      <3> QED  BY <3>1, <3>2
    <2> QED  BY <1>3, <2>1, <2>4, <2>5, BunTakes
  <1>7. CASE /\ <<"staging", b>> \notin bunDirs /\ ids = <<>>
             /\ bunJournal' = bunJournal \ {b}
             /\ bunWriter' = [bunWriter EXCEPT ![b] = NoBundleWriter]
             /\ bunMaint' = (IF bunMaint.todo = {} THEN NoRecovery
                             ELSE LET c == CHOOSE x \in bunMaint.todo : TRUE IN
                                  [todo |-> bunMaint.todo \ {c}, cur |-> {c},
                                   ids |-> <<"accepted", "validation", "rejected", "dedup">>])
             /\ UNCHANGED <<bunRow, bunShared, bunFs>>
    <2>1. UNCHANGED <<bunRow, bunDirs, bunFiles, bunServed, bunSpent>> /\ ~HasStaging(b)
      BY <1>1, <1>7 DEF bunFs, HasStaging
    <2> QED  BY <1>2, <1>3, <1>7, <2>1, BunForget
  <1> QED  BY <1>1, <1>4, <1>5, <1>6, <1>7

LEMMA BunInitInv == BundleInit => BunInv
  <1> SUFFICES ASSUME BundleInit PROVE BunInv
    OBVIOUS
  <1>1. /\ bunJournal = {} /\ bunRow = [b \in Bundles |-> NoMember] /\ bunDirs = {<<"final", SharedSnapshot>>}
        /\ bunFiles = {<<"final", SharedSnapshot, "accepted", 0>>} /\ bunServed = {}
        /\ bunWriter = [b \in Bundles |-> NoBundleWriter] /\ bunMaint = NoRecovery
        /\ bunSpent = [crash |-> 0, rot |-> 0, packs |-> 0]
    BY DEF BundleInit
  <1>2. Committed = {}
    BY <1>1 DEF Committed
  <1>3. BunTypes
    BY <1>1, BunNoWriter DEF BunTypes
  <1>4. ASSUME NEW b \in Bundles PROVE BunEach(b)
    <2>1. /\ bunWriter[b].pc = "none" /\ bunWriter[b].made = <<>> /\ <<>> \in Seq({b} \X Roles)
          /\ \A x \in Sections : bunWriter[b].packs[x] = 0
      BY <1>1, BunNoWriter
    <2>2. ~HasStaging(b) /\ \A role \in Roles : ~HasChild(b, role)
      BY <1>1, BundleAssumption DEF HasStaging, HasChild
    <2> QED  BY <1>1, <1>2, <2>1, <2>2 DEF BunEach, BunPlace, BunPacks, BunWhole
  <1>5. BunSharedThere /\ BunSharing /\ BunRecovering
    BY <1>1, <1>2 DEF BunSharedThere, BunSharing, BunRecovering, RefersTo
  <1> QED  BY <1>3, <1>4, <1>5 DEF BunInv

LEMMA BunWriterSteps ==
    ASSUME BunInv, NEW b \in Bundles, BundleWriterStep(b)
    PROVE  BunInv'
  <1>1. CASE \E draft \in [shared : BOOLEAN, rejects : BOOLEAN] : BeginBundle(b, draft)
    BY <1>1, BunBegin
  <1>2. CASE CreateBundleStaging(b)
    BY <1>2, BunCreateStaging
  <1>3. CASE StartCommit(b)
    <2>1. PICK label \in {"abort", "makeDirs"} : BunGoto(b, label)
      BY <1>3 DEF StartCommit
    <2> QED  BY <1>3, <2>1, BunMoves DEF StartCommit, BunLabels, bunFs
  <1>4. CASE DropBundle(b)
    BY <1>4, BunMoves DEF DropBundle, BunLabels, bunFs
  <1>5. CASE CreateFinalDir(b)
    BY <1>5, BunCreateFinal
  <1>6. CASE InstallFile(b)
    BY <1>6, BunInstall
  <1>7. CASE CommitBundle(b)
    BY <1>7, BunCommit
  <1>8. CASE AbortBundle(b)
    BY <1>8, BunAbort
  <1>9. CASE Unjournal(b)
    BY <1>9, BunUnjournal
  <1>10. CASE CleanBundleStaging(b)
    BY <1>10, BunClean
  <1>11. CASE AppendAccepted(b)
    BY <1>11, BunAppend DEF AppendAccepted, Sections
  <1>12. CASE \E x \in Sections : AppendSection(b, x)
    BY <1>12, BunAppend DEF AppendSection
  <1>13. CASE \E role \in Roles : ReadPack(b, role)
    BY <1>13, BunRead
  <1> QED
    BY <1>1, <1>2, <1>3, <1>4, <1>5, <1>6, <1>7, <1>8, <1>9, <1>10, <1>11, <1>12, <1>13 DEF BundleWriterStep

LEMMA BundleInductive == BunInv /\ [BundleNext]_bunVars => BunInv'
  <1> SUFFICES ASSUME BunInv, [BundleNext]_bunVars PROVE BunInv'
    OBVIOUS
  <1>1. CASE \E b \in Bundles : BundleWriterStep(b)
    BY <1>1, BunWriterSteps
  <1>2. CASE CrashBundles
    BY <1>2, BunCrash
  <1>3. CASE TombstoneShared
    <2>1. UNCHANGED <<bunJournal, bunRow, bunDirs, bunFiles, bunWriter, bunMaint, bunServed, bunSpent>>
      BY <1>3 DEF TombstoneShared, bunFs
    <2> QED  BY <2>1, BunQuiet DEF BunInv, BunTypes, BunRecovering, Busy, HasChild
  <1>4. CASE RotFile
    <2>1. /\ UNCHANGED <<bunJournal, bunRow, bunDirs, bunFiles, bunWriter, bunMaint, bunServed>>
          /\ bunSpent' = [bunSpent EXCEPT !.rot = @ + 1]
      BY <1>4 DEF RotFile, bunDb
    <2>2. bunSpent' \in [crash : Nat, rot : Nat, packs : Nat] /\ bunSpent'.crash = bunSpent.crash
      BY <2>1 DEF BunInv, BunTypes
    <2> QED  BY <2>1, <2>2, BunQuiet DEF BunInv, BunTypes, BunRecovering, Busy, HasChild
  <1>5. CASE StartBundleRecovery
    BY <1>5, BunStartRecovery
  <1>6. CASE RecoverIdentity
    BY <1>6, BunRecover
  <1>7. CASE UNCHANGED bunVars
    <2>1. UNCHANGED <<bunJournal, bunRow, bunDirs, bunFiles, bunWriter, bunMaint, bunServed, bunSpent>>
      BY <1>7 DEF bunVars, bunDb, bunFs
    <2> QED  BY <2>1, BunQuiet DEF BunInv, BunTypes, BunRecovering, Busy, HasChild
  <1> QED  BY <1>1, <1>2, <1>3, <1>4, <1>5, <1>6, <1>7 DEF BundleNext

LEMMA BunInvImplies == BunInv => BundlesWhole /\ SharedSnapshotKept /\ NoOrphanChild /\ ReadsAsWritten
  <1> SUFFICES ASSUME BunInv PROVE BundlesWhole /\ SharedSnapshotKept /\ NoOrphanChild /\ ReadsAsWritten
    OBVIOUS
  <1>1. BundlesWhole
    BY DEF BunInv, BunEach, BunWhole, BundlesWhole, HasChild, Committed
  <1>2. SharedSnapshotKept
    <2> DEFINE over == {b \in Bundles : \/ b \in Committed /\ bunRow[b].shared
                                        \/ b \in bunJournal /\ bunWriter[b].draft.shared}
    <2>1. \A b, c \in over : b = c
      BY DEF BunInv, BunSharing, RefersTo
    <2>2. over = {} \/ \E b \in over : over = {b}
      BY <2>1
    <2>3. Cardinality(over) <= 1
      <3> HIDE DEF over
      <3>1. CASE over = {}
        BY <3>1, FS_EmptySet
      <3>2. CASE \E b \in over : over = {b}
        <4>1. PICK b \in over : over = {b}
          BY <3>2
        <4>2. Cardinality({b}) = 1
          BY FS_Singleton
        <4> QED  BY <4>1, <4>2
      <3> QED  BY <2>2, <3>1, <3>2
    <2> QED  BY <2>3 DEF BunInv, BunSharedThere, SharedSnapshotKept
  <1>3. NoOrphanChild
    <2> SUFFICES ASSUME NEW d \in bunDirs
                 PROVE  \/ d = <<"final", SharedSnapshot>>
                        \/ d[1] = "staging" /\ (d[2] \in bunJournal \/ Busy(d[2]) \/ bunSpent.crash > 0)
                        \/ d[1] = "final" /\ d[2][1] \in bunJournal \cup Committed
      BY DEF NoOrphanChild
    <2>1. CASE \E b \in Bundles : d = <<"staging", b>>
      <3>1. PICK b \in Bundles : d = <<"staging", b>>
        BY <2>1
      <3>2. BunPlace(b)
        BY DEF BunInv, BunEach
      <3> QED  BY <3>1, <3>2 DEF BunPlace, HasStaging
    <2>2. CASE \E b \in Bundles, role \in Roles : d = <<"final", <<b, role>>>>
      <3>1. PICK b \in Bundles, role \in Roles : d = <<"final", <<b, role>>>>
        BY <2>2
      <3>2. BunPlace(b)
        BY DEF BunInv, BunEach
      <3> QED  BY <3>1, <3>2 DEF BunPlace, HasChild
    <2> QED  BY <2>1, <2>2 DEF BunInv, BunTypes
  <1>4. ReadsAsWritten
    BY DEF BunInv, BunTypes, ReadsAsWritten
  <1> QED  BY <1>1, <1>2, <1>3, <1>4

\* Verification bundles: whatever dies, fails or is dropped, a committed bundle
\* has all its files, an existing Snapshot it refers to stays and has one owner,
\* every directory can be traced to a row, and no damaged pack is served.
THEOREM BundlesAreWhole ==
    BundleSpec => [](BundlesWhole /\ SharedSnapshotKept /\ NoOrphanChild /\ ReadsAsWritten)
  <1>1. BundleInit => BunInv
    BY BunInitInv
  <1>2. BunInv /\ [BundleNext]_bunVars => BunInv'
    BY BundleInductive
  <1>3. BunInv => BundlesWhole /\ SharedSnapshotKept /\ NoOrphanChild /\ ReadsAsWritten
    BY BunInvImplies
  <1> QED  BY <1>1, <1>2, <1>3, PTL DEF BundleSpec

-----------------------------------------------------------------------------
(* The root as a whole.                                                    *)

\* Publication, reading, recover and the collectors (store.rs): with a window
\* before a tombstoned Snapshot may be collected, readers reach the end of
\* their Snapshot, and journal, rows and disk agree.
THEOREM StoreAlwaysRecovers == RetentionWindow # 0 => (StoreSpec => []StoreRecovers)
<1> SUFFICES ASSUME RetentionWindow # 0 PROVE StoreSpec => []StoreRecovers
    OBVIOUS
<1>1. StoreInv => StoreRecovers
  BY StoreInvImplies DEF StoreRecovers
<1> QED BY <1>1, StoreInvariant, PTL

\* VerificationBundleWriter and ExportWriter (bundle.rs, export.rs): where no
\* two exports name the same destination, what either published stays whole.
THEOREM PublicationsStayWhole == ~SharedDestination => (PublicationSpec => []PublicationsWhole)
<1> SUFFICES ASSUME ~SharedDestination PROVE PublicationSpec => []PublicationsWhole
    OBVIOUS
<1>1. NoLostInstall /\ QuotaExact /\ (~SharedDestination => CommittedExportKept)
      => CommittedExportKept /\ NoLostInstall /\ QuotaExact
  OBVIOUS
<1>2. /\ BundlesWhole /\ SharedSnapshotKept /\ NoOrphanChild /\ ReadsAsWritten
      /\ CommittedExportKept /\ NoLostInstall /\ QuotaExact
      => PublicationsWhole
  BY DEF PublicationsWhole
<1> QED BY <1>1, <1>2, BundlesAreWhole, ExportsAreKept, PTL DEF PublicationSpec

\* open, migrate, backup, restore and open_dedup_index: whatever processes
\* open, die in, back up or recover the root.
THEOREM RootStaysKept == RootSpec => []RootKept
<1>1. OpenIsCurrent /\ BackupIsOneState /\ RestoreIsBackup /\ LiveIndexKept /\ FirstSeen => RootKept
  BY DEF RootKept
<1> QED BY <1>1, RootOpensCurrent, BackupsAreWhole, IndexesAreKept, PTL DEF RootSpec
=============================================================================
