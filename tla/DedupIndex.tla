------------------------------ MODULE DedupIndex ------------------------------
(***************************************************************************)
(* The temporary index a verification run uses to find duplicate keys      *)
(* (stillflow-storage/src/dedup.rs): a SQLite file and a lock file under   *)
(* temp/, named after the run.  The lock file is locked while the index    *)
(* lives; recovery removes the files of a run whose lock it can take.      *)
(***************************************************************************)
EXTENDS Integers, FiniteSets

CONSTANTS
    DedupRuns,        \* runs; a run identity is used once
    DedupKeys,        \* canonical key bytes of one node and rule
    MaxDedupRows,     \* MAX_SNAPSHOT_ROWS
    MaxDedupOrdinal,  \* bound: source rows of a run
    MaxDedupCrashes   \* bound: deaths of the process

ASSUME DedupAssumption ==
    /\ IsFiniteSet(DedupRuns) /\ IsFiniteSet(DedupKeys)
    /\ {MaxDedupRows, MaxDedupOrdinal} \subseteq Nat \ {0} /\ MaxDedupCrashes \in Nat

VARIABLES
    dedFile,   \* the files under temp/: <<run, "sqlite">> and <<run, "lock">>
    dedPc,     \* per run: where its owner is
    dedIndex,  \* per run: dedup_index, key -> first source row (0: no row)
    dedRows,   \* per run: inserted_rows
    dedSeen,   \* history: per run, the keys of its source rows in order
    dedMaint,  \* recover_dedup_candidates: the run being removed, or none
    dedSpent   \* deaths so far

dedVars == <<dedFile, dedPc, dedIndex, dedRows, dedSeen, dedMaint, dedSpent>>

NoDedupRun == [of |-> {}, step |-> "none"]
Locked(r) == dedPc[r] \in {"locked", "live"}

DedupInit ==
    /\ dedFile = {}
    /\ dedPc = [r \in DedupRuns |-> "fresh"]
    /\ dedIndex = [r \in DedupRuns |-> [k \in DedupKeys |-> 0]]
    /\ dedRows = [r \in DedupRuns |-> 0]
    /\ dedSeen = [r \in DedupRuns |-> <<>>]
    /\ dedMaint = NoDedupRun
    /\ dedSpent = 0

DedGoto(r, label) == dedPc' = [dedPc EXCEPT ![r] = label]

\* open_dedup_index: the lock file is created exclusively, then locked, then
\* the database is created exclusively.  The caller holds an activity permit,
\* so no recovery runs meanwhile.  A failure removes what was created.
CreateDedupLock(r) ==
    /\ dedPc[r] = "fresh" /\ dedMaint = NoDedupRun
    /\ IF <<r, "lock">> \in dedFile THEN DedGoto(r, "done") /\ UNCHANGED dedFile
       ELSE dedFile' = dedFile \cup {<<r, "lock">>} /\ DedGoto(r, "created")
    /\ UNCHANGED <<dedIndex, dedRows, dedSeen, dedMaint, dedSpent>>
LockDedup(r) ==
    /\ dedPc[r] = "created"
    /\ DedGoto(r, IF <<r, "lock">> \in dedFile THEN "locked" ELSE "rollback")
    /\ UNCHANGED <<dedFile, dedIndex, dedRows, dedSeen, dedMaint, dedSpent>>
CreateDedupDatabase(r) ==
    /\ dedPc[r] = "locked"
    /\ \/ <<r, "sqlite">> \notin dedFile /\ dedFile' = dedFile \cup {<<r, "sqlite">>} /\ DedGoto(r, "live")
       \/ DedGoto(r, "rollback") /\ UNCHANGED dedFile
    /\ UNCHANGED <<dedIndex, dedRows, dedSeen, dedMaint, dedSpent>>

\* insert_first: INSERT ... ON CONFLICT DO NOTHING, so the first row of a key
\* stays.  The mutant overwrites it.
LastRow(old, ordinal) == ordinal
KeepFirst(old, ordinal) == IF old = 0 THEN ordinal ELSE old
InsertFirst(r, k) ==
    LET ordinal == Cardinality(DOMAIN dedSeen[r]) + 1 IN
    /\ dedPc[r] = "live" /\ ordinal <= MaxDedupOrdinal
    /\ IF dedRows[r] >= MaxDedupRows
       THEN DedGoto(r, "finish") /\ UNCHANGED <<dedIndex, dedRows, dedSeen>>
       ELSE /\ dedSeen' = [dedSeen EXCEPT ![r] = [i \in 1..ordinal |-> IF i = ordinal THEN k ELSE @[i]]]
            /\ dedIndex' = [dedIndex EXCEPT ![r][k] = KeepFirst(@, ordinal)]
            /\ dedRows' = [dedRows EXCEPT ![r] = IF dedIndex[r][k] = 0 THEN @ + 1 ELSE @]
            /\ UNCHANGED dedPc
    /\ UNCHANGED <<dedFile, dedMaint, dedSpent>>

\* finish, of close_and_delete and of Drop: unlock, close, remove both files;
\* recovery may be removing them too.
FinishDedup(r) ==
    /\ dedPc[r] = "live" /\ DedGoto(r, "finish")
    /\ UNCHANGED <<dedFile, dedIndex, dedRows, dedSeen, dedMaint, dedSpent>>
RemoveDedupFile(r) ==
    /\ \/ dedPc[r] \in {"finish", "rollback"} /\ dedFile' = dedFile \ {<<r, "sqlite">>} /\ DedGoto(r, "unlink")
       \/ dedPc[r] = "unlink" /\ dedFile' = dedFile \ {<<r, "lock">>} /\ DedGoto(r, "done")
    /\ UNCHANGED <<dedIndex, dedRows, dedSeen, dedMaint, dedSpent>>

CrashDedup ==
    /\ dedSpent < MaxDedupCrashes /\ dedSpent' = dedSpent + 1
    /\ dedPc' = [r \in DedupRuns |-> IF dedPc[r] = "fresh" THEN "fresh" ELSE "done"]
    /\ dedMaint' = NoDedupRun
    /\ UNCHANGED <<dedFile, dedIndex, dedRows, dedSeen>>

\* recover_dedup_candidates runs when no permit is held, which an index that
\* is open does not: its lock protects it.  The mutant trusts the permit.
DedupLockIgnored(r) == FALSE
DedupLockIsActive(r) == <<r, "lock">> \in dedFile /\ Locked(r)
RecoverDedup(r) ==
    /\ dedMaint = NoDedupRun
    /\ \A x \in DedupRuns : dedPc[x] \notin {"created", "locked", "rollback"}
    /\ \E kind \in {"sqlite", "lock"} : <<r, kind>> \in dedFile
    /\ ~DedupLockIsActive(r)
    /\ dedMaint' = [of |-> {r}, step |-> "sqlite"]
    /\ UNCHANGED <<dedFile, dedPc, dedIndex, dedRows, dedSeen, dedSpent>>
RecoverDedupFile ==
    /\ dedMaint.step # "none"
    /\ dedFile' = dedFile \ (dedMaint.of \X {dedMaint.step})
    /\ dedMaint' = IF dedMaint.step = "sqlite" THEN [dedMaint EXCEPT !.step = "lock"] ELSE NoDedupRun
    /\ UNCHANGED <<dedPc, dedIndex, dedRows, dedSeen, dedSpent>>

DedupStep(r) ==
    \/ CreateDedupLock(r) \/ LockDedup(r) \/ CreateDedupDatabase(r) \/ FinishDedup(r)
    \/ RemoveDedupFile(r) \/ RecoverDedup(r) \/ \E k \in DedupKeys : InsertFirst(r, k)
DedupNext == (\E r \in DedupRuns : DedupStep(r)) \/ RecoverDedupFile \/ CrashDedup
DedupSpec == DedupInit /\ [][DedupNext]_dedVars

-----------------------------------------------------------------------------
\* recover_dedup_candidates: the files of an index in use stay where they are,
\* whichever runs end, die or are recovered beside it; and once nothing runs
\* and nothing died, no file is left.
LiveIndexKept ==
    /\ \A r \in DedupRuns : dedPc[r] = "live" => {<<r, "sqlite">>, <<r, "lock">>} \subseteq dedFile
    /\ dedSpent = 0 /\ (\A r \in DedupRuns : dedPc[r] \in {"fresh", "done"}) => dedFile = {}

\* insert_first: however keys repeat, the index names the first source row of
\* each key and counts distinct keys, so keep-first deduplication keeps exactly
\* the first row.
FirstSeen ==
    \A r \in DedupRuns :
        /\ \A k \in DedupKeys :
            LET at == {i \in DOMAIN dedSeen[r] : dedSeen[r][i] = k} IN
            IF at = {} THEN dedIndex[r][k] = 0
            ELSE dedIndex[r][k] \in at /\ \A i \in at : dedIndex[r][k] <= i
        /\ dedRows[r] = Cardinality({dedSeen[r][i] : i \in DOMAIN dedSeen[r]})
=============================================================================
