---------------------------- MODULE ProfileDrift ----------------------------
(***************************************************************************)
(* The profile history of one Dataset and the drift Jobs that compare its  *)
(* entries (stillflow-storage/src/profile_history.rs,                      *)
(* stillflow-engine/src/drift.rs, and their use by job_runtime.rs).  A     *)
(* profile Run commits its report and records the history entry            *)
(* afterwards; a drift Run selects a baseline, compares, looks its         *)
(* comparison key up and commits, each in a transaction of its own.        *)
(***************************************************************************)
EXTENDS Integers, Sequences, FiniteSets

CONSTANTS
    Profiles,      \* profile_report artifacts
    ProfileBodies, \* their contents; a digest is its content
    ProfileKinds,  \* [whole, version]: row_count_scanned > 0 and not truncated; the
                   \* contract and policy versions it was made under
    DriftJobs,     \* Jobs with a Drift operation
    MaxTombstones  \* bound: tombstoned histories and artifacts

ASSUME ProfileDriftAssumption ==
    /\ IsFiniteSet(Profiles) /\ MaxTombstones \in Nat
    /\ ProfileKinds \subseteq [whole : BOOLEAN, version : Nat]

VARIABLES
    pdArtifacts,    \* committed profile artifacts: [body, whole, version, state]
    pdUnrecorded,   \* artifacts whose Run has succeeded and whose history entry is to come
    pdHistory,      \* qd1_profile_history by profile_sequence: [profile, kind, state]
    pdJobs,         \* drift Runs: {} before the start, else one record
    pdComparisons,  \* qd1_drift_comparisons: [key, baseline, candidate, job, latest]
    pdTombstones    \* tombstones so far

pdVars == <<pdArtifacts, pdUnrecorded, pdHistory, pdJobs, pdComparisons, pdTombstones>>

PdInit ==
    /\ pdArtifacts = <<>> /\ pdUnrecorded = {} /\ pdHistory = <<>>
    /\ pdJobs = [j \in DriftJobs |-> {}] /\ pdComparisons = {} /\ pdTombstones = 0

\* The terminal commit of a profile Run.
CommitProfile(p, body, kind) ==
    /\ p \notin DOMAIN pdArtifacts
    /\ pdArtifacts' = [q \in DOMAIN pdArtifacts \cup {p} |->
         IF q = p THEN [body |-> body, whole |-> kind.whole, version |-> kind.version, state |-> "committed"]
         ELSE pdArtifacts[q]]
    /\ pdUnrecorded' = pdUnrecorded \cup {p}
    /\ UNCHANGED <<pdHistory, pdJobs, pdComparisons, pdTombstones>>

Recorded == {pdHistory[n].profile : n \in DOMAIN pdHistory}

\* validate_profile_body: what the draft says of versions, rows scanned and
\* truncation is what the committed body and its provenance say.
DescribesBody(p, kind) ==
    pdArtifacts[p].whole = kind.whole /\ pdArtifacts[p].version = kind.version

\* record_profile_history_next: the artifact must still be committed, and the
\* sequence is MAX(profile_sequence) + 1 over active and tombstoned entries.
RecordHistory(p, kind) ==
    /\ p \in pdUnrecorded
    /\ pdUnrecorded' = pdUnrecorded \ {p}
    /\ pdHistory' = IF pdArtifacts[p].state = "committed" /\ p \notin Recorded /\ DescribesBody(p, kind)
                    THEN Append(pdHistory, [profile |-> p, kind |-> kind, state |-> "active"]) ELSE pdHistory
    /\ UNCHANGED <<pdArtifacts, pdJobs, pdComparisons, pdTombstones>>

\* A crash between the terminal commit and the record, or an error of the
\* record, which is only logged: the entry never comes.
LoseHistory(p) ==
    /\ p \in pdUnrecorded
    /\ pdUnrecorded' = pdUnrecorded \ {p}
    /\ UNCHANGED <<pdArtifacts, pdHistory, pdJobs, pdComparisons, pdTombstones>>

TombstoneHistory(n) ==
    /\ pdTombstones < MaxTombstones
    /\ pdHistory[n].state = "active"
    /\ pdHistory' = [pdHistory EXCEPT ![n].state = "tombstoned"]
    /\ pdTombstones' = pdTombstones + 1
    /\ UNCHANGED <<pdArtifacts, pdUnrecorded, pdJobs, pdComparisons>>

\* transition_artifact to Tombstoned, of the reference and its body.
TombstoneProfile(p) ==
    /\ pdTombstones < MaxTombstones
    /\ pdArtifacts[p].state = "committed"
    /\ pdArtifacts' = [pdArtifacts EXCEPT ![p].state = "tombstoned"]
    /\ pdTombstones' = pdTombstones + 1
    /\ UNCHANGED <<pdUnrecorded, pdHistory, pdJobs, pdComparisons>>

Profile(n) == pdArtifacts[pdHistory[n].profile]
Readable(n) == Profile(n).state = "committed"

\* select_profile_history_baseline, LatestEligible: the rows it walks, newest
\* first, skipping those of another version or whose body is gone.
Eligible(candidate) ==
    {n \in 1..(candidate - 1) : /\ pdHistory[n].state = "active" /\ pdHistory[n].kind.whole
                                /\ pdHistory[n].kind.version = pdHistory[candidate].kind.version
                                /\ Readable(n)}
Latest(S) == {n \in S : \A m \in S : m <= n}

\* The resolved comparison key: profile digests, not history entries.
Key(b, c) == <<Profile(b).body, Profile(c).body>>

\* drift_history_inner up to the end of compare.  explicit is the baseline the
\* request names, {} for LatestEligible.  A candidate whose body is gone fails
\* the Run; no baseline, a tombstoned input and another version end it without
\* a report.
CompareDrift(j, candidate, explicit) ==
    LET selected == IF explicit = {} THEN Latest(Eligible(candidate)) ELSE explicit
        answer(phase) == {[candidate |-> candidate, latest |-> explicit = {}, phase |-> phase]}
        unreadable == \E n \in selected \cup {candidate} : ~Readable(n)
        noReport == \/ selected = {}
                    \/ \E n \in selected \cup {candidate} : pdHistory[n].state # "active"
                    \/ \E n \in selected : pdHistory[n].kind.version # pdHistory[candidate].kind.version IN
    /\ pdJobs[j] = {}
    /\ \A n \in explicit : n < candidate
    /\ pdJobs' = [pdJobs EXCEPT ![j] =
         IF unreadable THEN answer("failed")
         ELSE IF noReport THEN answer("no_report")
         ELSE {[candidate |-> candidate, latest |-> explicit = {}, phase |-> "compared",
                baseline |-> CHOOSE n \in selected : TRUE,
                key |-> Key(CHOOSE n \in selected : TRUE, candidate)]}]
    /\ UNCHANGED <<pdArtifacts, pdUnrecorded, pdHistory, pdComparisons, pdTombstones>>

\* validate_committed_drift_report_output: the stored comparison of the report a
\* Run ends with is about the candidate it was asked about and the baseline it
\* resolved.  The mutant takes any comparison.
AnyOutput(dj, c) == TRUE
OutputOwn(dj, c) == c.candidate = dj.candidate /\ c.baseline = dj.baseline

\* get_drift_comparison: a committed comparison with the same key is reused; the
\* terminal transaction may refuse it, since equal profiles share a key.
LookupComparison(j) ==
    \E dj \in pdJobs[j] :
        LET found == {c \in pdComparisons : c.key = dj.key} IN
        /\ dj.phase = "compared"
        /\ pdJobs' = [pdJobs EXCEPT ![j] =
             IF found = {} THEN {[dj EXCEPT !.phase = "publishing"]}
             ELSE {[dj EXCEPT !.phase = IF \E c \in found : OutputOwn(dj, c)
                                         THEN "reused" ELSE "failed"]}]
        /\ UNCHANGED <<pdArtifacts, pdUnrecorded, pdHistory, pdComparisons, pdTombstones>>

\* Both inputs are still active and their artifacts committed, in the terminal
\* transaction.  The mutant trusts what the comparison read.
InputsTrusted(b, c) == TRUE
InputsActive(b, c) == \A n \in {b, c} : pdHistory[n].state = "active" /\ Readable(n)

\* A comparison under the key is there already ("committed concurrently").  The
\* mutant looks only before the comparison.
NeverTaken(key) == FALSE
KeyTaken(key) == key \in {c.key : c \in pdComparisons}

Published(j, dj) ==
    pdComparisons \cup
        {[key |-> dj.key, baseline |-> dj.baseline, candidate |-> dj.candidate, job |-> j,
          latest |-> dj.latest => dj.baseline \in Latest(Eligible(dj.candidate)),
          active |-> pdHistory[dj.baseline].state = "active" /\ Readable(dj.baseline)]}

\* commit_drift_report_tx, in the terminal transaction of the Run; refused, the
\* worker fails the Run without outputs.
CommitDrift(j) ==
    \E dj \in pdJobs[j] :
        LET ok == ~KeyTaken(dj.key) /\ InputsActive(dj.baseline, dj.candidate) IN
        /\ dj.phase = "publishing"
        /\ pdJobs' = [pdJobs EXCEPT ![j] = {[dj EXCEPT !.phase = IF ok THEN "committed" ELSE "failed"]}]
        /\ pdComparisons' = IF ok THEN Published(j, dj) ELSE pdComparisons
        /\ UNCHANGED <<pdArtifacts, pdUnrecorded, pdHistory, pdTombstones>>

\* publish_drift_report, a transaction of its own: the comparison under the key,
\* if there is one, is the answer, whichever candidate it is about.
DirectPhase(dj) ==
    IF KeyTaken(dj.key) THEN "answered"
    ELSE IF InputsActive(dj.baseline, dj.candidate) THEN "committed" ELSE "failed"

\* drift_history_and_publish, by a Run without a typed operation: it publishes
\* what it compared without looking the key up, and while it is running.
PublishDirect(j) ==
    \E dj \in pdJobs[j] :
        /\ dj.phase = "compared"
        /\ pdJobs' = [pdJobs EXCEPT ![j] = {[dj EXCEPT !.phase = DirectPhase(dj)]}]
        /\ pdComparisons' = IF DirectPhase(dj) = "committed" THEN Published(j, dj) ELSE pdComparisons
        /\ UNCHANGED <<pdArtifacts, pdUnrecorded, pdHistory, pdTombstones>>

PdNext ==
    \/ \E p \in Profiles, body \in ProfileBodies, kind \in ProfileKinds : CommitProfile(p, body, kind)
    \/ \E p \in pdUnrecorded : LoseHistory(p) \/ \E kind \in ProfileKinds : RecordHistory(p, kind)
    \/ \E n \in DOMAIN pdHistory : TombstoneHistory(n)
    \/ \E p \in DOMAIN pdArtifacts : TombstoneProfile(p)
    \/ \E j \in DriftJobs, c \in DOMAIN pdHistory, e \in {{}} \cup {{n} : n \in DOMAIN pdHistory} :
         CompareDrift(j, c, e)
    \/ \E j \in DriftJobs : LookupComparison(j) \/ CommitDrift(j) \/ PublishDirect(j)
PdSpec == PdInit /\ [][PdNext]_pdVars

-----------------------------------------------------------------------------
\* profile_history.rs, commit_drift_report_tx: whatever was tombstoned or
\* recorded between selection and publication, a published comparison is
\* unique under its key, compares the two profiles the key names, oldest first
\* and of one version, and a LatestEligible one names the newest eligible entry at publication.
ComparisonSound ==
    \A c \in pdComparisons :
        /\ c.key = Key(c.baseline, c.candidate) /\ c.baseline < c.candidate
        /\ Profile(c.baseline).version = Profile(c.candidate).version
        /\ c.latest /\ c.active
        /\ \A d \in pdComparisons : d.key = c.key => d = c

\* job_runtime.rs, validate_committed_drift_report_output: a drift Run that
\* succeeds with a report names its own candidate and baseline, in a comparison
\* with its key.
DriftOutputOwn ==
    \A j \in DriftJobs : \A dj \in pdJobs[j] :
        dj.phase \in {"committed", "reused"} =>
            \E c \in pdComparisons : c.key = dj.key /\ c.candidate = dj.candidate /\ c.baseline = dj.baseline

\* Profile history and drift: published comparisons are unique, ordered and of
\* live inputs, and a drift Run never passes off another Run's report as its own.
DriftSound == ComparisonSound /\ DriftOutputOwn
=============================================================================
