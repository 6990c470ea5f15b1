---------------------------- MODULE ControlPlane ----------------------------
(***************************************************************************)
(* The durable control plane of one Workspace: the rows of cp_jobs,        *)
(* cp_runs, cp_artifact_refs, cp_artifact_bodies, cp_idempotency_keys and  *)
(* cp_events (stillflow-storage/src/control_plane.rs).  Every write        *)
(* operation of ControlPlaneStore is one IMMEDIATE SQLite transaction, so  *)
(* each is one action here.  A refused call rolls its transaction back and *)
(* is no step at all; its guard is the conjunction of the early returns.   *)
(*                                                                         *)
(* Data the properties do not tell apart is dropped: timestamps, plan and  *)
(* request payloads, and the wording of failures.  A request digest stays  *)
(* as a model value because idempotency compares it.                       *)
(***************************************************************************)
EXTENDS Integers, Sequences, FiniteSets

CONSTANTS
    Jobs,        \* Job identities, chosen by the submitter
    Runs,        \* Run identities, chosen by the claiming worker
    Artifacts,   \* ArtifactRef identities
    Reports,     \* the artifacts whose kind carries a canonical JSON body
    Typed,       \* the Jobs submitted with a typed operation (not legacy rows)
    Keys,        \* idempotency keys
    Digests,     \* request digests
    MaxQueued,   \* MAX_QUEUED_JOBS_PER_WORKSPACE
    NoJob, NoRun \* SQL NULL

ASSUME ControlPlaneAssumption ==
    /\ IsFiniteSet(Jobs) /\ IsFiniteSet(Artifacts)   \* identities are UUIDs
    /\ Typed \subseteq Jobs
    /\ Reports \subseteq Artifacts
    /\ MaxQueued \in Nat \ {0}
    /\ NoJob \notin Jobs
    /\ NoRun \notin Runs

VARIABLES
    jobState,  \* cp_jobs.state, "absent" when there is no such row
    jobRun,    \* cp_jobs.run_id
    jobOut,    \* cp_jobs.output_refs_json: the artifacts the Job published
    runState,  \* cp_runs.state, "absent" when there is no such row
    runJob,    \* cp_runs.job_id
    refState,  \* cp_artifact_refs.state, "absent" when there is no such row
    refRun,    \* cp_artifact_refs.run_id
    bodyState, \* cp_artifact_bodies.state, "absent" when there is no such row
    idem,      \* cp_idempotency_keys: the digest and Job bound to a key
    jobLog,    \* cp_events of each Job stream, in sequence order
    runLog     \* cp_events of each Run stream, in sequence order

jobVars  == <<jobState, jobRun, jobOut>>
runVars  == <<runState, runJob>>
refVars  == <<refState, refRun, bodyState>>
logVars  == <<jobLog, runLog>>
cpVars   == <<jobState, jobRun, jobOut, runState, runJob, refState, refRun,
              bodyState, idem, jobLog, runLog>>

-----------------------------------------------------------------------------
(* The state vocabulary and the three transition tables.                   *)

JobStates == {"queued", "running", "cancelling", "succeeded", "failed", "cancelled"}
RunStates == {"running", "cancelling", "succeeded", "failed", "cancelled"}
RefStates == {"staged", "committed", "tombstoned", "failed"}
Terminal  == {"succeeded", "failed", "cancelled"}
Active    == {"running", "cancelling"}

\* A lifecycle event is named by the state it enters (event_type_for_*_state);
\* Run streams also carry three events that change no Run state.
RunNotices == {"reconciled", "artifact.committed", "artifact.tombstoned"}
RunEvents == RunStates \cup RunNotices

AllowedJobTransition ==
    {<<"queued", "running">>, <<"queued", "cancelling">>, <<"queued", "failed">>,
     <<"running", "cancelling">>, <<"running", "succeeded">>, <<"running", "failed">>,
     <<"cancelling", "cancelled">>, <<"cancelling", "failed">>}

AllowedRunTransition ==
    {<<"running", "succeeded">>, <<"running", "failed">>, <<"running", "cancelling">>,
     <<"cancelling", "cancelled">>, <<"cancelling", "failed">>}

AllowedArtifactTransition ==
    {<<"staged", "committed">>, <<"staged", "failed">>, <<"committed", "tombstoned">>}

NoEntry    == [digest |-> "none", job |-> NoJob]
IdemEntry  == [digest : Digests, job : Jobs]

InState(st) == {j \in Jobs : jobState[j] = st}
RefsOf(r, st) == {a \in Artifacts : refRun[a] = r /\ refState[a] = st}

-----------------------------------------------------------------------------
Init ==
    /\ jobState  = [j \in Jobs |-> "absent"]
    /\ jobRun    = [j \in Jobs |-> NoRun]
    /\ jobOut    = [j \in Jobs |-> {}]
    /\ runState  = [r \in Runs |-> "absent"]
    /\ runJob    = [r \in Runs |-> NoJob]
    /\ refState  = [a \in Artifacts |-> "absent"]
    /\ refRun    = [a \in Artifacts |-> NoRun]
    /\ bodyState = [a \in Artifacts |-> "absent"]
    /\ idem      = [k \in Keys |-> NoEntry]
    /\ jobLog    = [j \in Jobs |-> <<>>]
    /\ runLog    = [r \in Runs |-> <<>>]

\* append_event_tx: the next sequence numbers of one stream.  The mutants lose
\* the earlier of two events, and restart the sequence of the stream.
AppendJobLastOnly(j, events) ==
    jobLog' = [jobLog EXCEPT ![j] = Append(@, events[Len(events)])]
AppendJob(j, events) == jobLog' = [jobLog EXCEPT ![j] = @ \o events]

AppendRunRestarted(r, events) == runLog' = [runLog EXCEPT ![r] = events]
AppendRun(r, events) == runLog' = [runLog EXCEPT ![r] = @ \o events]

\* The two admission checks of submit_job; the mutants look the key up under
\* another digest, and count one too many.
KeyUnusedIgnored(k) == TRUE
KeyUnused(k) == idem[k] = NoEntry

QueueHasRoomOffByOne == Cardinality(InState("queued")) <= MaxQueued
QueueHasRoom == Cardinality(InState("queued")) < MaxQueued

\* submit_job, the branch that creates a row.  The other branches write
\* nothing: a known key replays its Job (same digest) or is refused.
SubmitJob(j, k, d) ==
    /\ KeyUnused(k)
    /\ QueueHasRoom
    /\ jobState[j] = "absent"
    /\ jobState' = [jobState EXCEPT ![j] = "queued"]
    /\ idem' = [idem EXCEPT ![k] = [digest |-> d, job |-> j]]
    /\ AppendJob(j, <<"queued">>)
    /\ UNCHANGED <<jobRun, jobOut, runVars, refVars, runLog>>

\* Mutant of claim_job: the Run row copies the Job's state before the update.
ClaimJobCopiesState(j, r) ==
    /\ jobState[j] = "queued"
    /\ runState[r] = "absent"
    /\ jobState' = [jobState EXCEPT ![j] = "running"]
    /\ jobRun'   = [jobRun EXCEPT ![j] = r]
    /\ runState' = [runState EXCEPT ![r] = jobState[j]]
    /\ runJob'   = [runJob EXCEPT ![r] = j]
    /\ AppendJob(j, <<"running">>)
    /\ AppendRun(r, <<"running">>)
    /\ UNCHANGED <<jobOut, refVars, idem>>

\* Mutant: the claim trusts the state read by next_queued_job.
ClaimJobUnchecked(j, r) ==
    /\ runState[r] = "absent"
    /\ jobState' = [jobState EXCEPT ![j] = "running"]
    /\ jobRun'   = [jobRun EXCEPT ![j] = r]
    /\ runState' = [runState EXCEPT ![r] = "running"]
    /\ runJob'   = [runJob EXCEPT ![r] = j]
    /\ AppendJob(j, <<"running">>)
    /\ AppendRun(r, <<"running">>)
    /\ UNCHANGED <<jobOut, refVars, idem>>

\* claim_job: the queued -> running compare-and-set that creates the Run.
ClaimJob(j, r) ==
    /\ jobState[j] = "queued"
    /\ jobRun[j] = NoRun
    /\ runState[r] = "absent"
    /\ jobState' = [jobState EXCEPT ![j] = "running"]
    /\ jobRun'   = [jobRun EXCEPT ![j] = r]
    /\ runState' = [runState EXCEPT ![r] = "running"]
    /\ runJob'   = [runJob EXCEPT ![r] = j]
    /\ AppendJob(j, <<"running">>)
    /\ AppendRun(r, <<"running">>)
    /\ UNCHANGED <<jobOut, refVars, idem>>

\* validate_job_terminal_run: a Job ends alone only before it has a Run, and
\* otherwise only as its Run has already ended.  The mutant forgets the Run.
AnyOutcomeMatches(j, st) == TRUE
RunOutcomeMatches(j, st) ==
    \/ jobRun[j] = NoRun /\ jobState[j] = "queued"
    \/ jobRun[j] \in Runs /\ runState[jobRun[j]] = st

\* transition_job(Failed), which fail_queued_job calls with a Job record that
\* may be stale: the Job may have been claimed or cancelled since.
FailJob(j) ==
    /\ <<jobState[j], "failed">> \in AllowedJobTransition
    /\ RunOutcomeMatches(j, "failed")
    /\ jobState' = [jobState EXCEPT ![j] = "failed"]
    /\ AppendJob(j, <<"failed">>)
    /\ UNCHANGED <<jobRun, jobOut, runVars, refVars, idem, runLog>>

\* fail_corrupt_queued_job: next_queued_job met a typed row it cannot decode.
FailCorruptJob(j) ==
    /\ jobState[j] = "queued"
    /\ j \in Typed
    /\ jobState' = [jobState EXCEPT ![j] = "failed"]
    /\ AppendJob(j, <<"failed">>)
    /\ UNCHANGED <<jobRun, jobOut, runVars, refVars, idem, runLog>>

\* cancel_queued_job: queued -> cancelling -> cancelled in one transaction.
CancelQueuedJob(j) ==
    /\ jobState[j] = "queued"
    /\ jobState' = [jobState EXCEPT ![j] = "cancelled"]
    /\ AppendJob(j, <<"cancelling", "cancelled">>)
    /\ UNCHANGED <<jobRun, jobOut, runVars, refVars, idem, runLog>>

\* cancel_running_job: both rows move to cancelling together.
CancelRunningJob(j) ==
    /\ jobState[j] = "running"
    /\ jobRun[j] \in Runs
    /\ runState[jobRun[j]] = "running"
    /\ jobState' = [jobState EXCEPT ![j] = "cancelling"]
    /\ runState' = [runState EXCEPT ![jobRun[j]] = "cancelling"]
    /\ AppendJob(j, <<"cancelling">>)
    /\ AppendRun(jobRun[j], <<"cancelling">>)
    /\ UNCHANGED <<jobRun, jobOut, runJob, refVars, idem>>

\* create_artifact_ref and create_artifact_ref_with_body: only a running Run
\* stages, and the report kinds bring their body along.
StageArtifact(a, r) ==
    /\ runState[r] = "running"
    /\ refState[a] = "absent"
    /\ refState' = [refState EXCEPT ![a] = "staged"]
    /\ refRun'   = [refRun EXCEPT ![a] = r]
    /\ bodyState' = [bodyState EXCEPT ![a] = IF a \in Reports THEN "staged" ELSE @]
    /\ UNCHANGED <<jobVars, runVars, idem, logVars>>

\* The Run's staged refs and bodies move to st together
\* (commit_staged_terminal_artifacts, "fail unpublished terminal artifacts").
\* The mutant forgets the bodies.
SettleRefsOnly(refs, st) ==
    /\ refState' = [a \in Artifacts |-> IF a \in refs THEN st ELSE refState[a]]
    /\ UNCHANGED <<refRun, bodyState>>
SettleRefs(refs, st) ==
    /\ refState'  = [a \in Artifacts |-> IF a \in refs THEN st ELSE refState[a]]
    /\ bodyState' = [a \in Artifacts |->
                        IF a \in refs /\ bodyState[a] = "staged" THEN st ELSE bodyState[a]]
    /\ UNCHANGED refRun

\* Both rows of a claimed pair enter the terminal state st; the mutant is
\* transition_run, which leaves the Job to a later call.
EndRunOnly(r, st) ==
    /\ runState' = [runState EXCEPT ![r] = st]
    /\ UNCHANGED <<jobState, jobRun, runJob, idem>>
EndPair(r, st) ==
    /\ runState' = [runState EXCEPT ![r] = st]
    /\ jobState' = [jobState EXCEPT ![runJob[r]] = st]
    /\ UNCHANGED <<jobRun, runJob, idem>>

\* The compare-and-set of finish: both tables allow the target.  The mutant
\* accepts every terminal target of an active pair.
MayEndIfActive(r, st) == runState[r] \in Active
MayEnd(r, st) ==
    /\ runState[r] # "absent"
    /\ <<runState[r], st>> \in AllowedRunTransition
    /\ <<jobState[runJob[r]], st>> \in AllowedJobTransition

\* What a Run's terminal transaction settles: the refs a typed Run staged,
\* which are also the ones it lists (validate_terminal_output_set).
TerminalOutputs(r) == IF runJob[r] \in Typed THEN RefsOf(r, "staged") ELSE {}

\* finish_run_and_job_with_terminal_outputs_inner with target succeeded: each
\* output is committed and announced on the Run stream before the terminal
\* event.
SucceedRunAndJob(r) ==
    LET j == runJob[r]
        outs == TerminalOutputs(r)
        notices == [i \in 1..Cardinality(outs) |-> "artifact.committed"]
    IN  /\ MayEnd(r, "succeeded")
        /\ EndPair(r, "succeeded")
        /\ SettleRefs(outs, "committed")
        /\ jobOut' = [jobOut EXCEPT ![j] = outs]
        /\ AppendRun(r, notices \o <<"succeeded">>)
        /\ AppendJob(j, <<"succeeded">>)

\* The same call with target failed or cancelled: nothing is published, and
\* a typed Run's staged refs fail with it.
AbandonRunAndJob(r, st) ==
    LET j == runJob[r]
        refs == TerminalOutputs(r)
    IN  /\ st \in {"failed", "cancelled"}
        /\ MayEnd(r, st)
        /\ EndPair(r, st)
        /\ SettleRefs(refs, "failed")
        /\ AppendRun(r, <<st>>)
        /\ AppendJob(j, <<st>>)
        /\ UNCHANGED jobOut

\* list_reconciliation_candidates and reconcile_jobs: every listed active
\* pair is failed as worker_lost in one transaction.  The mutant takes every
\* Job with a Run for abandoned.
HasRun(j) == jobRun[j] \in Runs
Reconcilable(j) ==
    /\ jobState[j] \in Active
    /\ jobRun[j] \in Runs
    /\ runState[jobRun[j]] \in Active

ReconcileJobs(lost) ==
    LET runs == {jobRun[j] : j \in lost}
        refs == {a \in Artifacts : refRun[a] \in runs /\ refState[a] = "staged"}
    IN  /\ lost # {}
        /\ \A j \in lost : Reconcilable(j) /\ runJob[jobRun[j]] = j
        /\ jobState' = [j \in Jobs |-> IF j \in lost THEN "failed" ELSE jobState[j]]
        /\ runState' = [r \in Runs |-> IF r \in runs THEN "failed" ELSE runState[r]]
        /\ jobLog' = [j \in Jobs |-> IF j \in lost THEN Append(jobLog[j], "failed")
                                                   ELSE jobLog[j]]
        /\ runLog' = [r \in Runs |-> IF r \in runs
                                     THEN runLog[r] \o <<"reconciled", "failed">>
                                     ELSE runLog[r]]
        /\ SettleRefs(refs, "failed")
        /\ UNCHANGED <<jobRun, jobOut, runJob, idem>>

\* transition_artifact_ref(Tombstoned): retention ends a committed ref.
TombstoneArtifact(a) ==
    /\ <<refState[a], "tombstoned">> \in AllowedArtifactTransition
    /\ refState'  = [refState EXCEPT ![a] = "tombstoned"]
    /\ bodyState' = [bodyState EXCEPT ![a] = IF @ = "committed" THEN "tombstoned" ELSE @]
    /\ AppendRun(refRun[a], <<"artifact.tombstoned">>)
    /\ UNCHANGED <<jobVars, runVars, refRun, idem, jobLog>>

\* retention's tombstone_candidate: the same two updates inside the retention
\* transaction, which writes an audit entry and no Run event.
RetainArtifact(a) ==
    /\ refState[a] = "committed"
    /\ refState'  = [refState EXCEPT ![a] = "tombstoned"]
    /\ bodyState' = [bodyState EXCEPT ![a] = IF @ = "committed" THEN "tombstoned" ELSE @]
    /\ UNCHANGED <<jobVars, runVars, refRun, idem, logVars>>

\* The transactions the service issues.  Only typed Runs stage artifacts: the
\* legacy branch of execute_claimed publishes a Snapshot and nothing else.
Next ==
    \/ \E j \in Jobs, k \in Keys, d \in Digests : SubmitJob(j, k, d)
    \/ \E j \in Jobs, r \in Runs : ClaimJob(j, r)
    \/ \E j \in Jobs : FailJob(j)
    \/ \E j \in Jobs : FailCorruptJob(j)
    \/ \E j \in Jobs : CancelQueuedJob(j)
    \/ \E j \in Jobs : CancelRunningJob(j)
    \/ \E a \in Artifacts, r \in Runs : runJob[r] \in Typed /\ StageArtifact(a, r)
    \/ \E r \in Runs : SucceedRunAndJob(r)
    \/ \E r \in Runs, st \in {"failed", "cancelled"} : AbandonRunAndJob(r, st)
    \/ \E lost \in SUBSET Jobs : ReconcileJobs(lost)
    \/ \E a \in Artifacts : TombstoneArtifact(a)
    \/ \E a \in Artifacts : RetainArtifact(a)

Spec == Init /\ [][Next]_cpVars

-----------------------------------------------------------------------------
(* Properties.                                                             *)

\* Rows hold states of their own vocabulary, foreign keys name rows of the
\* right table or are NULL, and streams hold events of their kind.
TypeOK ==
    /\ jobState \in [Jobs -> JobStates \cup {"absent"}]
    /\ jobRun \in [Jobs -> Runs \cup {NoRun}]
    /\ jobOut \in [Jobs -> SUBSET Artifacts]
    /\ runState \in [Runs -> RunStates \cup {"absent"}]
    /\ runJob \in [Runs -> Jobs \cup {NoJob}]
    /\ refState \in [Artifacts -> RefStates \cup {"absent"}]
    /\ refRun \in [Artifacts -> Runs \cup {NoRun}]
    /\ bodyState \in [Artifacts -> RefStates \cup {"absent"}]
    /\ idem \in [Keys -> IdemEntry \cup {NoEntry}]
    /\ jobLog \in [Jobs -> Seq(JobStates)]
    /\ runLog \in [Runs -> Seq(RunEvents)]

\* Whatever order claims, cancellations, completions and reconciliation
\* commit in, a Job and its Run are never seen in different states, each Run
\* belongs to the one Job that names it, and only a Job that ended before it
\* was claimed has no Run (claim_job, cancel_running_job, finish, reconcile).
PairAgreement ==
    /\ \A r \in Runs : runState[r] # "absent" =>
         /\ runJob[r] \in Jobs
         /\ jobRun[runJob[r]] = r
         /\ jobState[runJob[r]] = runState[r]
    /\ \A j \in Jobs : jobRun[j] # NoRun =>
         /\ runState[jobRun[j]] # "absent"
         /\ runJob[jobRun[j]] = j
    /\ \A j \in Jobs : jobRun[j] = NoRun =>
         jobState[j] \in {"absent", "queued", "failed", "cancelled"}

\* The state of a ref follows from the state of its Run: no staged ref
\* outlives the Run, and a readable one is listed by the Run's Job.
RefsFollowRun ==
    \A a \in Artifacts : refState[a] # "absent" =>
      LET r == refRun[a] IN
      /\ r \in Runs /\ runJob[r] \in Jobs
      /\ refState[a] = "staged" => runState[r] \in Active
      /\ refState[a] = "failed" => runState[r] \in {"failed", "cancelled"}
      /\ refState[a] \in {"committed", "tombstoned"} =>
           runState[r] = "succeeded" /\ a \in jobOut[runJob[r]]

\* Only a succeeded Job lists outputs, and each was published by its own Run.
OutputsPublished ==
    \A j \in Jobs, a \in Artifacts : a \in jobOut[j] =>
      /\ jobState[j] = "succeeded"
      /\ refState[a] \in {"committed", "tombstoned"}
      /\ refRun[a] = jobRun[j]

\* A body never disagrees with its ref.
BodiesFollowRefs ==
    \A a \in Artifacts : bodyState[a] = IF a \in Reports THEN refState[a] ELSE "absent"

\* Results are all or nothing: a ref is readable only because its Run
\* succeeded and listed it, every output of a succeeded Job was published,
\* no staged ref outlives its Run, and a body never disagrees with its ref
\* (commit_staged_terminal_artifacts, the failure branch, reconcile_jobs).
OutputsAllOrNothing == RefsFollowRun /\ OutputsPublished /\ BodiesFollowRefs

\* The log of a Job in state st: it starts with queued, follows the table and
\* ends in st.
Faithful(log, st) ==
    /\ (log = <<>>) <=> (st = "absent")
    /\ log # <<>> => log[1] = "queued" /\ log[Len(log)] = st
    /\ \A i \in 1..Len(log) - 1 : <<log[i], log[i + 1]>> \in AllowedJobTransition

\* The Job stream is a faithful history: it starts with queued, each event is
\* an allowed transition from the one before, and its last event is the
\* Job's state, so a terminal Job has exactly one terminal event
\* (append_event_tx inside every transition).
JobHistory == \A j \in Jobs : Faithful(jobLog[j], jobState[j])

\* The Run stream, artifact and reconciliation notices aside, is a faithful
\* history of the Run: it begins with running, follows the Run table and ends
\* in the Run's state.
RunHistory ==
    \A r \in Runs :
      LET log == runLog[r]
          states == {i \in 1..Len(log) : log[i] \in RunStates}
      IN  /\ (log = <<>>) <=> (runState[r] = "absent")
          /\ log # <<>> => log[1] = "running"
          /\ \A i \in states :
               \/ \E k \in states :
                    /\ i < k
                    /\ <<log[i], log[k]>> \in AllowedRunTransition
                    /\ \A m \in states : m <= i \/ k <= m
               \/ log[i] = runState[r] /\ \A m \in states : m <= i

\* Every Job entered through exactly one idempotency key.
KeysIdentifyJobs ==
    /\ \A k \in Keys : idem[k] # NoEntry => jobState[idem[k].job] # "absent"
    /\ \A j \in Jobs : jobState[j] # "absent" => \E k \in Keys : idem[k].job = j
    /\ \A k, l \in Keys :
         idem[k] # NoEntry /\ idem[k].job = idem[l].job => k = l

\* The queue cap of the Workspace is never exceeded.
QueueBound == Cardinality(InState("queued")) <= MaxQueued

\* Contract section 5.3: the first terminal transition wins.  No later step,
\* reconciliation included, edits the state, Run, outputs or Job stream of a
\* terminal Job, or rebinds an idempotency key.
TerminalStable ==
    [][/\ \A j \in Jobs : jobState[j] \in Terminal =>
            /\ jobState'[j] = jobState[j]
            /\ jobRun'[j] = jobRun[j]
            /\ jobOut'[j] = jobOut[j]
            /\ jobLog'[j] = jobLog[j]
       /\ \A k \in Keys : idem[k] # NoEntry => idem'[k] = idem[k]]_cpVars

\* The control plane implements the observer's view of Jobs.
Observed == INSTANCE JobLifecycle WITH
    status   <- jobState,
    result   <- jobOut,
    readable <- {a \in Artifacts : refState[a] = "committed"}

\* Through jobState, jobOut and the committed refs an observer sees only steps
\* of JobLifecycle.
ImplementsLifecycle == Observed!LifecycleSpec
=============================================================================
