------------------------- MODULE ControlPlaneProofs -------------------------
(***************************************************************************)
(* Theorems of ControlPlane, for every set of Jobs, Runs, artifacts, keys  *)
(* and digests and every queue cap, and of the JobRuntime that drives it,  *)
(* for every number of workers, callers, permits, crashes, shutdowns and   *)
(* maintenance windows.                                                    *)
(*                                                                         *)
(* The runtime writes the control plane through its transactions only, so  *)
(* RtSpec implements ControlPlane's Spec and everything proved of the rows *)
(* holds under the runtime.  JrInv ties the rows to the tasks: a worker    *)
(* that owns a Run is the only one that does and its rows are active       *)
(* (TaskOK, OwnersApart); until a maintenance window closes the gate, a    *)
(* durable cancellation has its prompt (CancelPrompted) and an active row  *)
(* its worker (RowsKept).                                                  *)
(***************************************************************************)
EXTENDS JobRuntime, FiniteSetTheorems, SequenceTheorems, TLAPS

(* Updating one stream with well-typed events keeps all of them well-typed.  *)
LEMMA StreamType ==
    ASSUME NEW S, NEW E, NEW log \in [S -> Seq(E)], NEW x, NEW ev \in Seq(E)
    PROVE  [log EXCEPT ![x] = @ \o ev] \in [S -> Seq(E)]
<1>1. CASE x \in S
  BY <1>1
<1>2. CASE x \notin S
  BY <1>2
<1> QED
  BY <1>1, <1>2

(* The same for a set of streams at once (reconcile_jobs).                   *)
LEMMA StreamsType ==
    ASSUME NEW S, NEW E, NEW log \in [S -> Seq(E)], NEW X, NEW ev \in Seq(E)
    PROVE  [x \in S |-> IF x \in X THEN log[x] \o ev ELSE log[x]] \in [S -> Seq(E)]
OBVIOUS

(* The event drafts of the transactions are sequences over their vocabulary. *)
LEMMA DraftTypes ==
    /\ \A st \in JobStates : <<st>> \in Seq(JobStates)
    /\ \A st \in RunEvents : <<st>> \in Seq(RunEvents)
    /\ <<"cancelling", "cancelled">> \in Seq(JobStates)
    /\ <<"reconciled", "failed">> \in Seq(RunEvents)
    /\ {"queued", "running", "cancelling", "succeeded", "failed", "cancelled"} = JobStates
    /\ {"running", "cancelling", "succeeded", "failed", "cancelled"} = RunStates
    /\ RunStates \subseteq RunEvents
    /\ {"reconciled", "artifact.committed", "artifact.tombstoned"} \subseteq RunEvents
BY DEF JobStates, RunStates, RunNotices, RunEvents

(* Settling refs keeps refs and bodies well-typed.                           *)
LEMMA SettleRefsType ==
    ASSUME NEW refs, NEW st \in RefStates, TypeOK, SettleRefs(refs, st)
    PROVE  /\ refState' \in [Artifacts -> RefStates \cup {"absent"}]
           /\ bodyState' \in [Artifacts -> RefStates \cup {"absent"}]
           /\ refRun' \in [Artifacts -> Runs \cup {NoRun}]
BY DEF SettleRefs, TypeOK

(* The announcements of a successful Run are a sequence of notices.          *)
LEMMA NoticesType ==
    ASSUME NEW outs \in SUBSET Artifacts, NEW st \in RunEvents
    PROVE  [i \in 1..Cardinality(outs) |-> "artifact.committed"] \o <<st>>
              \in Seq(RunEvents)
<1>1. IsFiniteSet(outs)
  BY FS_Subset, ControlPlaneAssumption
<1>2. Cardinality(outs) \in Nat
  BY <1>1, FS_CardinalityType
<1> DEFINE notices == [i \in 1..Cardinality(outs) |-> "artifact.committed"]
<1>3. notices \in Seq(RunEvents)
  BY <1>2 DEF RunEvents, RunNotices
<1>4. <<st>> \in Seq(RunEvents)
  OBVIOUS
<1> QED
  BY <1>3, <1>4

-----------------------------------------------------------------------------
(* Every transaction keeps the rows well-typed.                              *)
LEMMA TypeInductive == TypeOK /\ [Next]_cpVars => TypeOK'
<1> SUFFICES ASSUME TypeOK, [Next]_cpVars PROVE TypeOK'
  OBVIOUS
<1> USE DEF jobVars, runVars, refVars, logVars
<1>1. ASSUME NEW j \in Jobs, NEW k \in Keys, NEW d \in Digests, SubmitJob(j, k, d)
      PROVE  TypeOK'
  <2>1. jobLog' \in [Jobs -> Seq(JobStates)]
    BY <1>1, StreamType, DraftTypes DEF SubmitJob, AppendJob, TypeOK
  <2> QED
    BY <1>1, <2>1 DEF SubmitJob, TypeOK, IdemEntry, JobStates
<1>2. ASSUME NEW j \in Jobs, NEW r \in Runs, ClaimJob(j, r) PROVE TypeOK'
  <2>1. jobLog' \in [Jobs -> Seq(JobStates)]
    BY <1>2, StreamType, DraftTypes DEF ClaimJob, AppendJob, TypeOK
  <2>2. runLog' \in [Runs -> Seq(RunEvents)]
    BY <1>2, StreamType, DraftTypes DEF ClaimJob, AppendRun, TypeOK
  <2> QED
    BY <1>2, <2>1, <2>2 DEF ClaimJob, TypeOK, JobStates, RunStates
<1>3. ASSUME NEW j \in Jobs, FailJob(j) \/ FailCorruptJob(j) PROVE TypeOK'
  <2>0. /\ AppendJob(j, <<"failed">>)
        /\ jobState' = [jobState EXCEPT ![j] = "failed"]
        /\ UNCHANGED <<jobRun, jobOut, runVars, refVars, idem, runLog>>
    BY <1>3 DEF FailJob, FailCorruptJob
  <2>1. jobLog' \in [Jobs -> Seq(JobStates)]
    BY <2>0, StreamType, DraftTypes DEF AppendJob, TypeOK
  <2> QED
    BY <2>0, <2>1 DEF TypeOK, JobStates
<1>4. ASSUME NEW j \in Jobs, CancelQueuedJob(j) PROVE TypeOK'
  <2>1. jobLog' \in [Jobs -> Seq(JobStates)]
    BY <1>4, StreamType, DraftTypes DEF CancelQueuedJob, AppendJob, TypeOK
  <2> QED
    BY <1>4, <2>1 DEF CancelQueuedJob, TypeOK, JobStates
<1>5. ASSUME NEW j \in Jobs, CancelRunningJob(j) PROVE TypeOK'
  <2>1. jobLog' \in [Jobs -> Seq(JobStates)]
    BY <1>5, StreamType, DraftTypes DEF CancelRunningJob, AppendJob, TypeOK
  <2>2. runLog' \in [Runs -> Seq(RunEvents)]
    BY <1>5, StreamType, DraftTypes DEF CancelRunningJob, AppendRun, TypeOK
  <2> QED
    BY <1>5, <2>1, <2>2 DEF CancelRunningJob, TypeOK, JobStates, RunStates
<1>6. ASSUME NEW a \in Artifacts, NEW r \in Runs, StageArtifact(a, r) PROVE TypeOK'
  BY <1>6 DEF StageArtifact, TypeOK, RefStates
<1>7. ASSUME NEW r \in Runs, SucceedRunAndJob(r) PROVE TypeOK'
  <2> DEFINE j == runJob[r]
             outs == TerminalOutputs(r)
             ev == [i \in 1..Cardinality(outs) |-> "artifact.committed"] \o <<"succeeded">>
  <2>1. outs \in SUBSET Artifacts
    BY DEF TerminalOutputs, RefsOf
  <2>2. ev \in Seq(RunEvents)
    BY <2>1, NoticesType, DraftTypes
  <2>3. /\ EndPair(r, "succeeded")
        /\ SettleRefs(outs, "committed")
        /\ jobOut' = [jobOut EXCEPT ![j] = outs]
        /\ AppendRun(r, ev)
        /\ AppendJob(j, <<"succeeded">>)
    BY <1>7 DEF SucceedRunAndJob
  <2> HIDE DEF outs, j, ev
  <2>4. runLog' \in [Runs -> Seq(RunEvents)]
    BY <2>2, <2>3, StreamType DEF AppendRun, TypeOK
  <2>5. jobLog' \in [Jobs -> Seq(JobStates)]
    BY <2>3, StreamType, DraftTypes DEF AppendJob, TypeOK
  <2>6. jobOut' \in [Jobs -> SUBSET Artifacts]
    BY <2>1, <2>3 DEF TypeOK
  <2> QED
    BY <2>3, <2>4, <2>5, <2>6, SettleRefsType DEF TypeOK, EndPair, JobStates, RunStates, RefStates
<1>8. ASSUME NEW r \in Runs, NEW st \in {"failed", "cancelled"}, AbandonRunAndJob(r, st)
      PROVE  TypeOK'
  <2>1. runLog' \in [Runs -> Seq(RunEvents)]
    BY <1>8, StreamType, DraftTypes DEF AbandonRunAndJob, AppendRun, TypeOK
  <2>2. jobLog' \in [Jobs -> Seq(JobStates)]
    BY <1>8, StreamType, DraftTypes DEF AbandonRunAndJob, AppendJob, TypeOK
  <2> QED
    BY <1>8, <2>1, <2>2, SettleRefsType
    DEF AbandonRunAndJob, EndPair, TypeOK, JobStates, RunStates, RefStates
<1>9. ASSUME NEW lost \in SUBSET Jobs, ReconcileJobs(lost) PROVE TypeOK'
  <2> DEFINE runs == {jobRun[j] : j \in lost}
  <2>1. runLog' \in [Runs -> Seq(RunEvents)]
    <3>1. runLog' = [r \in Runs |-> IF r \in runs
                                    THEN runLog[r] \o <<"reconciled", "failed">>
                                    ELSE runLog[r]]
      BY <1>9 DEF ReconcileJobs
    <3> HIDE DEF runs
    <3> QED
      BY <3>1, StreamsType, DraftTypes DEF TypeOK
  <2>2. jobLog' \in [Jobs -> Seq(JobStates)]
    BY <1>9 DEF ReconcileJobs, TypeOK, JobStates
  <2> QED
    BY <1>9, <2>1, <2>2, SettleRefsType DEF ReconcileJobs, TypeOK, JobStates, RunStates, RefStates
<1>10. ASSUME NEW a \in Artifacts, TombstoneArtifact(a) PROVE TypeOK'
  <2>1. runLog' \in [Runs -> Seq(RunEvents)]
    BY <1>10, StreamType, DraftTypes DEF TombstoneArtifact, AppendRun, TypeOK
  <2> QED
    BY <1>10, <2>1 DEF TombstoneArtifact, TypeOK, RefStates
<1>11. ASSUME NEW a \in Artifacts, RetainArtifact(a) PROVE TypeOK'
  BY <1>11 DEF RetainArtifact, TypeOK, RefStates
<1>12. CASE UNCHANGED cpVars
  BY <1>12 DEF cpVars, TypeOK
<1> QED
  BY <1>1, <1>2, <1>3, <1>4, <1>5, <1>6, <1>7, <1>8, <1>9, <1>10, <1>11, <1>12 DEF Next

(* Every reachable state of the control plane is well-typed: each row holds  *)
(* a state of its own vocabulary, foreign keys name rows of the right table  *)
(* or are NULL, and the event streams hold events of their own stream kind.  *)
THEOREM TypeCorrect == Spec => []TypeOK
<1>1. Init => TypeOK
  BY DEF Init, TypeOK
<1> QED
  BY <1>1, TypeInductive, PTL DEF Spec

-----------------------------------------------------------------------------
(* A Job that fails by itself is still queued: a claimed Job may fail alone  *)
(* only once its Run has failed, and then it has failed as well.             *)
LEMMA FailsAloneOnlyQueued ==
    ASSUME TypeOK, PairAgreement, NEW j \in Jobs, FailJob(j) \/ FailCorruptJob(j)
    PROVE  /\ jobState[j] = "queued"
           /\ jobState' = [jobState EXCEPT ![j] = "failed"]
           /\ jobLog' = [jobLog EXCEPT ![j] = @ \o <<"failed">>]
           /\ UNCHANGED <<jobRun, jobOut, runVars, refVars, idem>>
<1>1. CASE FailCorruptJob(j)
  BY <1>1 DEF FailCorruptJob, AppendJob
<1>2. CASE FailJob(j)
  <2>1. RunOutcomeMatches(j, "failed") /\ jobState[j] # "failed"
    BY <1>2 DEF FailJob, AllowedJobTransition
  <2>2. ASSUME jobRun[j] \in Runs PROVE jobState[j] = runState[jobRun[j]]
    <3>1. runState[jobRun[j]] # "absent" /\ runJob[jobRun[j]] = j
      BY <2>2, ControlPlaneAssumption DEF PairAgreement
    <3> QED
      BY <2>2, <3>1 DEF PairAgreement
  <2>3. jobState[j] = "queued"
    BY <2>1, <2>2 DEF RunOutcomeMatches
  <2> QED
    BY <1>2, <2>3 DEF FailJob, AppendJob
<1> QED
  BY <1>1, <1>2

(* PairAgreement is inductive relative to TypeOK.                            *)
LEMMA PairInductive ==
    ASSUME TypeOK, PairAgreement, [Next]_cpVars
    PROVE  PairAgreement'
<1> USE ControlPlaneAssumption DEF jobVars, runVars, refVars, logVars
<1>0. ASSUME NEW j \in Jobs, jobState[j] = "queued"
      PROVE  /\ jobRun[j] = NoRun
             /\ \A r \in Runs : runState[r] # "absent" => runJob[r] # j
  <2>1. \A r \in Runs : runState[r] # "queued"
    BY DEF TypeOK, RunStates
  <2>2. \A r \in Runs : runState[r] # "absent" => runJob[r] # j
    BY <1>0, <2>1 DEF PairAgreement
  <2>3. jobRun[j] \in Runs \cup {NoRun}
    BY DEF TypeOK
  <2> QED
    BY <2>2, <2>3 DEF PairAgreement
<1>1. ASSUME NEW j \in Jobs, NEW k \in Keys, NEW d \in Digests, SubmitJob(j, k, d)
      PROVE  PairAgreement'
  BY <1>1 DEF SubmitJob, PairAgreement, TypeOK, RunStates
<1>2. ASSUME NEW j \in Jobs, NEW r \in Runs, ClaimJob(j, r) PROVE PairAgreement'
  BY <1>2 DEF ClaimJob, PairAgreement, TypeOK
<1>3. ASSUME NEW j \in Jobs, FailJob(j) \/ FailCorruptJob(j) PROVE PairAgreement'
  <2>1. /\ jobState[j] = "queued" /\ jobState' = [jobState EXCEPT ![j] = "failed"]
        /\ UNCHANGED <<jobRun, runVars>>
    BY <1>3, FailsAloneOnlyQueued
  <2> QED
    BY <1>0, <2>1 DEF PairAgreement, TypeOK
<1>4. ASSUME NEW j \in Jobs, CancelQueuedJob(j) PROVE PairAgreement'
  BY <1>0, <1>4 DEF CancelQueuedJob, PairAgreement, TypeOK
<1>5. ASSUME NEW j \in Jobs, CancelRunningJob(j) PROVE PairAgreement'
  BY <1>5 DEF CancelRunningJob, PairAgreement, TypeOK
<1>6. ASSUME NEW a \in Artifacts, NEW r \in Runs, StageArtifact(a, r) PROVE PairAgreement'
  BY <1>6 DEF StageArtifact, PairAgreement
<1>7. ASSUME NEW r \in Runs, NEW st \in Terminal, MayEnd(r, st), EndPair(r, st)
      PROVE  PairAgreement'
  BY <1>7 DEF MayEnd, EndPair, PairAgreement, TypeOK, Terminal
<1>8. ASSUME NEW lost \in SUBSET Jobs, ReconcileJobs(lost) PROVE PairAgreement'
  <2>1. \A j \in Jobs : jobState'[j] = IF j \in lost THEN "failed" ELSE jobState[j]
    BY <1>8 DEF ReconcileJobs
  <2>2. \A r \in Runs : runState'[r] =
           IF \E j \in lost : jobRun[j] = r THEN "failed" ELSE runState[r]
    BY <1>8 DEF ReconcileJobs
  <2>3. /\ jobRun' = jobRun /\ runJob' = runJob
        /\ \A j \in lost : jobRun[j] \in Runs /\ runJob[jobRun[j]] = j
    BY <1>8 DEF ReconcileJobs, Reconcilable
  <2> QED
    BY <2>1, <2>2, <2>3 DEF PairAgreement, TypeOK
<1>9. ASSUME NEW a \in Artifacts, TombstoneArtifact(a) \/ RetainArtifact(a)
      PROVE  PairAgreement'
  BY <1>9 DEF TombstoneArtifact, RetainArtifact, PairAgreement
<1>10. CASE UNCHANGED cpVars
  BY <1>10 DEF cpVars, PairAgreement
<1>11. ASSUME NEW r \in Runs, SucceedRunAndJob(r) PROVE PairAgreement'
  BY <1>7, <1>11 DEF SucceedRunAndJob, Terminal
<1>12. ASSUME NEW r \in Runs, NEW st \in {"failed", "cancelled"}, AbandonRunAndJob(r, st)
       PROVE  PairAgreement'
  BY <1>7, <1>12 DEF AbandonRunAndJob, Terminal
<1> QED
  BY <1>1, <1>2, <1>3, <1>4, <1>5, <1>6, <1>8, <1>9, <1>10, <1>11, <1>12 DEF Next

(* For any number of Jobs, Runs and workers, a Job and its Run always agree. *)
THEOREM PairsAgree == Spec => []PairAgreement
<1>1. Init => PairAgreement
  BY DEF Init, PairAgreement
<1>2. TypeOK /\ PairAgreement /\ [Next]_cpVars => PairAgreement'
  BY PairInductive
<1> QED
  BY <1>1, <1>2, TypeCorrect, PTL DEF Spec

-----------------------------------------------------------------------------
(* A pair that may end is one active Job and its own Run.                    *)
LEMMA EndingPair ==
    ASSUME TypeOK, PairAgreement, NEW r \in Runs, NEW st \in Terminal, MayEnd(r, st)
    PROVE  /\ runJob[r] \in Jobs
           /\ jobRun[runJob[r]] = r
           /\ runState[r] \in Active
           /\ jobState[runJob[r]] = runState[r]
           /\ st = "succeeded" => runState[r] = "running"
           /\ st = "cancelled" => runState[r] = "cancelling"
BY DEF MayEnd, PairAgreement, TypeOK, AllowedRunTransition, Terminal, Active

(* The strengthening OutputsAllOrNothing needs: only typed Runs have refs,   *)
(* so the terminal transaction of a Run settles every ref it staged.         *)
RefsAreTyped ==
    \A a \in Artifacts : refState[a] # "absent" => runJob[refRun[a]] \in Typed

(* The Run a ref names exists.                                               *)
LEMMA OwnersExist ==
    ASSUME TypeOK, RefsFollowRun, NEW a \in Artifacts, refState[a] # "absent"
    PROVE  refRun[a] \in Runs /\ runState[refRun[a]] # "absent"
<1>1. refState[a] \in {"staged", "committed", "tombstoned", "failed"}
  BY DEF TypeOK, RefStates
<1> QED
  BY <1>1 DEF RefsFollowRun, Active

(* Only Runs of typed Jobs own artifacts.                                    *)
LEMMA TypedInductive ==
    ASSUME TypeOK, RefsFollowRun, RefsAreTyped, [Next]_cpVars
    PROVE  RefsAreTyped'
<1> USE ControlPlaneAssumption DEF jobVars, runVars, refVars, logVars
<1>1. ASSUME NEW j \in Jobs, NEW r \in Runs, ClaimJob(j, r) PROVE RefsAreTyped'
  <2>1. \A a \in Artifacts : refState[a] # "absent" => refRun[a] # r
    BY <1>1, OwnersExist DEF ClaimJob
  <2> QED
    BY <1>1, <2>1 DEF ClaimJob, RefsAreTyped, TypeOK
<1>2. ASSUME NEW a \in Artifacts, NEW r \in Runs, runJob[r] \in Typed, StageArtifact(a, r)
      PROVE  RefsAreTyped'
  BY <1>2 DEF StageArtifact, RefsAreTyped, TypeOK
<1>3. ASSUME NEW refs, NEW st, SettleRefs(refs, st), UNCHANGED runJob,
             \A a \in refs : refState[a] = "staged"
      PROVE  RefsAreTyped'
  BY <1>3 DEF SettleRefs, RefsAreTyped
<1>4. ASSUME UNCHANGED <<refState, refRun, runJob>> PROVE RefsAreTyped'
  BY <1>4 DEF RefsAreTyped
<1>5. ASSUME NEW j \in Jobs, NEW k \in Keys, NEW d \in Digests, SubmitJob(j, k, d)
      PROVE  RefsAreTyped'
  BY <1>4, <1>5 DEF SubmitJob
<1>6. ASSUME NEW j \in Jobs,
             FailJob(j) \/ FailCorruptJob(j) \/ CancelQueuedJob(j) \/ CancelRunningJob(j)
      PROVE  RefsAreTyped'
  BY <1>4, <1>6 DEF FailJob, FailCorruptJob, CancelQueuedJob, CancelRunningJob
<1>7. ASSUME NEW r \in Runs, SucceedRunAndJob(r) PROVE RefsAreTyped'
  BY <1>3, <1>7 DEF SucceedRunAndJob, EndPair, TerminalOutputs, RefsOf
<1>8. ASSUME NEW r \in Runs, NEW st \in {"failed", "cancelled"}, AbandonRunAndJob(r, st)
      PROVE  RefsAreTyped'
  BY <1>3, <1>8 DEF AbandonRunAndJob, EndPair, TerminalOutputs, RefsOf
<1>9. ASSUME NEW lost \in SUBSET Jobs, ReconcileJobs(lost) PROVE RefsAreTyped'
  BY <1>3, <1>9 DEF ReconcileJobs
<1>10. ASSUME NEW a \in Artifacts, TombstoneArtifact(a) \/ RetainArtifact(a)
       PROVE  RefsAreTyped'
  <2>1. /\ refState' = [refState EXCEPT ![a] = "tombstoned"]
        /\ refState[a] = "committed"
        /\ UNCHANGED <<refRun, runJob>>
    BY <1>10 DEF TombstoneArtifact, RetainArtifact, AllowedArtifactTransition
  <2> QED
    BY <2>1 DEF RefsAreTyped, TypeOK
<1>11. CASE UNCHANGED cpVars
  BY <1>4, <1>11 DEF cpVars
<1> QED
  BY <1>1, <1>2, <1>5, <1>6, <1>7, <1>8, <1>9, <1>10, <1>11 DEF Next

(* OutputsAllOrNothing is inductive relative to TypeOK, PairAgreement and    *)
(* RefsAreTyped.                                                             *)
LEMMA OutputsInductive ==
    ASSUME TypeOK, PairAgreement, RefsAreTyped, OutputsAllOrNothing, [Next]_cpVars
    PROVE  OutputsAllOrNothing'
<1> USE ControlPlaneAssumption DEF jobVars, runVars, refVars, logVars, OutputsAllOrNothing
\* A step that touches no ref, and keeps every Run that has refs and every Job
\* that has outputs in the same class.
<1>0. ASSUME UNCHANGED <<refVars, jobOut>>,
             \A r \in Runs : runState[r] # "absent" =>
               /\ runJob'[r] = runJob[r]
               /\ runState'[r] = runState[r] \/ (runState[r] \in Active /\ runState'[r] \in Active),
             \A j \in Jobs : jobState[j] = "succeeded" =>
               jobState'[j] = "succeeded" /\ jobRun'[j] = jobRun[j]
      PROVE  OutputsAllOrNothing'
  <2>1. RefsFollowRun'
    <3> SUFFICES ASSUME NEW a \in Artifacts, refState[a] # "absent"
                 PROVE  LET r == refRun[a] IN
                        /\ r \in Runs /\ runJob'[r] \in Jobs
                        /\ refState[a] = "staged" => runState'[r] \in Active
                        /\ refState[a] = "failed" => runState'[r] \in {"failed", "cancelled"}
                        /\ refState[a] \in {"committed", "tombstoned"} =>
                             runState'[r] = "succeeded" /\ a \in jobOut[runJob'[r]]
      BY <1>0 DEF RefsFollowRun
    <3>1. refRun[a] \in Runs /\ runState[refRun[a]] # "absent"
      BY OwnersExist
    <3> QED
      BY <1>0, <3>1 DEF RefsFollowRun, Active
  <2>2. OutputsPublished'
    BY <1>0 DEF OutputsPublished
  <2> QED
    BY <1>0, <2>1, <2>2 DEF BodiesFollowRefs
<1>1. ASSUME NEW j \in Jobs, NEW k \in Keys, NEW d \in Digests, SubmitJob(j, k, d)
      PROVE  OutputsAllOrNothing'
  BY <1>0, <1>1 DEF SubmitJob, TypeOK
<1>2. ASSUME NEW j \in Jobs, NEW r \in Runs, ClaimJob(j, r) PROVE OutputsAllOrNothing'
  BY <1>0, <1>2 DEF ClaimJob, TypeOK
<1>3. ASSUME NEW j \in Jobs, FailJob(j) \/ FailCorruptJob(j) PROVE OutputsAllOrNothing'
  BY <1>0, <1>3, FailsAloneOnlyQueued DEF TypeOK
<1>4. ASSUME NEW j \in Jobs, CancelQueuedJob(j) PROVE OutputsAllOrNothing'
  BY <1>0, <1>4 DEF CancelQueuedJob, TypeOK
<1>5. ASSUME NEW j \in Jobs, CancelRunningJob(j) PROVE OutputsAllOrNothing'
  BY <1>0, <1>5 DEF CancelRunningJob, TypeOK, Active
<1>6. ASSUME NEW a \in Artifacts, NEW r \in Runs, StageArtifact(a, r)
      PROVE  OutputsAllOrNothing'
  <2>1. runJob[r] \in Jobs
    BY <1>6 DEF StageArtifact, PairAgreement
  <2>2. RefsFollowRun'
    BY <1>6, <2>1 DEF StageArtifact, RefsFollowRun, TypeOK, Active
  <2>3. OutputsPublished'
    BY <1>6 DEF StageArtifact, OutputsPublished, TypeOK
  <2>4. BodiesFollowRefs'
    BY <1>6 DEF StageArtifact, BodiesFollowRefs, TypeOK
  <2> QED
    BY <2>2, <2>3, <2>4
\* Staged refs settle together with their bodies.
<1>7. ASSUME NEW refs, NEW st \in {"committed", "failed"}, SettleRefs(refs, st),
             \A a \in refs : refState[a] = "staged"
      PROVE  BodiesFollowRefs'
  BY <1>7 DEF SettleRefs, BodiesFollowRefs, TypeOK
<1>8. ASSUME NEW r \in Runs, NEW st \in Terminal, MayEnd(r, st)
      PROVE  /\ runJob[r] \in Jobs /\ jobOut[runJob[r]] = {}
             /\ \A a \in Artifacts :
                  refRun[a] = r => refState[a] \in {"absent", "staged"}
             /\ TerminalOutputs(r) = RefsOf(r, "staged")
  <2>1. /\ runJob[r] \in Jobs /\ runState[r] \in Active
        /\ jobState[runJob[r]] = runState[r]
    BY <1>8, EndingPair
  <2>2. jobOut[runJob[r]] = {}
    <3>1. \A a \in Artifacts : a \notin jobOut[runJob[r]]
      BY <2>1 DEF OutputsPublished, Active
    <3> QED
      BY <2>1, <3>1 DEF TypeOK
  <2>3. \A a \in Artifacts : refRun[a] = r => refState[a] \in {"absent", "staged"}
    <3>1. \A a \in Artifacts :
            refState[a] \in {"absent", "staged", "failed", "committed", "tombstoned"}
      BY DEF TypeOK, RefStates
    <3> QED
      BY <2>1, <3>1 DEF RefsFollowRun, Active
  <2>4. TerminalOutputs(r) = RefsOf(r, "staged")
    BY DEF TerminalOutputs, RefsOf, RefsAreTyped
  <2> QED
    BY <2>1, <2>2, <2>3, <2>4
<1>9. ASSUME NEW r \in Runs, SucceedRunAndJob(r) PROVE OutputsAllOrNothing'
  <2> DEFINE j == runJob[r]
             outs == RefsOf(r, "staged")
  <2>1. MayEnd(r, "succeeded") /\ EndPair(r, "succeeded")
    BY <1>9 DEF SucceedRunAndJob
  <2>2. /\ j \in Jobs /\ jobOut[j] = {} /\ TerminalOutputs(r) = outs
        /\ \A a \in Artifacts : refRun[a] = r => refState[a] \in {"absent", "staged"}
    BY <1>8, <2>1 DEF Terminal
  <2>3. SettleRefs(outs, "committed") /\ jobOut' = [jobOut EXCEPT ![j] = outs]
    BY <1>9, <2>2 DEF SucceedRunAndJob
  <2>4. jobRun[j] = r
    BY <2>1, EndingPair DEF Terminal
  <2>5. outs \subseteq Artifacts /\ \A a \in outs : refState[a] = "staged" /\ refRun[a] = r
    BY DEF RefsOf
  <2>6. \A a \in Artifacts : refRun[a] = r /\ refState[a] # "absent" => a \in outs
    BY <2>2 DEF RefsOf
  <2> HIDE DEF outs
  <2>7. RefsFollowRun'
    <3> SUFFICES ASSUME NEW a \in Artifacts, refState'[a] # "absent"
                 PROVE  LET q == refRun[a] IN
                        /\ q \in Runs /\ runJob[q] \in Jobs
                        /\ refState'[a] = "staged" => runState'[q] \in Active
                        /\ refState'[a] = "failed" => runState'[q] \in {"failed", "cancelled"}
                        /\ refState'[a] \in {"committed", "tombstoned"} =>
                             runState'[q] = "succeeded" /\ a \in jobOut'[runJob[q]]
      BY <2>1, <2>3 DEF RefsFollowRun, EndPair, SettleRefs
    <3>1. CASE a \in outs
      BY <2>1, <2>2, <2>3, <2>5, <3>1 DEF EndPair, SettleRefs, TypeOK
    <3>2. CASE a \notin outs
      <4>1. refState'[a] = refState[a] /\ refRun[a] # r
        BY <2>3, <2>6, <3>2 DEF SettleRefs
      <4>2. refRun[a] \in Runs /\ runState'[refRun[a]] = runState[refRun[a]]
        BY <2>1, <4>1, OwnersExist DEF EndPair, TypeOK
      <4>3. runState[refRun[a]] = "succeeded" => runJob[refRun[a]] # j
        BY <2>1, <2>4, <4>1, <4>2 DEF PairAgreement
      <4> QED
        BY <2>3, <4>1, <4>2, <4>3 DEF RefsFollowRun, TypeOK
    <3> QED
      BY <3>1, <3>2
  <2>8. OutputsPublished'
    <3> SUFFICES ASSUME NEW i \in Jobs, NEW a \in Artifacts, a \in jobOut'[i]
                 PROVE  /\ jobState'[i] = "succeeded"
                        /\ refState'[a] \in {"committed", "tombstoned"}
                        /\ refRun[a] = jobRun[i]
      BY <2>1, <2>3 DEF OutputsPublished, EndPair, SettleRefs
    <3>1. CASE i = j
      BY <2>1, <2>3, <2>4, <2>5, <3>1 DEF EndPair, SettleRefs, TypeOK
    <3>2. CASE i # j
      BY <2>1, <2>3, <2>5, <3>2 DEF OutputsPublished, EndPair, SettleRefs, TypeOK
    <3> QED
      BY <3>1, <3>2
  <2> QED
    BY <1>7, <2>3, <2>5, <2>7, <2>8
\* The Runs in `ended` fail or are cancelled with all the refs they staged.
<1>10. ASSUME NEW ended \in SUBSET Runs, NEW st \in {"failed", "cancelled"}, NEW refs,
              refs = {a \in Artifacts : refRun[a] \in ended /\ refState[a] = "staged"},
              SettleRefs(refs, "failed"), UNCHANGED <<runJob, jobRun, jobOut>>,
              \A r \in ended : runState[r] \in Active,
              \A r \in Runs : runState'[r] = IF r \in ended THEN st ELSE runState[r],
              \A j \in Jobs : jobState[j] = "succeeded" => jobState'[j] = "succeeded"
       PROVE  OutputsAllOrNothing'
  <2>1. \A a \in refs : a \in Artifacts /\ refState[a] = "staged" /\ refRun[a] \in ended
    BY <1>10
  <2>2. \A a \in Artifacts : refState[a] = "staged" /\ refRun[a] \in ended => a \in refs
    BY <1>10
  <2>3. RefsFollowRun'
    <3> SUFFICES ASSUME NEW a \in Artifacts, refState'[a] # "absent"
                 PROVE  LET r == refRun[a] IN
                        /\ r \in Runs /\ runJob[r] \in Jobs
                        /\ refState'[a] = "staged" => runState'[r] \in Active
                        /\ refState'[a] = "failed" => runState'[r] \in {"failed", "cancelled"}
                        /\ refState'[a] \in {"committed", "tombstoned"} =>
                             runState'[r] = "succeeded" /\ a \in jobOut[runJob[r]]
      BY <1>10 DEF RefsFollowRun, SettleRefs
    <3>1. CASE a \in refs
      BY <1>10, <2>1, <3>1 DEF RefsFollowRun, SettleRefs
    <3>2. CASE a \notin refs
      <4>1. refState'[a] = refState[a]
        BY <1>10, <3>2 DEF SettleRefs
      <4>2. refRun[a] \in Runs
        BY <4>1, OwnersExist
      <4>3. CASE refRun[a] \in ended
        <5>1. refState[a] \in {"staged", "failed", "committed", "tombstoned"}
          BY <4>1 DEF TypeOK, RefStates
        <5> QED
          BY <1>10, <2>2, <3>2, <4>1, <4>3, <5>1 DEF RefsFollowRun, Active
      <4>4. CASE refRun[a] \notin ended
        BY <1>10, <4>1, <4>2, <4>4 DEF RefsFollowRun
      <4> QED
        BY <4>3, <4>4
    <3> QED
      BY <3>1, <3>2
  <2>4. OutputsPublished'
    BY <1>10, <2>1 DEF OutputsPublished, SettleRefs
  <2> QED
    BY <1>7, <1>10, <2>1, <2>3, <2>4
<1>11. ASSUME NEW r \in Runs, NEW st \in {"failed", "cancelled"}, AbandonRunAndJob(r, st)
       PROVE  OutputsAllOrNothing'
  <2> DEFINE ended == {r}
             refs == {a \in Artifacts : refRun[a] \in ended /\ refState[a] = "staged"}
  <2>1. MayEnd(r, st) /\ EndPair(r, st) /\ SettleRefs(TerminalOutputs(r), "failed")
        /\ UNCHANGED jobOut
    BY <1>11 DEF AbandonRunAndJob
  <2>2. TerminalOutputs(r) = refs
    BY <1>8, <2>1 DEF RefsOf, Terminal
  <2>3. runState[r] \in Active /\ jobState[runJob[r]] = runState[r] /\ runJob[r] \in Jobs
    BY <2>1, EndingPair DEF Terminal
  <2>4. /\ \A q \in Runs : runState'[q] = IF q \in ended THEN st ELSE runState[q]
        /\ \A j \in Jobs : jobState[j] = "succeeded" => jobState'[j] = "succeeded"
    BY <2>1, <2>3 DEF EndPair, TypeOK, Active
  <2>5. ended \in SUBSET Runs /\ \A q \in ended : runState[q] \in Active
    BY <2>3
  <2>6. UNCHANGED <<runJob, jobRun, jobOut>>
    BY <2>1 DEF EndPair
  <2>7. SettleRefs(refs, "failed")
    BY <2>1, <2>2
  <2> HIDE DEF ended
  <2> QED
    BY <1>10, <2>4, <2>5, <2>6, <2>7
<1>12. ASSUME NEW lost \in SUBSET Jobs, ReconcileJobs(lost) PROVE OutputsAllOrNothing'
  <2> DEFINE runs == {jobRun[j] : j \in lost}
             refs == {a \in Artifacts : refRun[a] \in runs /\ refState[a] = "staged"}
  <2>1. /\ SettleRefs(refs, "failed") /\ UNCHANGED <<runJob, jobRun, jobOut>>
        /\ \A r \in Runs : runState'[r] = IF r \in runs THEN "failed" ELSE runState[r]
        /\ \A j \in Jobs : jobState'[j] = IF j \in lost THEN "failed" ELSE jobState[j]
        /\ \A j \in lost : Reconcilable(j)
    BY <1>12 DEF ReconcileJobs
  <2>2. runs \in SUBSET Runs /\ \A r \in runs : runState[r] \in Active
    BY <2>1 DEF Reconcilable
  <2>3. \A j \in Jobs : jobState[j] = "succeeded" => jobState'[j] = "succeeded"
    BY <2>1 DEF Reconcilable, Active
  <2> HIDE DEF runs
  <2> QED
    BY <1>10, <2>1, <2>2, <2>3
<1>13. ASSUME NEW a \in Artifacts, TombstoneArtifact(a) \/ RetainArtifact(a)
       PROVE  OutputsAllOrNothing'
  <2>1. /\ refState[a] = "committed"
        /\ refState'  = [refState EXCEPT ![a] = "tombstoned"]
        /\ bodyState' = [bodyState EXCEPT ![a] = IF @ = "committed" THEN "tombstoned" ELSE @]
        /\ UNCHANGED <<jobVars, runVars, refRun>>
    BY <1>13 DEF TombstoneArtifact, RetainArtifact, AllowedArtifactTransition
  <2>2. RefsFollowRun'
    BY <2>1 DEF RefsFollowRun, TypeOK
  <2>3. OutputsPublished'
    BY <2>1 DEF OutputsPublished, TypeOK
  <2>4. BodiesFollowRefs'
    BY <2>1 DEF BodiesFollowRefs, TypeOK
  <2> QED
    BY <2>2, <2>3, <2>4
<1>14. CASE UNCHANGED cpVars
  BY <1>14 DEF cpVars, RefsFollowRun, OutputsPublished, BodiesFollowRefs
<1> QED
  BY <1>1, <1>2, <1>3, <1>4, <1>5, <1>6, <1>9, <1>11, <1>12, <1>13, <1>14 DEF Next

(* For any number of Jobs, Runs and artifacts, and in whatever order the     *)
(* terminal transactions, reconciliation and retention commit, a Job's       *)
(* results are readable together or not at all.                              *)
THEOREM OutputsWhole == Spec => []OutputsAllOrNothing
<1>1. Init => OutputsAllOrNothing /\ RefsAreTyped
  BY DEF Init, OutputsAllOrNothing, RefsFollowRun, OutputsPublished, BodiesFollowRefs,
         RefsAreTyped
<1>2. TypeOK /\ PairAgreement /\ (OutputsAllOrNothing /\ RefsAreTyped) /\ [Next]_cpVars
        => (OutputsAllOrNothing /\ RefsAreTyped)'
  BY OutputsInductive, TypedInductive DEF OutputsAllOrNothing
<1> QED
  BY <1>1, <1>2, TypeCorrect, PairsAgree, PTL DEF Spec

-----------------------------------------------------------------------------
(* What no step may do to a terminal Job or to a bound key.                  *)
KeepsTerminal ==
    /\ \A j \in Jobs : jobState[j] \in Terminal =>
         /\ jobState'[j] = jobState[j]
         /\ jobRun'[j] = jobRun[j]
         /\ jobOut'[j] = jobOut[j]
         /\ jobLog'[j] = jobLog[j]
    /\ \A k \in Keys : idem[k] # NoEntry => idem'[k] = idem[k]

(* No transaction touches a terminal Job, because each one that changes a     *)
(* Job starts from a Job that is absent, queued or active.                   *)
LEMMA StepKeepsTerminal ==
    ASSUME TypeOK, PairAgreement, [Next]_cpVars
    PROVE  KeepsTerminal
<1> USE ControlPlaneAssumption DEF jobVars, runVars, refVars, logVars
<1>1. ASSUME NEW j \in Jobs, NEW k \in Keys, NEW d \in Digests, SubmitJob(j, k, d)
      PROVE  KeepsTerminal
  BY <1>1 DEF SubmitJob, KeyUnused, AppendJob, KeepsTerminal, Terminal, TypeOK
<1>2. ASSUME NEW j \in Jobs, NEW r \in Runs, ClaimJob(j, r) PROVE KeepsTerminal
  BY <1>2 DEF ClaimJob, AppendJob, KeepsTerminal, Terminal, TypeOK
<1>3. ASSUME NEW j \in Jobs, FailJob(j) \/ FailCorruptJob(j) PROVE KeepsTerminal
  BY <1>3, FailsAloneOnlyQueued DEF KeepsTerminal, Terminal, TypeOK
<1>4. ASSUME NEW j \in Jobs, CancelQueuedJob(j) \/ CancelRunningJob(j) PROVE KeepsTerminal
  BY <1>4 DEF CancelQueuedJob, CancelRunningJob, AppendJob, KeepsTerminal, Terminal, TypeOK
\* The terminal transaction touches only the Job of the pair, which is active.
<1>5. ASSUME NEW r \in Runs, NEW st \in Terminal, NEW outs, NEW ev,
             MayEnd(r, st), EndPair(r, st), AppendJob(runJob[r], ev),
             jobOut' = jobOut \/ jobOut' = [jobOut EXCEPT ![runJob[r]] = outs]
      PROVE  KeepsTerminal
  <2>1. jobState[runJob[r]] \notin Terminal
    BY <1>5, EndingPair DEF Active, Terminal
  <2> QED
    BY <1>5, <2>1 DEF EndPair, AppendJob, KeepsTerminal, TypeOK
<1>6. ASSUME NEW r \in Runs, SucceedRunAndJob(r) PROVE KeepsTerminal
  BY <1>5, <1>6 DEF SucceedRunAndJob, Terminal
<1>7. ASSUME NEW r \in Runs, NEW st \in {"failed", "cancelled"}, AbandonRunAndJob(r, st)
      PROVE  KeepsTerminal
  BY <1>5, <1>7 DEF AbandonRunAndJob, Terminal
<1>8. ASSUME NEW lost \in SUBSET Jobs, ReconcileJobs(lost) PROVE KeepsTerminal
  BY <1>8 DEF ReconcileJobs, Reconcilable, KeepsTerminal, Active, Terminal
<1>9. ASSUME UNCHANGED <<jobVars, idem, jobLog>> PROVE KeepsTerminal
  BY <1>9 DEF KeepsTerminal
<1>10. ASSUME NEW a \in Artifacts, NEW r \in Runs, StageArtifact(a, r) PROVE KeepsTerminal
  BY <1>9, <1>10 DEF StageArtifact
<1>11. ASSUME NEW a \in Artifacts, TombstoneArtifact(a) \/ RetainArtifact(a)
       PROVE  KeepsTerminal
  BY <1>9, <1>11 DEF TombstoneArtifact, RetainArtifact
<1>12. CASE UNCHANGED cpVars
  BY <1>9, <1>12 DEF cpVars
<1> QED
  BY <1>1, <1>2, <1>3, <1>4, <1>6, <1>7, <1>8, <1>10, <1>11, <1>12 DEF Next

(* The first terminal transition wins, whoever races for it: afterwards no   *)
(* transaction edits the Job, and no submission rebinds a key.               *)
THEOREM FirstTerminalWins == Spec => TerminalStable
<1>1. TypeOK /\ PairAgreement /\ [Next]_cpVars => [KeepsTerminal]_cpVars
  BY StepKeepsTerminal
<1> QED
  BY <1>1, TypeCorrect, PairsAgree, PTL DEF Spec, TerminalStable, KeepsTerminal

-----------------------------------------------------------------------------
(* Every transaction is a step of the observer's specification or leaves     *)
(* what the observer sees unchanged.                                         *)
LEMMA StepRefines ==
    ASSUME TypeOK, PairAgreement, [Next]_cpVars
    PROVE  [Observed!LifecycleNext]_(Observed!lifecycleVars)
<1> USE ControlPlaneAssumption
    DEF jobVars, runVars, refVars, logVars, Observed!lifecycleVars
<1> DEFINE readable == {a \in Artifacts : refState[a] = "committed"}
<1>1. ASSUME NEW j \in Jobs, NEW k \in Keys, NEW d \in Digests, SubmitJob(j, k, d)
      PROVE  Observed!Submit(j)
  BY <1>1 DEF SubmitJob, Observed!Submit, Observed!Move
<1>2. ASSUME NEW j \in Jobs, NEW r \in Runs, ClaimJob(j, r) PROVE Observed!Start(j)
  BY <1>2 DEF ClaimJob, Observed!Start, Observed!Move
<1>3. ASSUME NEW j \in Jobs, FailJob(j) \/ FailCorruptJob(j) PROVE Observed!Fail({j})
  BY <1>3, FailsAloneOnlyQueued DEF Observed!Fail, TypeOK
<1>4. ASSUME NEW j \in Jobs, CancelQueuedJob(j) \/ CancelRunningJob(j)
      PROVE  Observed!RequestCancel(j)
  BY <1>4 DEF CancelQueuedJob, CancelRunningJob, Observed!RequestCancel, Observed!Move
<1>5. ASSUME NEW a \in Artifacts, NEW r \in Runs, StageArtifact(a, r)
      PROVE  UNCHANGED Observed!lifecycleVars
  <2>1. readable' = readable
    BY <1>5 DEF StageArtifact, TypeOK
  <2> QED
    BY <1>5, <2>1 DEF StageArtifact
<1>6. ASSUME NEW r \in Runs, SucceedRunAndJob(r)
      PROVE  Observed!Succeed(runJob[r], TerminalOutputs(r)) /\ runJob[r] \in Jobs
  <2>1. /\ MayEnd(r, "succeeded") /\ EndPair(r, "succeeded")
        /\ SettleRefs(TerminalOutputs(r), "committed")
        /\ jobOut' = [jobOut EXCEPT ![runJob[r]] = TerminalOutputs(r)]
    BY <1>6 DEF SucceedRunAndJob
  <2>2. runJob[r] \in Jobs /\ jobState[runJob[r]] = "running"
    BY <2>1, EndingPair DEF Terminal
  <2>3. \A a \in TerminalOutputs(r) : a \in Artifacts /\ refState[a] = "staged"
    BY DEF TerminalOutputs, RefsOf
  <2>4. TerminalOutputs(r) \cap readable = {}
    BY <2>3
  <2>5. readable' = readable \cup TerminalOutputs(r)
    BY <2>1, <2>3 DEF SettleRefs
  <2> QED
    BY <2>1, <2>2, <2>4, <2>5 DEF Observed!Succeed, EndPair
\* A settlement of staged refs as failed is not visible.
<1>7. ASSUME NEW refs, \A a \in refs : refState[a] = "staged", SettleRefs(refs, "failed")
      PROVE  readable' = readable
  BY <1>7 DEF SettleRefs
<1>8. ASSUME NEW r \in Runs, NEW st \in {"failed", "cancelled"}, AbandonRunAndJob(r, st)
      PROVE  /\ runJob[r] \in Jobs
             /\ Observed!Fail({runJob[r]}) \/ Observed!ConfirmCancel(runJob[r])
  <2>1. /\ MayEnd(r, st) /\ EndPair(r, st) /\ UNCHANGED jobOut
        /\ SettleRefs(TerminalOutputs(r), "failed")
    BY <1>8 DEF AbandonRunAndJob
  <2>2. /\ runJob[r] \in Jobs /\ jobState[runJob[r]] \in Active
        /\ st = "cancelled" => jobState[runJob[r]] = "cancelling"
    BY <2>1, EndingPair DEF Terminal
  <2>3. readable' = readable
    BY <1>7, <2>1 DEF TerminalOutputs, RefsOf
  <2>4. CASE st = "failed"
    <3>1. jobState' = [i \in Jobs |-> IF i \in {runJob[r]} THEN "failed" ELSE jobState[i]]
      BY <2>1, <2>4 DEF EndPair, TypeOK
    <3> QED
      BY <2>1, <2>2, <2>3, <3>1 DEF Observed!Fail, Active
  <2>5. CASE st = "cancelled"
    BY <2>1, <2>2, <2>3, <2>5 DEF EndPair, Observed!ConfirmCancel, Observed!Move
  <2> QED
    BY <1>8, <2>2, <2>4, <2>5
<1>9. ASSUME NEW lost \in SUBSET Jobs, ReconcileJobs(lost) PROVE Observed!Fail(lost)
  <2>1. readable' = readable
    BY <1>7, <1>9 DEF ReconcileJobs
  <2> QED
    BY <1>9, <2>1 DEF ReconcileJobs, Reconcilable, Active, Observed!Fail
<1>10. ASSUME NEW a \in Artifacts, TombstoneArtifact(a) \/ RetainArtifact(a)
       PROVE  Observed!Retire(a)
  <2>1. refState' = [refState EXCEPT ![a] = "tombstoned"] /\ UNCHANGED jobVars
    BY <1>10 DEF TombstoneArtifact, RetainArtifact
  <2>2. readable' = readable \ {a}
    BY <2>1 DEF TypeOK
  <2> QED
    BY <2>1, <2>2 DEF Observed!Retire
<1>11. CASE UNCHANGED cpVars
  BY <1>11 DEF cpVars
<1>12. ASSUME NEW j \in Jobs,
              \/ Observed!Submit(j) \/ Observed!Start(j) \/ Observed!RequestCancel(j)
              \/ Observed!ConfirmCancel(j) \/ Observed!Fail({j})
       PROVE  Observed!LifecycleNext
  <2>1. {j} \in SUBSET Jobs
    OBVIOUS
  <2>2. CASE Observed!Fail({j})
    BY <2>1, <2>2 DEF Observed!LifecycleNext
  <2> QED
    BY <1>12, <2>2 DEF Observed!LifecycleNext
<1>13. ASSUME NEW r \in Runs, SucceedRunAndJob(r) PROVE Observed!LifecycleNext
  <2>1. TerminalOutputs(r) \in SUBSET Artifacts
    BY DEF TerminalOutputs, RefsOf
  <2>2. PICK j \in Jobs, outs \in SUBSET Artifacts : j = runJob[r] /\ outs = TerminalOutputs(r)
    BY <1>6, <1>13, <2>1
  <2>3. Observed!Succeed(j, outs)
    BY <1>6, <1>13, <2>2 DEF Observed!Succeed
  <2> QED
    BY <2>3 DEF Observed!LifecycleNext
<1>14. ASSUME NEW lost \in SUBSET Jobs, ReconcileJobs(lost) PROVE Observed!LifecycleNext
  BY <1>9, <1>14 DEF Observed!LifecycleNext
<1>15. ASSUME NEW a \in Artifacts, TombstoneArtifact(a) \/ RetainArtifact(a)
       PROVE  Observed!LifecycleNext
  BY <1>10, <1>15 DEF Observed!LifecycleNext
<1> HIDE DEF Observed!lifecycleVars
<1> QED
  BY <1>1, <1>2, <1>3, <1>4, <1>5, <1>8, <1>11, <1>12, <1>13, <1>14, <1>15 DEF Next

(* Seen through Job states, outputs and readable artifacts, the control      *)
(* plane implements JobLifecycle.                                            *)
THEOREM LifecycleRefined == Spec => ImplementsLifecycle
<1>1. Init => Observed!LifecycleInit
  BY DEF Init, Observed!LifecycleInit
<1>2. TypeOK /\ PairAgreement /\ [Next]_cpVars => [Observed!LifecycleNext]_(Observed!lifecycleVars)
  BY StepRefines
<1> QED
  BY <1>1, <1>2, TypeCorrect, PairsAgree, PTL
  DEF Spec, ImplementsLifecycle, Observed!LifecycleSpec

-----------------------------------------------------------------------------
(* An allowed transition, recorded at the end, keeps a log faithful.         *)
LEMMA FaithfulAppend ==
    ASSUME NEW log \in Seq(JobStates), NEW st, NEW next \in JobStates, Faithful(log, st),
           (st = "absent" /\ next = "queued") \/ <<st, next>> \in AllowedJobTransition
    PROVE  Faithful(log \o <<next>>, next)
<1> DEFINE new == log \o <<next>>
<1>1. /\ new \in Seq(JobStates) /\ Len(new) = Len(log) + 1 /\ Len(log) \in Nat
      /\ \A i \in 1..Len(log) : new[i] = log[i]
      /\ new[Len(log) + 1] = next
  OBVIOUS
<1>2. new # <<>> /\ next # "absent"
  BY <1>1 DEF JobStates
<1>3. CASE log = <<>>
  <2>1. st = "absent"
    BY <1>3 DEF Faithful
  <2>2. next = "queued" /\ Len(log) = 0
    BY <1>3, <2>1 DEF AllowedJobTransition
  <2>3. Faithful(new, next)
    <3> HIDE DEF new
    <3> QED
      BY <1>1, <1>2, <2>2 DEF Faithful
  <2> QED
    BY <2>3
<1>4. CASE log # <<>>
  <2>1. st # "absent" /\ log[1] = "queued" /\ log[Len(log)] = st
    BY <1>4 DEF Faithful
  <2>2. Len(log) >= 1
    BY <1>4
  <2>3. <<st, next>> \in AllowedJobTransition
    BY <2>1
  <2>4. ASSUME NEW i \in 1..Len(new) - 1 PROVE <<new[i], new[i + 1]>> \in AllowedJobTransition
    <3>1. CASE i = Len(log)
      BY <1>1, <2>1, <2>2, <2>3, <3>1
    <3>2. CASE i # Len(log)
      <4>1. i \in 1..Len(log) - 1 /\ i \in 1..Len(log) /\ i + 1 \in 1..Len(log)
        BY <1>1, <3>2
      <4>2. new[i] = log[i] /\ new[i + 1] = log[i + 1]
        BY <1>1, <4>1
      <4> QED
        BY <4>1, <4>2 DEF Faithful
    <3> QED
      BY <3>1, <3>2
  <2>5. new[1] = "queued" /\ new[Len(new)] = next
    BY <1>1, <2>1, <2>2
  <2>6. Faithful(new, next)
    <3> HIDE DEF new
    <3> QED
      BY <1>2, <2>4, <2>5 DEF Faithful
  <2> QED
    BY <2>6
<1> QED
  BY <1>3, <1>4

(* Every transaction that moves a Job records the move on its stream.        *)
LEMMA HistoryInductive ==
    ASSUME TypeOK, PairAgreement, JobHistory, [Next]_cpVars
    PROVE  JobHistory'
<1> USE ControlPlaneAssumption DEF jobVars, runVars, refVars, logVars
<1>1. ASSUME NEW j \in Jobs, NEW next \in JobStates,
             (jobState[j] = "absent" /\ next = "queued")
               \/ <<jobState[j], next>> \in AllowedJobTransition,
             jobState' = [jobState EXCEPT ![j] = next], AppendJob(j, <<next>>)
      PROVE  JobHistory'
  <2>1. Faithful(jobLog[j] \o <<next>>, next)
    BY <1>1, FaithfulAppend DEF JobHistory, TypeOK
  <2>2. jobState'[j] = next /\ jobLog'[j] = jobLog[j] \o <<next>>
    BY <1>1 DEF AppendJob, TypeOK
  <2>3. \A i \in Jobs \ {j} : jobState'[i] = jobState[i] /\ jobLog'[i] = jobLog[i]
    BY <1>1 DEF AppendJob, TypeOK
  <2> QED
    BY <2>1, <2>2, <2>3 DEF JobHistory
<1>2. ASSUME NEW j \in Jobs, NEW k \in Keys, NEW d \in Digests, SubmitJob(j, k, d)
      PROVE  JobHistory'
  BY <1>1, <1>2 DEF SubmitJob, JobStates
<1>3. ASSUME NEW j \in Jobs, NEW r \in Runs, ClaimJob(j, r) PROVE JobHistory'
  BY <1>1, <1>3 DEF ClaimJob, JobStates, AllowedJobTransition
<1>4. ASSUME NEW j \in Jobs, FailJob(j) \/ FailCorruptJob(j) PROVE JobHistory'
  BY <1>1, <1>4, FailsAloneOnlyQueued DEF AppendJob, JobStates, AllowedJobTransition
<1>5. ASSUME NEW j \in Jobs, CancelQueuedJob(j) PROVE JobHistory'
  \* Two events in one transaction: the intermediate state is in the stream only.
  <2>1. jobState[j] = "queued" /\ Faithful(jobLog[j], "queued") /\ jobLog[j] \in Seq(JobStates)
    BY <1>5 DEF CancelQueuedJob, JobHistory, TypeOK
  <2> DEFINE mid == jobLog[j] \o <<"cancelling">>
  <2>2. Faithful(mid, "cancelling")
    BY <2>1, FaithfulAppend DEF JobStates, AllowedJobTransition
  <2>3. mid \in Seq(JobStates)
    BY <2>1 DEF JobStates
  <2>4. Faithful(mid \o <<"cancelled">>, "cancelled")
    <3> HIDE DEF mid
    <3> QED
      BY <2>2, <2>3, FaithfulAppend DEF JobStates, AllowedJobTransition
  <2>5. mid \o <<"cancelled">> = jobLog[j] \o <<"cancelling", "cancelled">>
    BY <2>1 DEF JobStates
  <2>6. jobState'[j] = "cancelled" /\ jobLog'[j] = mid \o <<"cancelled">>
    BY <1>5, <2>5 DEF CancelQueuedJob, AppendJob, TypeOK
  <2>7. \A i \in Jobs \ {j} : jobState'[i] = jobState[i] /\ jobLog'[i] = jobLog[i]
    BY <1>5 DEF CancelQueuedJob, AppendJob, TypeOK
  <2> QED
    BY <2>4, <2>6, <2>7 DEF JobHistory
<1>6. ASSUME NEW j \in Jobs, CancelRunningJob(j) PROVE JobHistory'
  BY <1>1, <1>6 DEF CancelRunningJob, JobStates, AllowedJobTransition
<1>7. ASSUME NEW r \in Runs, NEW st \in Terminal, MayEnd(r, st), EndPair(r, st),
             AppendJob(runJob[r], <<st>>)
      PROVE  JobHistory'
  <2>1. PICK j \in Jobs : j = runJob[r]
    BY <1>7, EndingPair
  <2> QED
    BY <1>1, <1>7, <2>1 DEF MayEnd, EndPair, Terminal, JobStates
<1>8. ASSUME NEW r \in Runs, SucceedRunAndJob(r) PROVE JobHistory'
  BY <1>7, <1>8 DEF SucceedRunAndJob, Terminal
<1>9. ASSUME NEW r \in Runs, NEW st \in {"failed", "cancelled"}, AbandonRunAndJob(r, st)
      PROVE  JobHistory'
  BY <1>7, <1>9 DEF AbandonRunAndJob, Terminal
<1>10. ASSUME NEW lost \in SUBSET Jobs, ReconcileJobs(lost) PROVE JobHistory'
  <2>1. ASSUME NEW j \in Jobs PROVE Faithful(jobLog[j], jobState[j])'
    <3>1. CASE j \in lost
      <4>1. /\ jobState[j] \in Active /\ jobState'[j] = "failed"
            /\ jobLog'[j] = Append(jobLog[j], "failed") /\ jobLog[j] \in Seq(JobStates)
        BY <1>10, <3>1 DEF ReconcileJobs, Reconcilable, TypeOK
      <4>2. jobLog'[j] = jobLog[j] \o <<"failed">>
        BY <4>1, AppendIsConcat DEF JobStates
      <4>3. Faithful(jobLog[j], jobState[j])
        BY DEF JobHistory
      <4>4. Faithful(jobLog[j] \o <<"failed">>, "failed")
        BY <4>1, <4>3, FaithfulAppend DEF JobStates, AllowedJobTransition, Active
      <4> QED
        BY <4>1, <4>2, <4>4
    <3>2. CASE j \notin lost
      BY <1>10, <3>2 DEF ReconcileJobs, JobHistory
    <3> QED
      BY <3>1, <3>2
  <2> QED
    BY <2>1 DEF JobHistory
<1>11. ASSUME UNCHANGED <<jobState, jobLog>> PROVE JobHistory'
  BY <1>11 DEF JobHistory
<1>12. ASSUME NEW a \in Artifacts, NEW r \in Runs, StageArtifact(a, r) PROVE JobHistory'
  BY <1>11, <1>12 DEF StageArtifact
<1>13. ASSUME NEW a \in Artifacts, TombstoneArtifact(a) \/ RetainArtifact(a)
       PROVE  JobHistory'
  BY <1>11, <1>13 DEF TombstoneArtifact, RetainArtifact
<1>14. CASE UNCHANGED cpVars
  BY <1>11, <1>14 DEF cpVars
<1> QED
  BY <1>2, <1>3, <1>4, <1>5, <1>6, <1>8, <1>9, <1>10, <1>12, <1>13, <1>14 DEF Next

(* However many transactions race, a Job's stream is the history of its row. *)
THEOREM StreamsFaithful == Spec => []JobHistory
<1>1. Init => JobHistory
  BY DEF Init, JobHistory, Faithful
<1>2. TypeOK /\ PairAgreement /\ JobHistory /\ [Next]_cpVars => JobHistory'
  BY HistoryInductive
<1> QED
  BY <1>1, <1>2, TypeCorrect, PairsAgree, PTL DEF Spec

-----------------------------------------------------------------------------
(* What the steps other than a submission do to keys and to the queue: no    *)
(* key is bound, no Job appears or disappears, and no Job joins the queue.   *)
LEMMA OnlySubmitAdmits ==
    ASSUME TypeOK, PairAgreement, [Next]_cpVars,
           ~ \E j \in Jobs, k \in Keys, d \in Digests : SubmitJob(j, k, d)
    PROVE  /\ idem' = idem
           /\ \A j \in Jobs : jobState'[j] = "absent" <=> jobState[j] = "absent"
           /\ \A j \in Jobs : jobState'[j] = "queued" => jobState[j] = "queued"
<1> DEFINE Admits == /\ idem' = idem
                     /\ \A j \in Jobs : jobState'[j] = "absent" <=> jobState[j] = "absent"
                     /\ \A j \in Jobs : jobState'[j] = "queued" => jobState[j] = "queued"
<1> USE ControlPlaneAssumption DEF jobVars, runVars, refVars, logVars
<1>1. ASSUME NEW j \in Jobs, NEW r \in Runs, ClaimJob(j, r) PROVE Admits
  BY <1>1 DEF ClaimJob, TypeOK
<1>2. ASSUME NEW j \in Jobs, FailJob(j) \/ FailCorruptJob(j) PROVE Admits
  BY <1>2, FailsAloneOnlyQueued DEF TypeOK
<1>3. ASSUME NEW j \in Jobs, CancelQueuedJob(j) \/ CancelRunningJob(j) PROVE Admits
  BY <1>3 DEF CancelQueuedJob, CancelRunningJob, TypeOK
<1>4. ASSUME NEW r \in Runs, NEW st \in Terminal, MayEnd(r, st), EndPair(r, st) PROVE Admits
  <2>1. runJob[r] \in Jobs /\ jobState[runJob[r]] \in Active
    BY <1>4, EndingPair
  <2> QED
    BY <1>4, <2>1 DEF EndPair, Terminal, Active, TypeOK
<1>5. ASSUME NEW r \in Runs, SucceedRunAndJob(r) PROVE Admits
  BY <1>4, <1>5 DEF SucceedRunAndJob, Terminal
<1>6. ASSUME NEW r \in Runs, NEW st \in {"failed", "cancelled"}, AbandonRunAndJob(r, st)
      PROVE  Admits
  BY <1>4, <1>6 DEF AbandonRunAndJob, Terminal
<1>7. ASSUME NEW lost \in SUBSET Jobs, ReconcileJobs(lost) PROVE Admits
  BY <1>7 DEF ReconcileJobs, Reconcilable, Active
<1>8. ASSUME UNCHANGED <<idem, jobState>> PROVE Admits
  BY <1>8
<1>9. ASSUME NEW a \in Artifacts, NEW r \in Runs, StageArtifact(a, r) PROVE Admits
  BY <1>8, <1>9 DEF StageArtifact
<1>10. ASSUME NEW a \in Artifacts, TombstoneArtifact(a) \/ RetainArtifact(a) PROVE Admits
  BY <1>8, <1>10 DEF TombstoneArtifact, RetainArtifact
<1>11. ASSUME UNCHANGED cpVars PROVE Admits
  BY <1>8, <1>11 DEF cpVars
<1> HIDE DEF Admits
<1>12. Admits
  BY <1>1, <1>2, <1>3, <1>5, <1>6, <1>7, <1>9, <1>10, <1>11 DEF Next
<1> QED
  BY <1>12 DEF Admits

(* Concurrent submissions that reuse keys: every Job of the Workspace is     *)
(* bound to exactly one key, so a replayed request finds the Job it created. *)
THEOREM KeysAreUnique == Spec => []KeysIdentifyJobs
<1>1. Init => KeysIdentifyJobs
  BY DEF Init, KeysIdentifyJobs, NoEntry
<1>2. TypeOK /\ PairAgreement /\ KeysIdentifyJobs /\ [Next]_cpVars => KeysIdentifyJobs'
  <2> SUFFICES ASSUME TypeOK, PairAgreement, KeysIdentifyJobs, [Next]_cpVars
               PROVE  KeysIdentifyJobs'
    OBVIOUS
  <2>1. ASSUME NEW j \in Jobs, NEW k \in Keys, NEW d \in Digests, SubmitJob(j, k, d)
        PROVE  KeysIdentifyJobs'
    <3>1. /\ jobState[j] = "absent" /\ jobState' = [jobState EXCEPT ![j] = "queued"]
          /\ idem[k] = NoEntry /\ idem' = [idem EXCEPT ![k] = [digest |-> d, job |-> j]]
      BY <2>1 DEF SubmitJob, KeyUnused
    <3>2. idem'[k].job = j /\ \A l \in Keys \ {k} : idem'[l] = idem[l]
      BY <3>1 DEF TypeOK
    <3>3. jobState'[j] = "queued" /\ \A i \in Jobs \ {j} : jobState'[i] = jobState[i]
      BY <3>1 DEF TypeOK
    <3>4. \A l \in Keys : idem[l].job # j
      <4>1. NoEntry.job # j
        BY ControlPlaneAssumption DEF NoEntry
      <4> QED
        BY <3>1, <4>1 DEF KeysIdentifyJobs
    <3>5. \A l \in Keys : idem[l] # NoEntry => idem[l].job \in Jobs
      BY DEF TypeOK, IdemEntry
    <3>6. \A l \in Keys : idem'[l] # NoEntry => jobState'[idem'[l].job] # "absent"
      BY <3>2, <3>3, <3>4, <3>5 DEF KeysIdentifyJobs
    <3>7. \A i \in Jobs : jobState'[i] # "absent" => \E l \in Keys : idem'[l].job = i
      <4> SUFFICES ASSUME NEW i \in Jobs, jobState'[i] # "absent"
                   PROVE  \E l \in Keys : idem'[l].job = i
        OBVIOUS
      <4>1. CASE i = j
        BY <3>2, <4>1
      <4>2. CASE i # j
        <5>1. PICK l \in Keys : idem[l].job = i
          BY <3>3, <4>2 DEF KeysIdentifyJobs
        <5>2. l # k
          BY <3>1, <5>1, ControlPlaneAssumption DEF NoEntry
        <5> QED
          BY <3>2, <5>1, <5>2
      <4> QED
        BY <4>1, <4>2
    <3>8. \A l, m \in Keys : idem'[l] # NoEntry /\ idem'[l].job = idem'[m].job => l = m
      BY <3>2, <3>4 DEF KeysIdentifyJobs
    <3> QED
      BY <3>6, <3>7, <3>8 DEF KeysIdentifyJobs
  <2>2. CASE ~ \E j \in Jobs, k \in Keys, d \in Digests : SubmitJob(j, k, d)
    <3>1. \A l \in Keys : idem[l] # NoEntry => idem[l].job \in Jobs
      BY DEF TypeOK, IdemEntry
    <3> QED
      BY <2>2, <3>1, OnlySubmitAdmits DEF KeysIdentifyJobs
  <2> QED
    BY <2>1, <2>2
<1> QED
  BY <1>1, <1>2, TypeCorrect, PairsAgree, PTL DEF Spec

(* The queue cap holds for every cap and every number of submitters.         *)
THEOREM QueueIsBounded == Spec => []QueueBound
<1>1. Init => QueueBound
  <2> SUFFICES ASSUME Init PROVE QueueBound
    OBVIOUS
  <2>1. InState("queued") = {}
    BY DEF Init, InState
  <2> QED
    BY <2>1, FS_EmptySet, ControlPlaneAssumption DEF QueueBound
<1>2. TypeOK /\ PairAgreement /\ QueueBound /\ [Next]_cpVars => QueueBound'
  <2> SUFFICES ASSUME TypeOK, PairAgreement, QueueBound, [Next]_cpVars PROVE QueueBound'
    OBVIOUS
  <2> DEFINE old == {j \in Jobs : jobState[j] = "queued"}
             new == {j \in Jobs : jobState'[j] = "queued"}
  <2>0. /\ IsFiniteSet(old) /\ Cardinality(old) \in Nat /\ MaxQueued \in Nat
        /\ IsFiniteSet(new) /\ Cardinality(new) \in Nat
        /\ Cardinality(old) <= MaxQueued
    <3>1. old \subseteq Jobs /\ new \subseteq Jobs
      OBVIOUS
    <3>2. IsFiniteSet(old) /\ IsFiniteSet(new)
      BY <3>1, FS_Subset, ControlPlaneAssumption
    <3> QED
      BY <3>2, FS_CardinalityType, ControlPlaneAssumption DEF QueueBound, InState
  <2>1. ASSUME NEW j \in Jobs, NEW k \in Keys, NEW d \in Digests, SubmitJob(j, k, d)
        PROVE  Cardinality(new) <= MaxQueued
    <3>1. Cardinality(old) < MaxQueued
      BY <2>1 DEF SubmitJob, QueueHasRoom, InState
    <3>2. new = old \cup {j} /\ j \notin old
      BY <2>1 DEF SubmitJob, TypeOK
    <3>3. Cardinality(old \cup {j}) = Cardinality(old) + 1
      <4> HIDE DEF old
      <4> QED
        BY <2>0, <3>2, FS_AddElement
    <3> HIDE DEF old, new
    <3> QED
      BY <2>0, <3>1, <3>2, <3>3
  <2>2. ASSUME ~ \E j \in Jobs, k \in Keys, d \in Digests : SubmitJob(j, k, d)
        PROVE  Cardinality(new) <= MaxQueued
    <3>1. new \subseteq old
      BY <2>2, OnlySubmitAdmits
    <3> HIDE DEF old, new
    <3>2. Cardinality(new) <= Cardinality(old)
      BY <2>0, <3>1, FS_Subset
    <3> QED
      BY <2>0, <3>2
  <2>3. Cardinality(new) <= MaxQueued
    <3> HIDE DEF new
    <3> QED
      BY <2>1, <2>2
  <2> QED
    BY <2>3 DEF QueueBound, InState
<1> QED
  BY <1>1, <1>2, TypeCorrect, PairsAgree, PTL DEF Spec

-----------------------------------------------------------------------------
(* The Job runtime.                                                         *)

TaskPcs  == Unpermitted \cup Holding \cup Ending
TaskRows == [pc : TaskPcs, job : Jobs \cup {NoJob}, run : Runs \cup {NoRun}, goal : {"none", "error"} \cup Terminal]
CallRows == [pc : CallLabels, job : Jobs \cup {NoJob}]
SpentRows == [crash : Nat, stop : Nat, maintenance : Nat, preview : Nat]

JrTyped ==
    /\ phase \in {"up", "closing", "draining", "stopped", "crashed"}
    /\ task \in [Workers -> TaskRows]
    /\ call \in [Clients -> CallRows]
    /\ active \subseteq Workers /\ token \subseteq active
    /\ maint \in BOOLEAN /\ spent \in SpentRows

\* The workers with an entry in the active list.
Listed == {"recheck", "resolve", "engine", "stage", "remove"}

TaskOK(w) ==
    LET t == task[w] IN
    /\ t.pc \in {"permit", "claim", "failq"} => t.job \in Jobs
    /\ t.pc \in Owning => /\ t.job \in Jobs /\ t.run \in Runs
                          /\ jobRun[t.job] = t.run /\ jobState[t.job] \in Active
    /\ t.pc = "stage" => t.job \in Typed
    /\ t.pc = "remove" => t.goal \in {"succeeded", "error"}
    /\ t.pc = "finish" => t.goal \in Terminal
    /\ t.pc = "fallback" => /\ t.goal \in {"failed", "cancelled"}
                            /\ t.goal = "cancelled" => jobState[t.job] = "cancelling"
    /\ w \in active <=> t.pc \in Listed

Mine(w, j) == task[w].pc \in Owning /\ task[w].job = j
OwnersApart == \A v, w \in Workers : \A j \in Jobs : Mine(v, j) /\ Mine(w, j) => v = w

\* While no process runs, nothing is left in memory.
IdleSound ==
    phase \in {"stopped", "crashed"} =>
        (\A w \in Workers : task[w] = NoTask) /\ (\A c \in Clients : call[c] = NoCall)

CallOK(c) == call[c].pc # "idle" => call[c].job \in Jobs

ActiveJobs == {j \in Jobs : jobState[j] \in Active}

\* No maintenance window has opened so far.
Undisturbed == spent.maintenance = 0
\* At most one Run per worker is active, so a restart reconciles all of them.
RowsKept ==
    Undisturbed /\ Cardinality(Workers) <= ReconcileLimit =>
        NoAbandonedRow /\ (phase = "crashed" => Cardinality(ActiveJobs) <= Cardinality(Workers))

JrInv ==
    /\ TypeOK /\ PairAgreement /\ JrTyped /\ OwnersApart /\ IdleSound
    /\ \A w \in Workers : TaskOK(w)
    /\ \A c \in Clients : CallOK(c)
    /\ maint => ~Undisturbed
    /\ Undisturbed => CancelPrompted
    /\ RowsKept

-----------------------------------------------------------------------------
LEMMA RtConstants ==
    /\ IsFiniteSet(Workers) /\ IsFiniteSet(Jobs) /\ NoJob \notin Jobs /\ NoRun \notin Runs
    /\ ReconcileLimit \in Nat \ {0} /\ Cardinality(Workers) \in Nat
BY JobRuntimeAssumption, ControlPlaneAssumption, FS_CardinalityType
DEF JobRuntimeAssumption, ControlPlaneAssumption

\* The labels of the workers, once and for all.
LEMMA LabelFacts ==
    /\ Owning = {"push", "recheck", "resolve", "engine", "stage", "remove", "reread", "finish", "fbread", "fallback"}
    /\ TaskPcs = {"off", "wait", "next", "retry", "permit", "claim", "failq"} \cup Owning
    /\ Active = {"running", "cancelling"} /\ Terminal = {"succeeded", "failed", "cancelled"}
BY DEF Owning, Executing, Ending, TaskPcs, Unpermitted, Holding, Claiming, Active, Terminal

LEMMA JrInvImplies ==
    ASSUME JrInv
    PROVE  /\ WorkerOwnsRun
           /\ Undisturbed => CancelPrompted
           /\ Undisturbed /\ Cardinality(Workers) <= ReconcileLimit => NoAbandonedRow
<1>1. WorkerOwnsRun
  <2> SUFFICES ASSUME NEW w \in Workers, task[w].pc \in Owning
               PROVE  /\ jobRun[task[w].job] = task[w].run /\ jobState[task[w].job] \in Active
                      /\ Owners(task[w].job) = {w}
      BY DEF WorkerOwnsRun
  <2>1. TaskOK(w)
    BY DEF JrInv
  <2>2. task[w].job \in Jobs /\ jobRun[task[w].job] = task[w].run /\ jobState[task[w].job] \in Active
    BY <2>1 DEF TaskOK
  <2>3. \A v \in Workers : task[v].job = task[w].job /\ task[v].pc \in Owning => v = w
    BY <2>2 DEF JrInv, OwnersApart, Mine
  <2> QED BY <2>2, <2>3 DEF Owners
<1> QED BY <1>1 DEF JrInv, RowsKept

LEMMA JrInvInit == RtInit => JrInv
<1> SUFFICES ASSUME RtInit PROVE JrInv
    OBVIOUS
<1>0. /\ Init /\ phase = "stopped" /\ task = [w \in Workers |-> NoTask] /\ call = [c \in Clients |-> NoCall]
      /\ active = {} /\ token = {} /\ maint = FALSE
      /\ spent = [crash |-> 0, stop |-> 0, maintenance |-> 0, preview |-> 0]
  BY DEF RtInit
<1>1. TypeOK /\ PairAgreement
  BY <1>0 DEF Init, TypeOK, PairAgreement
<1>2. NoTask \in TaskRows /\ NoCall \in CallRows
  BY DEF NoTask, TaskRows, TaskPcs, Unpermitted, NoCall, CallRows, CallLabels
<1>3. JrTyped
  BY <1>0, <1>2 DEF JrTyped, SpentRows
<1>4. NoTask.pc = "off" /\ NoCall.pc = "idle" /\ "off" \notin Owning
  BY LabelFacts DEF NoTask, NoCall
<1>5. OwnersApart /\ IdleSound /\ (\A c \in Clients : CallOK(c)) /\ ~maint
  BY <1>0, <1>4 DEF OwnersApart, Mine, IdleSound, CallOK
<1>6. \A w \in Workers : TaskOK(w)
  BY <1>0, <1>4 DEF TaskOK, Listed
<1>7. CancelPrompted
  BY <1>0, <1>4 DEF CancelPrompted
<1>8. RowsKept
  <2>1. \A j \in Jobs : jobState[j] \notin Active
    BY <1>0 DEF Init, Active
  <2> QED BY <1>0, <2>1 DEF RowsKept, NoAbandonedRow
<1> QED BY <1>1, <1>3, <1>5, <1>6, <1>7, <1>8 DEF JrInv

-----------------------------------------------------------------------------
(* Every step of the runtime is a transaction of the control plane, or     *)
(* none.                                                                   *)

LEMMA OwnRun ==
    ASSUME JrInv, NEW w \in Workers, task[w].pc \in Owning
    PROVE  /\ task[w].job \in Jobs /\ task[w].run \in Runs /\ jobRun[task[w].job] = task[w].run
           /\ runJob[task[w].run] = task[w].job /\ jobState[task[w].job] \in Active
           /\ runState[task[w].run] = jobState[task[w].job]
<1>1. TaskOK(w) /\ PairAgreement
  BY DEF JrInv
<1>2. task[w].job \in Jobs /\ task[w].run \in Runs /\ jobRun[task[w].job] = task[w].run /\ jobState[task[w].job] \in Active
  BY <1>1 DEF TaskOK
<1>3. task[w].run # NoRun
  BY <1>2, RtConstants
<1>4. runState[task[w].run] # "absent" /\ runJob[task[w].run] = task[w].job
  BY <1>1, <1>2, <1>3 DEF PairAgreement
<1>5. jobState[runJob[task[w].run]] = runState[task[w].run]
  BY <1>1, <1>2, <1>4 DEF PairAgreement
<1> QED BY <1>2, <1>4, <1>5

LEMMA WorkerWrites ==
    ASSUME JrInv, NEW w \in Workers, WorkerStep(w)
    PROVE  [Next]_cpVars
<1>0. TaskOK(w)
  BY DEF JrInv
<1>1. CASE UNCHANGED cpVars
  BY <1>1
<1>2. ASSUME NextQueuedJob(w) PROVE [Next]_cpVars
  BY <1>2 DEF NextQueuedJob, Next
<1>3. ASSUME Claim(w) PROVE [Next]_cpVars
  <2>1. task[w].job \in Jobs
    BY <1>0, <1>3 DEF Claim, At, TaskOK
  <2> QED BY <1>3, <2>1 DEF Claim, Next
<1>4. ASSUME FailQueued(w) PROVE [Next]_cpVars
  <2>1. task[w].job \in Jobs
    BY <1>0, <1>4 DEF FailQueued, At, TaskOK
  <2> QED BY <1>4, <2>1 DEF FailQueued, Next
<1>5. ASSUME Stage(w) PROVE [Next]_cpVars
  <2>1. task[w].pc = "stage" /\ task[w].pc \in Owning
    BY <1>5, LabelFacts DEF Stage, At
  <2>2. task[w].run \in Runs /\ runJob[task[w].run] \in Typed
    BY <1>0, <2>1, OwnRun DEF TaskOK
  <2> QED BY <1>5, <2>2 DEF Stage, Next
<1>6. ASSUME Publish(w), task[w].pc \in Owning PROVE [Next]_cpVars
  <2>1. task[w].run \in Runs
    BY <1>6, OwnRun
  <2>2. CASE SucceedRunAndJob(task[w].run)
    BY <2>1, <2>2 DEF Next
  <2>3. CASE AbandonRunAndJob(task[w].run, task[w].goal)
    <3>1. task[w].goal \in {"failed", "cancelled"}
      BY <2>3 DEF AbandonRunAndJob
    <3> QED BY <2>1, <2>3, <3>1 DEF Next
  <2> QED BY <1>6, <2>2, <2>3 DEF Publish
<1>7. ASSUME Finish(w) PROVE [Next]_cpVars
  <2>1. task[w].pc \in Owning
    BY <1>7, LabelFacts DEF Finish, At
  <2>2. Publish(w) \/ UNCHANGED cpVars
    BY <1>7 DEF Finish
  <2> QED BY <1>6, <2>1, <2>2
<1>8. ASSUME FinishFallback(w) PROVE [Next]_cpVars
  <2>1. task[w].pc \in Owning
    BY <1>8, LabelFacts DEF FinishFallback, At
  <2>2. Publish(w) \/ UNCHANGED cpVars
    BY <1>8 DEF FinishFallback
  <2> QED BY <1>6, <2>1, <2>2
<1>9. ASSUME \/ TakeSignal(w) \/ LeaveLoop(w) \/ Retry(w) \/ AcquirePermit(w) \/ PushActive(w) \/ RecheckCancelled(w)
             \/ Resolve(w) \/ Execute(w) \/ RemoveActive(w) \/ RereadOutcome(w) \/ ReadFallback(w)
      PROVE  UNCHANGED cpVars
  BY <1>9 DEF TakeSignal, LeaveLoop, Retry, AcquirePermit, PushActive, RecheckCancelled, Resolve, Execute, RemoveActive,
     RereadOutcome, ReadFallback
<1> QED BY <1>2, <1>3, <1>4, <1>5, <1>7, <1>8, <1>9 DEF WorkerStep

LEMMA RuntimeWrites ==
    ASSUME JrInv, [RtNext]_allVars
    PROVE  [Next]_cpVars
<1>1. CASE UNCHANGED allVars
  BY <1>1 DEF allVars
<1>2. ASSUME NEW w \in Workers, WorkerStep(w) PROVE [Next]_cpVars
  BY <1>2, WorkerWrites
<1>3. ASSUME NEW c \in Clients, CallStep(c) PROVE [Next]_cpVars
  <2>1. CallOK(c)
    BY DEF JrInv
  <2>2. CASE CancelQueued(c)
    <3>1. call[c].job \in Jobs
      BY <2>1, <2>2 DEF CancelQueued, CallOK
    <3> QED BY <2>2, <3>1 DEF CancelQueued, Next
  <2>3. CASE CancelRunning(c)
    <3>1. call[c].job \in Jobs
      BY <2>1, <2>3 DEF CancelRunning, CallOK
    <3> QED BY <2>3, <3>1 DEF CancelRunning, Next
  <2>4. CASE CancelReread(c) \/ PromptToken(c)
    BY <2>4 DEF CancelReread, PromptToken
  <2> QED BY <1>3, <2>2, <2>3, <2>4 DEF CallStep
<1>4. ASSUME NEW j \in Jobs, NEW k \in Keys, NEW d \in Digests, Submit(j, k, d) PROVE [Next]_cpVars
  BY <1>4 DEF Submit, Next
<1>5. ASSUME StartRuntime PROVE [Next]_cpVars
  <2>1. UNCHANGED cpVars \/ \E lost \in SUBSET Jobs : ReconcileJobs(lost)
    BY <1>5 DEF StartRuntime, ReconcileOnStart
  <2> QED BY <2>1 DEF Next
<1>6. ASSUME \/ Crash \/ BeginShutdown \/ PromptActive \/ JoinWorkers \/ SubmitterWakes
             \/ BeginMaintenance \/ EndMaintenance \/ BeginPreview \/ EndPreview
             \/ \E c \in Clients, j \in Jobs : CancelRead(c, j)
      PROVE  UNCHANGED cpVars
  BY <1>6 DEF Crash, BeginShutdown, PromptActive, JoinWorkers, SubmitterWakes, BeginMaintenance, EndMaintenance,
     BeginPreview, EndPreview, CancelRead, Forget
<1>7. CASE RtNext
  BY <1>2, <1>3, <1>4, <1>5, <1>6, <1>7 DEF RtNext
<1> QED BY <1>1, <1>7

LEMMA RowsAgreeNext ==
    ASSUME JrInv, [RtNext]_allVars
    PROVE  TypeOK' /\ PairAgreement'
<1>1. [Next]_cpVars /\ TypeOK /\ PairAgreement
  BY RuntimeWrites DEF JrInv
<1> QED BY <1>1, TypeInductive, PairInductive

-----------------------------------------------------------------------------
(* A step of one worker.                                                   *)

\* A step of w preserves the invariant, if it leaves the rows of the others
\* alone, owns only what nobody owned, and gives up only what it has ended.
LEMMA WorkerKeeps ==
    ASSUME JrInv, TypeOK', PairAgreement', NEW w \in Workers, task[w].pc # "off",
           task' \in [Workers -> TaskRows], \A v \in Workers \ {w} : task'[v] = task[v],
           UNCHANGED <<call, phase, maint, spent>>,
           active' \subseteq Workers, token' \subseteq active',
           \A v \in Workers \ {w} : (v \in active' <=> v \in active) /\ (v \in token => v \in token'),
           TaskOK(w)',
           \A i \in Jobs : jobState[i] \in Active /\ ~Mine(w, i) => jobState'[i] = jobState[i] /\ jobRun'[i] = jobRun[i],
           \A i \in Jobs : Mine(w, i)' /\ ~Mine(w, i) => jobState[i] \notin Active,
           \A i \in Jobs : jobState'[i] \in Active /\ jobState[i] \notin Active => Mine(w, i)',
           \A i \in Jobs : Undisturbed /\ Mine(w, i) /\ ~Mine(w, i)' => jobState'[i] \notin Active,
           Undisturbed /\ task'[w].pc \in {"resolve", "engine", "stage"} /\ jobState'[task'[w].job] = "cancelling" =>
               w \in token' \/ \E c \in Clients : call[c] = [pc |-> "prompt", job |-> task'[w].job]
    PROVE  JrInv'
<1>0. JrTyped /\ OwnersApart /\ IdleSound /\ (\A v \in Workers : TaskOK(v)) /\ (\A c \in Clients : CallOK(c))
  BY DEF JrInv
<1>1. JrTyped' /\ (Undisturbed' <=> Undisturbed) /\ (maint' => ~Undisturbed')
  BY <1>0 DEF JrInv, JrTyped, Undisturbed
<1>2. phase \notin {"stopped", "crashed"}
  BY <1>0 DEF IdleSound, NoTask
<1>3. IdleSound' /\ \A c \in Clients : CallOK(c)'
  BY <1>0, <1>2 DEF IdleSound, CallOK
<1>4. \A v \in Workers \ {w} : \A i \in Jobs : Mine(v, i)' <=> Mine(v, i)
  BY DEF Mine
<1>5. \A v \in Workers \ {w} : \A i \in Jobs : Mine(v, i) => ~Mine(w, i) /\ ~Mine(w, i)' /\ jobState[i] \in Active
  <2> SUFFICES ASSUME NEW v \in Workers \ {w}, NEW i \in Jobs, Mine(v, i)
               PROVE  ~Mine(w, i) /\ ~Mine(w, i)' /\ jobState[i] \in Active
      OBVIOUS
  <2>1. jobState[i] \in Active
    BY <1>0 DEF Mine, TaskOK
  <2>2. ~Mine(w, i)
    BY <1>0 DEF OwnersApart
  <2> QED BY <2>1, <2>2
<1>6. OwnersApart'
  <2> SUFFICES ASSUME NEW v \in Workers, NEW u \in Workers, NEW i \in Jobs, Mine(v, i)', Mine(u, i)' PROVE v = u
      BY DEF OwnersApart
  <2>1. CASE v # w /\ u # w
    BY <1>0, <1>4, <2>1 DEF OwnersApart
  <2>2. CASE v = w \/ u = w
    BY <1>4, <1>5, <2>2
  <2> QED BY <2>1, <2>2
<1>7. \A v \in Workers : TaskOK(v)'
  <2> SUFFICES ASSUME NEW v \in Workers \ {w} PROVE TaskOK(v)'
      OBVIOUS
  <2>1. TaskOK(v) /\ task'[v] = task[v]
    BY <1>0
  <2>2. task[v].pc \in Owning => /\ jobState'[task[v].job] = jobState[task[v].job]
                                 /\ jobRun'[task[v].job] = jobRun[task[v].job]
    <3> SUFFICES ASSUME task[v].pc \in Owning
                 PROVE  /\ jobState'[task[v].job] = jobState[task[v].job]
                        /\ jobRun'[task[v].job] = jobRun[task[v].job]
        OBVIOUS
    <3>1. task[v].job \in Jobs /\ Mine(v, task[v].job)
      BY <2>1 DEF TaskOK, Mine
    <3>2. ~Mine(w, task[v].job) /\ jobState[task[v].job] \in Active
      BY <1>5, <3>1
    <3> QED BY <3>1, <3>2
  <2>3. "fallback" \in Owning
    BY LabelFacts
  <2> QED BY <2>1, <2>2, <2>3 DEF TaskOK
<1>8. ASSUME Undisturbed PROVE CancelPrompted'
  <2> SUFFICES ASSUME NEW v \in Workers, task'[v].pc \in {"resolve", "engine", "stage"},
                      jobState'[task'[v].job] = "cancelling"
               PROVE  v \in token' \/ \E c \in Clients : call'[c] = [pc |-> "prompt", job |-> task'[v].job]
      BY DEF CancelPrompted
  <2>1. CASE v = w
    BY <1>8, <2>1
  <2>2. CASE v # w
    <3>1. task'[v] = task[v] /\ task[v].pc \in Owning /\ TaskOK(v)
      BY <1>0, <2>2, LabelFacts
    <3>2. task[v].job \in Jobs /\ Mine(v, task[v].job)
      BY <3>1 DEF TaskOK, Mine
    <3>3. jobState'[task[v].job] = jobState[task[v].job]
      BY <1>5, <2>2, <3>2
    <3>4. CancelPrompted
      BY <1>8 DEF JrInv
    <3>5. v \in token \/ \E c \in Clients : call[c] = [pc |-> "prompt", job |-> task[v].job]
      BY <3>1, <3>3, <3>4 DEF CancelPrompted
    <3> QED BY <2>2, <3>1, <3>5
  <2> QED BY <2>1, <2>2
<1>9. RowsKept'
  <2> SUFFICES ASSUME Undisturbed, Cardinality(Workers) <= ReconcileLimit, NEW j \in Jobs, jobState'[j] \in Active
               PROVE  Owners(j)' # {}
      BY <1>1, <1>2 DEF RowsKept, NoAbandonedRow
  <2>1. CASE jobState[j] \notin Active
    <3>1. Mine(w, j)'
      BY <2>1
    <3> QED BY <3>1 DEF Mine, Owners
  <2>2. CASE jobState[j] \in Active
    <3>1. NoAbandonedRow
      BY DEF JrInv, RowsKept
    <3>2. PICK v \in Workers : Mine(v, j)
      BY <1>2, <2>2, <3>1 DEF NoAbandonedRow, Owners, Mine
    <3>3. Mine(v, j)'
      BY <1>4, <3>2
    <3> QED BY <3>3 DEF Mine, Owners
  <2> QED BY <2>1, <2>2
<1> QED BY <1>1, <1>3, <1>6, <1>7, <1>8, <1>9 DEF JrInv

LEMMA TaskGoto ==
    ASSUME JrTyped, NEW w \in Workers, NEW label \in TaskPcs, Goto(w, label)
    PROVE  /\ task' \in [Workers -> TaskRows] /\ \A v \in Workers \ {w} : task'[v] = task[v]
           /\ task'[w].pc = label /\ task'[w].job = task[w].job /\ task'[w].run = task[w].run
           /\ task'[w].goal = task[w].goal
<1> DEFINE row == [task[w] EXCEPT !.pc = label]
<1>1. task \in [Workers -> TaskRows] /\ task[w] \in TaskRows
  BY DEF JrTyped
<1>2. /\ row \in TaskRows /\ row.pc = label /\ row.job = task[w].job /\ row.run = task[w].run
      /\ row.goal = task[w].goal
  BY <1>1 DEF TaskRows
<1>3. task' = [task EXCEPT ![w] = row]
  BY <1>1 DEF Goto
<1> HIDE DEF row
<1> QED BY <1>1, <1>2, <1>3

LEMMA TaskConclude ==
    ASSUME JrTyped, NEW w \in Workers, NEW label \in TaskPcs, NEW outcome \in {"error"} \cup Terminal,
           Conclude(w, outcome, label)
    PROVE  /\ task' \in [Workers -> TaskRows] /\ \A v \in Workers \ {w} : task'[v] = task[v]
           /\ task'[w].pc = label /\ task'[w].job = task[w].job /\ task'[w].run = task[w].run
           /\ task'[w].goal = outcome
<1> DEFINE row == [[task[w] EXCEPT !.pc = label] EXCEPT !.goal = outcome]
<1>1. task \in [Workers -> TaskRows] /\ task[w] \in TaskRows
  BY DEF JrTyped
<1>2. /\ row \in TaskRows /\ row.pc = label /\ row.job = task[w].job /\ row.run = task[w].run
      /\ row.goal = outcome
  BY <1>1 DEF TaskRows
<1>3. task' = [task EXCEPT ![w] = row]
  BY <1>1 DEF Conclude
<1> HIDE DEF row
<1> QED BY <1>1, <1>2, <1>3

LEMMA TaskRelease ==
    ASSUME JrTyped, NEW w \in Workers, Release(w)
    PROVE  /\ task' \in [Workers -> TaskRows] /\ \A v \in Workers \ {w} : task'[v] = task[v]
           /\ task'[w].pc = "next"
<1> DEFINE row == [NoTask EXCEPT !.pc = "next"]
<1>1. task \in [Workers -> TaskRows] /\ task' = [task EXCEPT ![w] = row]
  BY DEF JrTyped, Release
<1>2. row \in TaskRows /\ row.pc = "next"
  BY LabelFacts DEF NoTask, TaskRows
<1> HIDE DEF row
<1> QED BY <1>1, <1>2

\* A step of w that writes no row, and gives a Run up only when disturbed.
LEMMA WorkerQuiet ==
    ASSUME JrInv, TypeOK', PairAgreement', NEW w \in Workers, task[w].pc # "off",
           task' \in [Workers -> TaskRows], \A v \in Workers \ {w} : task'[v] = task[v],
           UNCHANGED <<call, phase, maint, spent, jobState, jobRun>>,
           active' \subseteq Workers, token' \subseteq active',
           \A v \in Workers \ {w} : (v \in active' <=> v \in active) /\ (v \in token => v \in token'),
           TaskOK(w)',
           task'[w].pc \in Owning => task[w].pc \in Owning /\ task'[w].job = task[w].job,
           Undisturbed /\ task[w].pc \in Owning => task'[w].pc \in Owning,
           Undisturbed /\ task'[w].pc \in {"resolve", "engine", "stage"} /\ jobState[task'[w].job] = "cancelling" =>
               w \in token' \/ \E c \in Clients : call[c] = [pc |-> "prompt", job |-> task'[w].job]
    PROVE  JrInv'
<1>1. \A i \in Jobs : Mine(w, i)' => Mine(w, i)
  BY DEF Mine
<1>2. \A i \in Jobs : Undisturbed /\ Mine(w, i) => Mine(w, i)'
  BY DEF Mine
<1>3. \A i \in Jobs : jobState'[i] = jobState[i] /\ jobRun'[i] = jobRun[i]
  OBVIOUS
<1> QED BY <1>1, <1>2, <1>3, WorkerKeeps

\* The steps between two claims: no Run is owned before or after.
LEMMA WorkerUnowned ==
    ASSUME JrInv, TypeOK', PairAgreement', NEW w \in Workers, task[w].pc \notin Owning \cup {"off"},
           task' \in [Workers -> TaskRows], \A v \in Workers \ {w} : task'[v] = task[v],
           UNCHANGED <<call, phase, maint, spent, active, token>>,
           task'[w].pc \notin Owning, task'[w].pc \in {"permit", "claim", "failq"} => task'[w].job \in Jobs,
           \A i \in Jobs : jobState'[i] # jobState[i] => jobState[i] = "queued" /\ jobState'[i] = "failed",
           UNCHANGED jobRun
    PROVE  JrInv'
<1>1. JrTyped /\ TaskOK(w)
  BY DEF JrInv
<1>2. w \notin active /\ TaskOK(w)'
  BY <1>1, LabelFacts DEF TaskOK, Listed
<1>3. \A i \in Jobs : ~Mine(w, i) /\ ~Mine(w, i)'
  BY DEF Mine
<1>4. \A i \in Jobs : /\ jobState[i] \in Active => jobState'[i] = jobState[i]
                      /\ jobState'[i] \in Active => jobState[i] \in Active
  BY LabelFacts
<1>5. task'[w].pc \notin {"resolve", "engine", "stage"} /\ task[w].pc # "off" /\ active \subseteq Workers /\ token \subseteq active
  BY <1>1, LabelFacts DEF JrTyped
<1> QED BY <1>2, <1>3, <1>4, <1>5, WorkerKeeps

LEMMA LoopKeeps ==
    ASSUME JrInv, TypeOK', PairAgreement', NEW w \in Workers,
           TakeSignal(w) \/ LeaveLoop(w) \/ Retry(w) \/ NextQueuedJob(w) \/ AcquirePermit(w)
    PROVE  JrInv'
<1>0. JrTyped /\ TaskOK(w) /\ TypeOK /\ PairAgreement
  BY DEF JrInv
<1>1. UNCHANGED <<call, phase, maint, spent, active, token>>
  BY DEF TakeSignal, LeaveLoop, Retry, NextQueuedJob, AcquirePermit, promptVars, envVars
<1>2. task[w].pc \in {"wait", "retry", "next", "permit"} /\ task[w].pc \notin Owning \cup {"off"}
  BY LabelFacts DEF TakeSignal, LeaveLoop, Retry, NextQueuedJob, AcquirePermit, At
<1>3. {"off", "wait", "next", "retry", "permit", "claim", "failq"} \subseteq TaskPcs \ Owning
  BY LabelFacts
<1>4. ASSUME UNCHANGED cpVars PROVE UNCHANGED jobRun /\ \A i \in Jobs : jobState'[i] = jobState[i]
  BY <1>4 DEF cpVars, jobVars
<1>5. ASSUME NEW label \in {"off", "wait", "next", "retry"}, Goto(w, label), UNCHANGED cpVars PROVE JrInv'
  <2>1. label \in TaskPcs /\ label \notin Owning
    BY <1>3
  <2>2. /\ task' \in [Workers -> TaskRows] /\ \A v \in Workers \ {w} : task'[v] = task[v]
        /\ task'[w].pc = label
    BY <1>0, <1>5, <2>1, TaskGoto
  <2> QED BY <1>1, <1>2, <1>4, <1>5, <2>1, <2>2, WorkerUnowned
<1>6. ASSUME NEW label \in {"claim", "failq"}, Goto(w, label), UNCHANGED cpVars, task[w].pc = "permit" PROVE JrInv'
  <2>1. label \in TaskPcs /\ label \notin Owning /\ task[w].job \in Jobs
    BY <1>0, <1>3, <1>6 DEF TaskOK
  <2>2. /\ task' \in [Workers -> TaskRows] /\ \A v \in Workers \ {w} : task'[v] = task[v]
        /\ task'[w].pc = label /\ task'[w].job = task[w].job
    BY <1>0, <1>6, <2>1, TaskGoto
  <2> QED BY <1>1, <1>2, <1>4, <1>6, <2>1, <2>2, WorkerUnowned
<1>7. ASSUME NEW j \in Jobs, FailCorruptJob(j), UNCHANGED task, task[w].pc = "next" PROVE JrInv'
  <2>1. jobState[j] = "queued" /\ jobState' = [jobState EXCEPT ![j] = "failed"] /\ jobRun' = jobRun
    BY <1>0, <1>7, FailsAloneOnlyQueued
  <2>2. \A i \in Jobs : jobState'[i] # jobState[i] => jobState[i] = "queued" /\ jobState'[i] = "failed"
    BY <1>0, <2>1 DEF TypeOK
  <2> QED BY <1>0, <1>1, <1>2, <1>7, <2>1, <2>2, WorkerUnowned DEF JrTyped
<1>8. ASSUME NEW j \in Jobs, UNCHANGED cpVars, task' = [task EXCEPT ![w].pc = "permit", ![w].job = j] PROVE JrInv'
  <2> DEFINE row == [[task[w] EXCEPT !.pc = "permit"] EXCEPT !.job = j]
  <2>1. task \in [Workers -> TaskRows] /\ task[w] \in TaskRows /\ "permit" \in TaskPcs
    BY <1>0, <1>3 DEF JrTyped
  <2>2. row \in TaskRows /\ row.pc = "permit" /\ row.job = j
    BY <2>1 DEF TaskRows
  <2>3. task' = [task EXCEPT ![w] = row]
    BY <1>8, <2>1
  <2> HIDE DEF row
  <2>4. /\ task' \in [Workers -> TaskRows] /\ \A v \in Workers \ {w} : task'[v] = task[v]
        /\ task'[w].pc = "permit" /\ task'[w].job = j
    BY <2>1, <2>2, <2>3
  <2> QED BY <1>1, <1>2, <1>3, <1>4, <1>8, <2>4, WorkerUnowned
<1>9. CASE TakeSignal(w) \/ LeaveLoop(w) \/ Retry(w)
  BY <1>5, <1>9 DEF TakeSignal, LeaveLoop, Retry
<1>10. CASE NextQueuedJob(w)
  BY <1>5, <1>7, <1>8, <1>10 DEF NextQueuedJob, At
<1>11. CASE AcquirePermit(w)
  BY <1>5, <1>6, <1>11 DEF AcquirePermit, At
<1> QED BY <1>9, <1>10, <1>11

LEMMA ClaimKeeps ==
    ASSUME JrInv, TypeOK', PairAgreement', NEW w \in Workers, Claim(w)
    PROVE  JrInv'
<1>0. JrTyped /\ TaskOK(w) /\ TypeOK /\ PairAgreement
  BY DEF JrInv
<1>1. UNCHANGED <<call, phase, maint, spent, active, token>> /\ task[w].pc = "claim"
  BY DEF Claim, At, promptVars, envVars
<1>2. task[w].pc \notin Owning \cup {"off"} /\ task[w].job \in Jobs /\ w \notin active
  BY <1>0, <1>1, LabelFacts DEF TaskOK, Listed
<1>3. {"next", "failq"} \subseteq TaskPcs \ Owning /\ "push" \in Owning /\ "push" \in TaskPcs
  BY LabelFacts
<1>4. ASSUME NEW label \in {"next", "failq"}, Goto(w, label), UNCHANGED cpVars PROVE JrInv'
  <2>1. label \in TaskPcs /\ label \notin Owning
    BY <1>3
  <2>2. /\ task' \in [Workers -> TaskRows] /\ \A v \in Workers \ {w} : task'[v] = task[v]
        /\ task'[w].pc = label /\ task'[w].job = task[w].job
    BY <1>0, <1>4, <2>1, TaskGoto
  <2>3. UNCHANGED jobRun /\ \A i \in Jobs : jobState'[i] = jobState[i]
    BY <1>4 DEF cpVars, jobVars
  <2> QED BY <1>1, <1>2, <2>1, <2>2, <2>3, WorkerUnowned
<1>5. ASSUME NEW r \in Runs, ClaimJob(task[w].job, r), task' = [task EXCEPT ![w].pc = "push", ![w].run = r] PROVE JrInv'
  <2> DEFINE row == [[task[w] EXCEPT !.pc = "push"] EXCEPT !.run = r]
             j == task[w].job
  <2>1. task \in [Workers -> TaskRows] /\ task[w] \in TaskRows
    BY <1>0 DEF JrTyped
  <2>2. row \in TaskRows /\ row.pc = "push" /\ row.job = j /\ row.run = r
    BY <1>3, <2>1 DEF TaskRows
  <2>3. task' = [task EXCEPT ![w] = row]
    BY <1>5, <2>1
  <2>4. /\ jobState[j] = "queued" /\ jobState' = [jobState EXCEPT ![j] = "running"]
        /\ jobRun' = [jobRun EXCEPT ![j] = r] /\ j \in Jobs
    BY <1>2, <1>5 DEF ClaimJob
  <2> HIDE DEF row, j
  <2>5. /\ task' \in [Workers -> TaskRows] /\ \A v \in Workers \ {w} : task'[v] = task[v]
        /\ task'[w].pc = "push" /\ task'[w].job = j /\ task'[w].run = r
    BY <2>1, <2>2, <2>3
  <2>6. \A i \in Jobs \ {j} : jobState'[i] = jobState[i] /\ jobRun'[i] = jobRun[i]
    BY <1>0, <2>4 DEF TypeOK
  <2>7. jobState'[j] = "running" /\ jobRun'[j] = r /\ jobState[j] \notin Active /\ jobState'[j] \in Active
    BY <1>0, <2>4, LabelFacts DEF TypeOK
  <2>8. \A i \in Jobs : ~Mine(w, i) /\ (Mine(w, i)' <=> i = j)
    BY <1>2, <1>3, <2>4, <2>5 DEF Mine
  <2>9. TaskOK(w)'
    BY <1>1, <1>2, <2>4, <2>5, <2>7 DEF TaskOK, Listed
  <2>10. active' \subseteq Workers /\ token' \subseteq active' /\ task[w].pc # "off" /\ task'[w].pc \notin {"resolve", "engine", "stage"}
    BY <1>0, <1>1, <1>2, <2>5 DEF JrTyped
  <2> QED BY <1>1, <2>5, <2>6, <2>7, <2>8, <2>9, <2>10, WorkerKeeps
<1> QED BY <1>4, <1>5 DEF Claim

LEMMA FailQueuedKeeps ==
    ASSUME JrInv, TypeOK', PairAgreement', NEW w \in Workers, FailQueued(w)
    PROVE  JrInv'
<1>0. JrTyped /\ TaskOK(w) /\ TypeOK /\ PairAgreement
  BY DEF JrInv
<1>1. UNCHANGED <<call, phase, maint, spent, active, token>> /\ task[w].pc = "failq" /\ Goto(w, "next")
  BY DEF FailQueued, At, promptVars, envVars
<1>2. task[w].pc \notin Owning \cup {"off"} /\ task[w].job \in Jobs /\ "next" \in TaskPcs /\ "next" \notin Owning
  BY <1>0, <1>1, LabelFacts DEF TaskOK
<1>3. /\ task' \in [Workers -> TaskRows] /\ \A v \in Workers \ {w} : task'[v] = task[v]
      /\ task'[w].pc = "next"
  BY <1>0, <1>1, <1>2, TaskGoto
<1>4. jobRun' = jobRun /\ \A i \in Jobs : jobState'[i] # jobState[i] => jobState[i] = "queued" /\ jobState'[i] = "failed"
  <2>1. CASE FailJob(task[w].job)
    <3>1. /\ jobState[task[w].job] = "queued" /\ jobState' = [jobState EXCEPT ![task[w].job] = "failed"]
          /\ jobRun' = jobRun
      BY <1>0, <1>2, <2>1, FailsAloneOnlyQueued
    <3> QED BY <1>0, <1>2, <3>1 DEF TypeOK
  <2>2. CASE UNCHANGED cpVars
    BY <2>2 DEF cpVars, jobVars
  <2> QED BY <2>1, <2>2 DEF FailQueued
<1> QED BY <1>1, <1>2, <1>3, <1>4, WorkerUnowned

\* A step of an owner within execute_claimed or finish_claimed: it keeps its
\* Job, and its entry of the active list follows its label.
LEMMA WorkerOwned ==
    ASSUME JrInv, TypeOK', PairAgreement', NEW w \in Workers, task[w].pc \in Owning,
           task' \in [Workers -> TaskRows], \A v \in Workers \ {w} : task'[v] = task[v],
           UNCHANGED <<call, phase, maint, spent, jobState, jobRun>>,
           active' \subseteq Workers, token' \subseteq active',
           \A v \in Workers \ {w} : (v \in active' <=> v \in active) /\ (v \in token => v \in token'),
           task'[w].pc \in Owning, task'[w].job = task[w].job, task'[w].run = task[w].run,
           task'[w].pc = "stage" => task[w].job \in Typed,
           task'[w].pc = "remove" => task'[w].goal \in {"succeeded", "error"},
           task'[w].pc = "finish" => task'[w].goal \in Terminal,
           task'[w].pc = "fallback" => /\ task'[w].goal \in {"failed", "cancelled"}
                                       /\ task'[w].goal = "cancelled" => jobState[task[w].job] = "cancelling",
           w \in active' <=> task'[w].pc \in Listed,
           Undisturbed /\ task'[w].pc \in {"resolve", "engine", "stage"} /\ jobState[task[w].job] = "cancelling" =>
               w \in token' \/ \E c \in Clients : call[c] = [pc |-> "prompt", job |-> task[w].job]
    PROVE  JrInv'
<1>1. task[w].pc # "off" /\ task'[w].pc \notin {"permit", "claim", "failq"}
  BY LabelFacts
<1>2. /\ task[w].job \in Jobs /\ task[w].run \in Runs
      /\ jobRun[task[w].job] = task[w].run /\ jobState[task[w].job] \in Active
  BY OwnRun
<1>3. TaskOK(w)'
  BY <1>1, <1>2 DEF TaskOK
<1> QED BY <1>1, <1>3, WorkerQuiet

LEMMA ListKeeps ==
    ASSUME JrInv, TypeOK', PairAgreement', NEW w \in Workers, PushActive(w) \/ RecheckCancelled(w) \/ RemoveActive(w)
    PROVE  JrInv'
<1>0. JrTyped /\ TaskOK(w)
  BY DEF JrInv
<1>1. UNCHANGED <<call, phase, maint, spent, jobState, jobRun>>
  BY DEF PushActive, RecheckCancelled, RemoveActive, envVars, cpVars, jobVars
<1>2. {"push", "recheck", "resolve", "remove", "finish", "reread"} \subseteq TaskPcs \cap Owning
  BY LabelFacts
<1>3. active \subseteq Workers /\ token \subseteq active /\ (w \in active <=> task[w].pc \in Listed)
  BY <1>0 DEF JrTyped, TaskOK
<1>4. CASE PushActive(w)
  <2>1. task[w].pc = "push" /\ active' = active \cup {w} /\ token' = token /\ Goto(w, "recheck")
    BY <1>4 DEF PushActive, At
  <2>2. /\ task' \in [Workers -> TaskRows] /\ \A v \in Workers \ {w} : task'[v] = task[v]
        /\ task'[w].pc = "recheck" /\ task'[w].job = task[w].job /\ task'[w].run = task[w].run
    BY <1>0, <1>2, <2>1, TaskGoto
  <2>3. w \in active' /\ "recheck" \in Listed
    BY <2>1 DEF Listed
  <2> QED BY <1>1, <1>2, <1>3, <2>1, <2>2, <2>3, WorkerOwned
<1>5. CASE RecheckCancelled(w)
  <2>1. /\ task[w].pc = "recheck" /\ active' = active /\ Goto(w, "resolve")
        /\ token' = IF GateOpen /\ jobState[task[w].job] = "cancelling" THEN token \cup {w} ELSE token
    BY <1>5 DEF RecheckCancelled, At
  <2>2. /\ task' \in [Workers -> TaskRows] /\ \A v \in Workers \ {w} : task'[v] = task[v]
        /\ task'[w].pc = "resolve" /\ task'[w].job = task[w].job /\ task'[w].run = task[w].run
    BY <1>0, <1>2, <2>1, TaskGoto
  <2>3. w \in active /\ w \in active' /\ "resolve" \in Listed
    BY <1>3, <2>1 DEF Listed
  <2>4. token' \subseteq active' /\ \A v \in Workers : v \in token => v \in token'
    BY <1>3, <2>1, <2>3
  <2>5. Undisturbed /\ jobState[task[w].job] = "cancelling" => w \in token'
    BY <2>1 DEF JrInv, GateOpen
  <2> QED BY <1>1, <1>2, <1>3, <2>1, <2>2, <2>3, <2>4, <2>5, WorkerOwned
<1>6. CASE RemoveActive(w)
  <2>1. /\ task[w].pc = "remove" /\ active' = active \ {w} /\ token' = token \ {w}
        /\ Goto(w, IF task[w].goal = "succeeded" THEN "finish" ELSE "reread")
    BY <1>6 DEF RemoveActive, At
  <2>2. PICK label \in {"finish", "reread"} : Goto(w, label) /\ (label = "finish" => task[w].goal = "succeeded")
    BY <2>1
  <2>3. /\ task' \in [Workers -> TaskRows] /\ \A v \in Workers \ {w} : task'[v] = task[v]
        /\ task'[w].pc = label /\ task'[w].job = task[w].job /\ task'[w].run = task[w].run
        /\ task'[w].goal = task[w].goal
    BY <1>0, <1>2, <2>2, TaskGoto
  <2>4. w \notin active' /\ label \notin Listed /\ "succeeded" \in Terminal
    BY <2>1, LabelFacts DEF Listed
  <2>5. label \in Owning /\ task[w].pc \in Owning /\ active' \subseteq Workers /\ token' \subseteq active'
    BY <1>2, <1>3, <2>1, <2>2
  <2>6. \A v \in Workers \ {w} : (v \in active' <=> v \in active) /\ (v \in token => v \in token')
    BY <2>1
  <2> QED BY <1>1, <2>2, <2>3, <2>4, <2>5, <2>6, WorkerOwned
<1> QED BY <1>4, <1>5, <1>6

LEMMA RunKeeps ==
    ASSUME JrInv, TypeOK', PairAgreement', NEW w \in Workers, Resolve(w) \/ Execute(w) \/ Stage(w) \/ RereadOutcome(w)
    PROVE  JrInv'
<1>0. JrTyped /\ TaskOK(w)
  BY DEF JrInv
<1>1. UNCHANGED <<call, phase, maint, spent, active, token>>
  BY DEF Resolve, Execute, Stage, RereadOutcome, promptVars, envVars
<1>2. UNCHANGED <<jobState, jobRun>>
  <2>1. ASSUME NEW a \in Artifacts, NEW r, StageArtifact(a, r) PROVE UNCHANGED <<jobState, jobRun>>
    BY <2>1 DEF StageArtifact, jobVars
  <2>2. CASE UNCHANGED cpVars
    BY <2>2 DEF cpVars, jobVars
  <2> QED BY <2>1, <2>2 DEF Resolve, Execute, Stage, RereadOutcome
<1>3. {"resolve", "engine", "stage", "remove", "finish", "reread"} \subseteq TaskPcs \cap Owning
  BY LabelFacts
<1>4. active \subseteq Workers /\ token \subseteq active /\ (w \in active <=> task[w].pc \in Listed)
  BY <1>0 DEF JrTyped, TaskOK
<1>5. Undisturbed /\ task[w].pc \in {"resolve", "engine", "stage"} /\ jobState[task[w].job] = "cancelling" =>
           w \in token \/ \E c \in Clients : call[c] = [pc |-> "prompt", job |-> task[w].job]
  BY DEF JrInv, CancelPrompted
<1>6. ASSUME task[w].pc \in {"resolve", "engine", "stage"}, NEW outcome \in {"error", "succeeded"}, Conclude(w, outcome, "remove")
      PROVE  JrInv'
  <2>1. outcome \in {"error"} \cup Terminal /\ "remove" \in TaskPcs
    BY <1>3, LabelFacts
  <2>2. /\ task' \in [Workers -> TaskRows] /\ \A v \in Workers \ {w} : task'[v] = task[v]
        /\ task'[w].pc = "remove" /\ task'[w].job = task[w].job /\ task'[w].run = task[w].run
        /\ task'[w].goal = outcome
    BY <1>0, <1>6, <2>1, TaskConclude
  <2>3. w \in active /\ "remove" \in Listed
    BY <1>4, <1>6 DEF Listed
  <2> QED BY <1>1, <1>2, <1>3, <1>4, <1>6, <2>2, <2>3, WorkerOwned
<1>7. ASSUME task[w].pc \in {"resolve", "engine"}, NEW label \in {"engine", "stage"}, Goto(w, label),
             label = "stage" => task[w].job \in Typed
      PROVE  JrInv'
  <2>1. label \in TaskPcs /\ label \in Owning
    BY <1>3
  <2>2. /\ task' \in [Workers -> TaskRows] /\ \A v \in Workers \ {w} : task'[v] = task[v]
        /\ task'[w].pc = label /\ task'[w].job = task[w].job /\ task'[w].run = task[w].run
    BY <1>0, <1>7, <2>1, TaskGoto
  <2>3. w \in active /\ label \in Listed
    BY <1>4, <1>7 DEF Listed
  <2> QED BY <1>1, <1>2, <1>3, <1>4, <1>5, <1>7, <2>1, <2>2, <2>3, WorkerOwned
<1>8. CASE Resolve(w)
  BY <1>6, <1>7, <1>8 DEF Resolve, At
<1>9. CASE Execute(w)
  BY <1>6, <1>7, <1>9 DEF Execute, At
<1>10. CASE Stage(w)
  <2>1. task[w].pc = "stage" /\ task[w].job \in Typed /\ w \in active
    BY <1>0, <1>4, <1>10 DEF Stage, At, TaskOK, Listed
  <2>2. CASE UNCHANGED task
    <3>1. task' \in [Workers -> TaskRows] /\ \A v \in Workers : task'[v] = task[v]
      BY <1>0, <2>2 DEF JrTyped
    <3> QED BY <1>1, <1>2, <1>3, <1>4, <1>5, <2>1, <3>1, WorkerOwned
  <2> QED BY <1>6, <1>10, <2>1, <2>2 DEF Stage
<1>11. CASE RereadOutcome(w)
  <2>1. task[w].pc = "reread" /\ w \notin active /\ "finish" \notin Listed
    BY <1>4, <1>11 DEF RereadOutcome, At, Listed
  <2>2. PICK outcome \in {"cancelled", "failed"} : Conclude(w, outcome, "finish")
    BY <1>11 DEF RereadOutcome
  <2>3. outcome \in {"error"} \cup Terminal /\ outcome \in Terminal /\ "finish" \in TaskPcs
    BY <1>3, LabelFacts
  <2>4. /\ task' \in [Workers -> TaskRows] /\ \A v \in Workers \ {w} : task'[v] = task[v]
        /\ task'[w].pc = "finish" /\ task'[w].job = task[w].job /\ task'[w].run = task[w].run
        /\ task'[w].goal = outcome
    BY <1>0, <2>2, <2>3, TaskConclude
  <2> QED BY <1>1, <1>2, <1>3, <1>4, <2>1, <2>3, <2>4, WorkerOwned
<1> QED BY <1>8, <1>9, <1>10, <1>11

-----------------------------------------------------------------------------
(* finish_claimed: the worker ends its own pair and no other.              *)

LEMMA PublishEnds ==
    ASSUME JrInv, NEW w \in Workers, task[w].pc \in Owning, Publish(w)
    PROVE  /\ \A i \in Jobs \ {task[w].job} : jobState'[i] = jobState[i]
           /\ jobState'[task[w].job] \notin Active /\ jobRun' = jobRun
<1>1. PICK st \in Terminal : EndPair(task[w].run, st)
  BY LabelFacts DEF Publish, SucceedRunAndJob, AbandonRunAndJob
<1>2. task[w].job \in Jobs /\ runJob[task[w].run] = task[w].job /\ TypeOK
  BY OwnRun DEF JrInv
<1>3. jobState' = [jobState EXCEPT ![task[w].job] = st] /\ jobRun' = jobRun
  BY <1>1, <1>2 DEF EndPair
<1>4. st \notin Active
  BY LabelFacts
<1> QED BY <1>2, <1>3, <1>4 DEF TypeOK

LEMMA WorkerReleases ==
    ASSUME JrInv, TypeOK', PairAgreement', NEW w \in Workers, task[w].pc \in {"finish", "fbread", "fallback"},
           Release(w), UNCHANGED <<call, phase, maint, spent, active, token>>,
           Publish(w) \/ (UNCHANGED cpVars /\ ~Undisturbed)
    PROVE  JrInv'
<1>0. JrTyped /\ TaskOK(w)
  BY DEF JrInv
<1>1. /\ task' \in [Workers -> TaskRows] /\ \A v \in Workers \ {w} : task'[v] = task[v]
      /\ task'[w].pc = "next"
  BY <1>0, TaskRelease
<1>2. task[w].pc \in Owning /\ "next" \notin Owning /\ task[w].pc # "off" /\ w \notin active
  BY <1>0, LabelFacts DEF TaskOK, Listed
<1>3. task[w].job \in Jobs /\ active \subseteq Workers /\ token \subseteq active
  BY <1>0, <1>2, OwnRun DEF JrTyped
<1>4. TaskOK(w)'
  BY <1>1, <1>2 DEF TaskOK, Listed
<1>5. \A i \in Jobs : ~Mine(w, i)' /\ (Mine(w, i) <=> i = task[w].job)
  BY <1>1, <1>2 DEF Mine
<1>6. /\ \A i \in Jobs \ {task[w].job} : jobState'[i] = jobState[i]
      /\ jobRun' = jobRun /\ (jobState'[task[w].job] \in Active => jobState[task[w].job] \in Active)
      /\ (Undisturbed => jobState'[task[w].job] \notin Active)
  <2>1. CASE Publish(w)
    BY <1>2, <2>1, PublishEnds
  <2>2. CASE UNCHANGED cpVars /\ ~Undisturbed
    BY <2>2 DEF cpVars, jobVars
  <2> QED BY <2>1, <2>2
<1> QED BY <1>1, <1>2, <1>3, <1>4, <1>5, <1>6, WorkerKeeps

LEMMA FinishKeeps ==
    ASSUME JrInv, TypeOK', PairAgreement', NEW w \in Workers, Finish(w) \/ ReadFallback(w) \/ FinishFallback(w)
    PROVE  JrInv'
<1>0. JrTyped /\ TaskOK(w) /\ (maint => ~Undisturbed)
  BY DEF JrInv
<1>1. UNCHANGED <<call, phase, maint, spent, active, token>>
  BY DEF Finish, ReadFallback, FinishFallback, promptVars, envVars
<1>2. {"finish", "fbread", "fallback"} \subseteq TaskPcs \cap Owning /\ {"finish", "fbread", "fallback"} \cap Listed = {}
  BY LabelFacts DEF Listed
<1>3. active \subseteq Workers /\ token \subseteq active /\ (w \in active <=> task[w].pc \in Listed)
  BY <1>0 DEF JrTyped, TaskOK
<1>4. task[w].pc \in {"finish", "fbread", "fallback"} /\ task[w].pc \in Owning /\ w \notin active
  BY <1>2, <1>3 DEF Finish, ReadFallback, FinishFallback, At
<1>5. ASSUME UNCHANGED cpVars PROVE UNCHANGED <<jobState, jobRun>>
  BY <1>5 DEF cpVars, jobVars
<1>6. CASE Finish(w)
  <2>1. CASE Publish(w) /\ Release(w)
    BY <1>1, <1>4, <2>1, WorkerReleases
  <2>2. CASE Goto(w, "fbread") /\ UNCHANGED cpVars
    <3>1. /\ task' \in [Workers -> TaskRows] /\ \A v \in Workers \ {w} : task'[v] = task[v]
          /\ task'[w].pc = "fbread" /\ task'[w].job = task[w].job /\ task'[w].run = task[w].run
      BY <1>0, <1>2, <2>2, TaskGoto
    <3> QED BY <1>1, <1>2, <1>3, <1>4, <1>5, <2>2, <3>1, WorkerOwned
  <2> QED BY <1>6, <2>1, <2>2 DEF Finish
<1>7. CASE ReadFallback(w)
  <2>1. UNCHANGED cpVars
    BY <1>7 DEF ReadFallback
  <2>2. ASSUME NEW outcome \in {"cancelled", "failed"}, Conclude(w, outcome, "fallback"),
               outcome = "cancelled" => jobState[task[w].job] = "cancelling"
        PROVE  JrInv'
    <3>1. outcome \in {"error"} \cup Terminal /\ "fallback" \in TaskPcs
      BY <1>2, LabelFacts
    <3>2. /\ task' \in [Workers -> TaskRows] /\ \A v \in Workers \ {w} : task'[v] = task[v]
          /\ task'[w].pc = "fallback" /\ task'[w].job = task[w].job /\ task'[w].run = task[w].run
          /\ task'[w].goal = outcome
      BY <1>0, <2>2, <3>1, TaskConclude
    <3> QED BY <1>1, <1>2, <1>3, <1>4, <1>5, <2>1, <2>2, <3>2, WorkerOwned
  <2>3. ASSUME ~GateOpen \/ jobState[task[w].job] \notin Active, Release(w) PROVE JrInv'
    <3>1. ~Undisturbed
      BY <1>0, <1>4, <2>3, OwnRun DEF GateOpen
    <3> QED BY <1>1, <1>4, <2>1, <2>3, <3>1, WorkerReleases
  <2> QED BY <1>7, <2>2, <2>3 DEF ReadFallback
<1>8. CASE FinishFallback(w)
  <2>1. Release(w) /\ task[w].pc = "fallback"
    BY <1>8 DEF FinishFallback, At
  <2>2. CASE Publish(w)
    BY <1>1, <1>4, <2>1, <2>2, WorkerReleases
  <2>3. CASE ~(GateOpen /\ MayEnd(task[w].run, task[w].goal)) /\ UNCHANGED cpVars
    <3>1. task[w].goal \in {"failed", "cancelled"} /\ (task[w].goal = "cancelled" => jobState[task[w].job] = "cancelling")
      BY <1>0, <2>1 DEF TaskOK
    <3>2. /\ runJob[task[w].run] = task[w].job /\ jobState[task[w].job] \in {"running", "cancelling"}
          /\ runState[task[w].run] = jobState[task[w].job]
      BY <1>4, OwnRun, LabelFacts
    <3>3. MayEnd(task[w].run, task[w].goal)
      BY <3>1, <3>2 DEF MayEnd, AllowedRunTransition, AllowedJobTransition
    <3>4. ~Undisturbed
      BY <1>0, <2>3, <3>3 DEF GateOpen
    <3> QED BY <1>1, <1>4, <2>1, <2>3, <3>4, WorkerReleases
  <2> QED BY <1>8, <2>2, <2>3 DEF FinishFallback
<1> QED BY <1>6, <1>7, <1>8

LEMMA WorkerStepKeeps ==
    ASSUME JrInv, [RtNext]_allVars, NEW w \in Workers, WorkerStep(w)
    PROVE  JrInv'
BY RowsAgreeNext, LoopKeeps, ClaimKeeps, FailQueuedKeeps, ListKeeps, RunKeeps, FinishKeeps DEF WorkerStep

-----------------------------------------------------------------------------
(* Callers, submitters and the environment: no task moves.                 *)

\* A step that moves no worker and keeps the same rows active.
LEMMA TasksKept ==
    ASSUME JrInv, TypeOK', PairAgreement', UNCHANGED <<task, active, jobRun>>,
           phase' \in {"up", "closing", "draining", "stopped", "crashed"},
           phase' \in {"stopped", "crashed"} => phase' = phase /\ call' = call,
           phase = "crashed" => phase' = "crashed",
           call' \in [Clients -> CallRows], \A c \in Clients : CallOK(c)',
           token \subseteq token', token' \subseteq active,
           maint' \in BOOLEAN, spent' \in SpentRows, maint' => ~Undisturbed', Undisturbed' => Undisturbed,
           \A i \in Jobs : jobState'[i] \in Active <=> jobState[i] \in Active,
           \A i \in Jobs : jobState[i] = "cancelling" => jobState'[i] = "cancelling",
           Undisturbed' => CancelPrompted'
    PROVE  JrInv'
<1>0. JrTyped /\ OwnersApart /\ IdleSound /\ (\A v \in Workers : TaskOK(v))
  BY DEF JrInv
<1>1. JrTyped'
  BY <1>0 DEF JrTyped
<1>2. OwnersApart' /\ IdleSound'
  BY <1>0 DEF OwnersApart, Mine, IdleSound
<1>3. ASSUME NEW w \in Workers PROVE TaskOK(w)'
  <2>1. TaskOK(w) /\ task'[w] = task[w] /\ "fallback" \in Owning
    BY <1>0, LabelFacts
  <2> QED BY <2>1 DEF TaskOK
<1>4. RowsKept'
  <2> SUFFICES ASSUME Undisturbed', Cardinality(Workers) <= ReconcileLimit
               PROVE  NoAbandonedRow' /\ (phase' = "crashed" => Cardinality(ActiveJobs') <= Cardinality(Workers))
      BY DEF RowsKept
  <2>1. NoAbandonedRow /\ (phase = "crashed" => Cardinality(ActiveJobs) <= Cardinality(Workers))
    BY DEF JrInv, RowsKept
  <2>2. ActiveJobs' = ActiveJobs
    BY DEF ActiveJobs
  <2>3. \A j \in Jobs : Owners(j)' = Owners(j)
    BY DEF Owners
  <2>4. ASSUME phase' # "crashed", NEW j \in Jobs, jobState'[j] \in Active PROVE Owners(j)' # {}
    <3>1. Owners(j) # {}
      BY <2>1, <2>4 DEF NoAbandonedRow
    <3> QED BY <2>3, <3>1
  <2>5. NoAbandonedRow'
    BY <2>4 DEF NoAbandonedRow
  <2>6. phase' = "crashed" => phase = "crashed"
    OBVIOUS
  <2> QED BY <2>1, <2>2, <2>5, <2>6
<1> QED BY <1>1, <1>2, <1>3, <1>4 DEF JrInv

\* With the rows and the calls as they were, the prompts are as they were.
LEMMA PromptsKept ==
    ASSUME CancelPrompted, UNCHANGED <<task, call>>, token \subseteq token',
           \A w \in Workers : task[w].pc \in Owning =>
               (jobState'[task[w].job] = "cancelling" => jobState[task[w].job] = "cancelling")
    PROVE  CancelPrompted'
BY LabelFacts DEF CancelPrompted

LEMMA EnvironmentKeeps ==
    ASSUME JrInv, TypeOK', PairAgreement',
           \/ BeginShutdown \/ PromptActive \/ SubmitterWakes \/ BeginMaintenance \/ EndMaintenance
           \/ BeginPreview \/ EndPreview \/ \E j \in Jobs, k \in Keys, d \in Digests : Submit(j, k, d)
    PROVE  JrInv'
<1>0. JrTyped /\ TypeOK /\ PairAgreement /\ (maint => ~Undisturbed) /\ (Undisturbed => CancelPrompted)
      /\ (\A c \in Clients : CallOK(c)) /\ \A w \in Workers : TaskOK(w)
  BY DEF JrInv
<1>1. UNCHANGED <<task, active, call>>
  BY DEF BeginShutdown, PromptActive, SubmitterWakes, BeginMaintenance, EndMaintenance, BeginPreview, EndPreview,
     Submit, promptVars
<1>2. call' \in [Clients -> CallRows] /\ \A c \in Clients : CallOK(c)'
  BY <1>0, <1>1 DEF JrTyped, CallOK
<1>3. /\ phase' \in {"up", "closing", "draining", "stopped", "crashed"}
      /\ phase' \in {"stopped", "crashed"} => phase' = phase
      /\ phase = "crashed" => phase' = "crashed"
  BY <1>0 DEF BeginShutdown, PromptActive, SubmitterWakes, BeginMaintenance, EndMaintenance, BeginPreview, EndPreview,
     Submit, envVars, JrTyped
<1>4. token \subseteq token' /\ token' \subseteq active
  BY <1>0 DEF BeginShutdown, PromptActive, SubmitterWakes, BeginMaintenance, EndMaintenance, BeginPreview, EndPreview,
     Submit, promptVars, JrTyped
<1>5. maint' \in BOOLEAN /\ spent' \in SpentRows /\ (maint' => ~Undisturbed') /\ (Undisturbed' => Undisturbed)
  <2>1. CASE BeginShutdown \/ BeginPreview
    <3>1. PICK what \in {"stop", "preview"} : spent' = [spent EXCEPT ![what] = @ + 1] /\ maint' = maint
      BY <2>1 DEF BeginShutdown, BeginPreview, Spend
    <3>2. spent \in SpentRows /\ maint \in BOOLEAN
      BY <1>0 DEF JrTyped
    <3>3. spent' \in SpentRows /\ spent'.maintenance = spent.maintenance
      BY <3>1, <3>2 DEF SpentRows
    <3> QED BY <1>0, <3>1, <3>2, <3>3 DEF Undisturbed
  <2>2. CASE BeginMaintenance
    <3>1. spent' = [spent EXCEPT !.maintenance = @ + 1] /\ maint' = TRUE
      BY <2>2 DEF BeginMaintenance, Spend
    <3>2. spent \in SpentRows
      BY <1>0 DEF JrTyped
    <3>3. spent' \in SpentRows /\ spent'.maintenance = spent.maintenance + 1 /\ spent.maintenance \in Nat
      BY <3>1, <3>2 DEF SpentRows
    <3> QED BY <3>1, <3>3 DEF Undisturbed
  <2>3. CASE UNCHANGED spent /\ (maint' = maint \/ maint' = FALSE)
    <3>1. spent' = spent /\ spent \in SpentRows /\ maint \in BOOLEAN
      BY <1>0, <2>3 DEF JrTyped
    <3>2. maint' \in BOOLEAN /\ (maint' => maint)
      <4>1. CASE maint' = maint
        BY <3>1, <4>1
      <4>2. CASE maint' = FALSE
        BY <4>2
      <4> QED BY <2>3, <4>1, <4>2
    <3>3. Undisturbed' <=> Undisturbed
      BY <3>1 DEF Undisturbed
    <3> QED BY <1>0, <3>1, <3>2, <3>3
  <2> QED BY <2>1, <2>2, <2>3 DEF PromptActive, SubmitterWakes, EndMaintenance, EndPreview, Submit, envVars
<1>6. /\ UNCHANGED jobRun
      /\ \A i \in Jobs : jobState'[i] # jobState[i] => jobState[i] \notin Active /\ jobState'[i] \notin Active
  <2>1. ASSUME NEW j \in Jobs, NEW k \in Keys, NEW d \in Digests, SubmitJob(j, k, d)
        PROVE  /\ UNCHANGED jobRun
               /\ \A i \in Jobs : jobState'[i] # jobState[i] => jobState[i] \notin Active /\ jobState'[i] \notin Active
    <3>1. jobState[j] = "absent" /\ jobState' = [jobState EXCEPT ![j] = "queued"] /\ jobRun' = jobRun
      BY <2>1 DEF SubmitJob
    <3> QED BY <1>0, <3>1, LabelFacts DEF TypeOK
  <2>2. CASE UNCHANGED cpVars
    BY <2>2 DEF cpVars, jobVars
  <2> QED BY <2>1, <2>2 DEF BeginShutdown, PromptActive, SubmitterWakes, BeginMaintenance, EndMaintenance, BeginPreview,
         EndPreview, Submit
<1>7. /\ \A i \in Jobs : jobState'[i] \in Active <=> jobState[i] \in Active
      /\ \A i \in Jobs : jobState'[i] = "cancelling" <=> jobState[i] = "cancelling"
  BY <1>6, LabelFacts
<1>8. Undisturbed' => CancelPrompted'
  <2>1. \A w \in Workers : task[w].pc \in Owning => task[w].job \in Jobs
    BY <1>0 DEF TaskOK
  <2> QED BY <1>0, <1>1, <1>4, <1>5, <1>7, <2>1, PromptsKept
<1> QED BY <1>1, <1>2, <1>3, <1>4, <1>5, <1>6, <1>7, <1>8, TasksKept

LEMMA CallRow ==
    ASSUME JrTyped, NEW c \in Clients, NEW row \in CallRows, call' = [call EXCEPT ![c] = row]
    PROVE  /\ call' \in [Clients -> CallRows] /\ call'[c] = row
           /\ \A b \in Clients \ {c} : call'[b] = call[b]
BY DEF JrTyped

\* A step of one caller c of cancel.  Its own prompt may go only with the
\* token cancelled, and a new cancellation brings its prompt.
LEMMA CallerKeeps ==
    ASSUME JrInv, TypeOK', PairAgreement', NEW c \in Clients, NEW row \in CallRows,
           phase \in {"up", "closing", "draining"},
           UNCHANGED <<task, active, jobRun, phase, maint, spent>>, call' = [call EXCEPT ![c] = row],
           row.pc # "idle" => row.job \in Jobs,
           token \subseteq token', token' \subseteq active,
           \A i \in Jobs : jobState'[i] \in Active <=> jobState[i] \in Active,
           \A i \in Jobs : jobState[i] = "cancelling" => jobState'[i] = "cancelling",
           \A i \in Jobs : jobState'[i] = "cancelling" /\ jobState[i] # "cancelling" => row = [pc |-> "prompt", job |-> i],
           call[c].pc = "prompt" => \A w \in active : task[w].job = call[c].job => w \in token'
    PROVE  JrInv'
<1>0. /\ JrTyped /\ TypeOK /\ PairAgreement /\ (maint => ~Undisturbed) /\ (Undisturbed => CancelPrompted)
      /\ (\A b \in Clients : CallOK(b)) /\ \A w \in Workers : TaskOK(w)
  BY DEF JrInv
<1>1. /\ call' \in [Clients -> CallRows] /\ call'[c] = row
      /\ \A b \in Clients \ {c} : call'[b] = call[b]
  BY <1>0, CallRow
<1>2. \A b \in Clients : CallOK(b)'
  BY <1>0, <1>1 DEF CallOK
<1>3. (maint' => ~Undisturbed') /\ (Undisturbed' => Undisturbed) /\ maint' \in BOOLEAN /\ spent' \in SpentRows
  BY <1>0 DEF JrTyped, Undisturbed
<1>4. ASSUME Undisturbed PROVE CancelPrompted'
  <2> SUFFICES ASSUME NEW w \in Workers, task[w].pc \in {"resolve", "engine", "stage"},
                      jobState'[task[w].job] = "cancelling", w \notin token'
               PROVE  \E b \in Clients : call'[b] = [pc |-> "prompt", job |-> task[w].job]
      BY DEF CancelPrompted
  <2>1. task[w].job \in Jobs /\ w \in active
    <3>1. TaskOK(w) /\ task[w].pc \in Owning /\ task[w].pc \in Listed
      BY <1>0, LabelFacts DEF Listed
    <3> QED BY <3>1 DEF TaskOK
  <2>2. CASE jobState[task[w].job] # "cancelling"
    BY <1>1, <2>1, <2>2
  <2>3. CASE jobState[task[w].job] = "cancelling"
    <3>1. CancelPrompted /\ w \notin token
      BY <1>0, <1>4
    <3>2. PICK b \in Clients : call[b] = [pc |-> "prompt", job |-> task[w].job]
      BY <2>3, <3>1 DEF CancelPrompted
    <3>3. b # c
      BY <2>1, <3>2
    <3> QED BY <1>1, <3>2, <3>3
  <2> QED BY <2>2, <2>3
<1>5. phase' \in {"up", "closing", "draining", "stopped", "crashed"} /\ phase' \notin {"stopped", "crashed"} /\ phase # "crashed"
  OBVIOUS
<1> QED BY <1>1, <1>2, <1>3, <1>4, <1>5, TasksKept

LEMMA CallStepKeeps ==
    ASSUME JrInv, TypeOK', PairAgreement', NEW c \in Clients, (\E j \in Jobs : CancelRead(c, j)) \/ CallStep(c)
    PROVE  JrInv'
<1>0. /\ JrTyped /\ TypeOK /\ PairAgreement /\ IdleSound /\ CallOK(c)
  BY DEF JrInv
<1>1. UNCHANGED <<task, active, phase, maint, spent>>
  BY DEF CancelRead, CallStep, CancelQueued, CancelReread, CancelRunning, PromptToken, envVars, promptVars
<1>2. phase \in {"up", "closing", "draining"}
  <2>1. CASE phase = "up"
    BY <2>1
  <2>2. CASE call[c].pc # "idle"
    BY <1>0, <2>2 DEF IdleSound, NoCall, JrTyped
  <2> QED BY <2>1, <2>2 DEF CancelRead, CallStep, CancelQueued, CancelReread, CancelRunning, PromptToken
<1>3. /\ call \in [Clients -> CallRows] /\ NoCall \in CallRows /\ NoCall.pc = "idle"
      /\ active \subseteq Workers /\ token \subseteq active
  BY <1>0 DEF JrTyped, NoCall, CallRows, CallLabels
<1>4. ASSUME UNCHANGED cpVars
      PROVE  UNCHANGED jobRun /\ \A i \in Jobs : jobState'[i] = jobState[i]
  BY <1>4 DEF cpVars, jobVars
<1>5. ASSUME UNCHANGED <<cpVars, token>>, NEW row \in CallRows, call' = [call EXCEPT ![c] = row], row.pc # "idle" => row.job \in Jobs,
             call[c].pc # "prompt"
      PROVE  JrInv'
  BY <1>1, <1>2, <1>3, <1>4, <1>5, CallerKeeps
<1>6. ASSUME NEW label \in CallLabels, CallGoto(c, label), call[c].pc # "idle"
      PROVE  \E row \in CallRows : /\ call' = [call EXCEPT ![c] = row] /\ row.pc = label /\ row.job = call[c].job
                                   /\ row.job \in Jobs /\ row = [pc |-> label, job |-> call[c].job]
  <2> DEFINE row == [call[c] EXCEPT !.pc = label]
  <2>1. call[c] \in CallRows /\ call[c].job \in Jobs
    BY <1>0, <1>3, <1>6 DEF CallOK
  <2>2. row \in CallRows /\ row.pc = label /\ row.job = call[c].job /\ row = [pc |-> label, job |-> call[c].job]
    BY <2>1 DEF CallRows
  <2>3. call' = [call EXCEPT ![c] = row]
    BY <1>3, <1>6 DEF CallGoto
  <2> HIDE DEF row
  <2> QED BY <2>1, <2>2, <2>3
<1>7. ASSUME NEW j \in Jobs, CancelRead(c, j) PROVE JrInv'
  <2>1. PICK row \in {[pc |-> "cancelQueued", job |-> j], [pc |-> "reread", job |-> j]} : call' = [call EXCEPT ![c] = row]
    BY <1>7 DEF CancelRead
  <2>2. row \in CallRows /\ row.job \in Jobs /\ UNCHANGED <<cpVars, token>> /\ call[c].pc # "prompt"
    BY <1>7 DEF CancelRead, CallRows, CallLabels, promptVars, NoCall
  <2> QED BY <1>5, <2>1, <2>2
<1>8. ASSUME CancelQueued(c) PROVE JrInv'
  <2>1. call[c].pc = "cancelQueued" /\ token' = token /\ call[c].job \in Jobs
    BY <1>0, <1>8 DEF CancelQueued, promptVars, CallOK
  <2>2. CASE CancelQueuedJob(call[c].job) /\ Return(c)
    <3>1. /\ jobState[call[c].job] = "queued" /\ jobState' = [jobState EXCEPT ![call[c].job] = "cancelled"]
          /\ jobRun' = jobRun /\ call' = [call EXCEPT ![c] = NoCall]
      BY <2>2 DEF CancelQueuedJob, Return
    <3>2. \A i \in Jobs : jobState'[i] = jobState[i] \/ (jobState[i] = "queued" /\ jobState'[i] = "cancelled")
      BY <1>0, <2>1, <3>1 DEF TypeOK
    <3>3. /\ \A i \in Jobs : jobState'[i] \in Active <=> jobState[i] \in Active
          /\ \A i \in Jobs : jobState'[i] = "cancelling" <=> jobState[i] = "cancelling"
      BY <3>2, LabelFacts
    <3> QED BY <1>1, <1>2, <1>3, <2>1, <3>1, <3>3, CallerKeeps
  <2>3. CASE Return(c) /\ UNCHANGED cpVars
    BY <1>3, <1>5, <2>1, <2>3 DEF Return
  <2>4. CASE CallGoto(c, "reread") /\ UNCHANGED cpVars
    <3>1. PICK row \in CallRows : call' = [call EXCEPT ![c] = row] /\ row.job \in Jobs
      BY <1>6, <2>1, <2>4 DEF CallLabels
    <3> QED BY <1>5, <2>1, <2>4, <3>1
  <2> QED BY <1>8, <2>2, <2>3, <2>4 DEF CancelQueued
<1>9. ASSUME CancelReread(c) PROVE JrInv'
  <2>1. call[c].pc = "reread" /\ UNCHANGED <<cpVars, token>>
    BY <1>9 DEF CancelReread, promptVars
  <2>2. CASE CallGoto(c, "cancelRunning")
    <3>1. PICK row \in CallRows : call' = [call EXCEPT ![c] = row] /\ row.job \in Jobs
      BY <1>6, <2>1, <2>2 DEF CallLabels
    <3> QED BY <1>5, <2>1, <3>1
  <2>3. CASE Return(c)
    BY <1>3, <1>5, <2>1, <2>3 DEF Return
  <2> QED BY <1>9, <2>2, <2>3 DEF CancelReread
<1>10. ASSUME CancelRunning(c) PROVE JrInv'
  <2>1. call[c].pc = "cancelRunning" /\ token' = token /\ call[c].job \in Jobs
    BY <1>0, <1>10 DEF CancelRunning, promptVars, CallOK
  <2>2. CASE CancelRunningJob(call[c].job) /\ CallGoto(c, "prompt")
    <3>1. /\ jobState[call[c].job] = "running" /\ jobState' = [jobState EXCEPT ![call[c].job] = "cancelling"]
          /\ jobRun' = jobRun
      BY <2>2 DEF CancelRunningJob
    <3>2. PICK row \in CallRows : call' = [call EXCEPT ![c] = row] /\ row.job \in Jobs /\ row = [pc |-> "prompt", job |-> call[c].job]
      BY <1>6, <2>1, <2>2 DEF CallLabels
    <3>3. \A i \in Jobs : jobState'[i] = jobState[i]
                          \/ (i = call[c].job /\ jobState[i] = "running" /\ jobState'[i] = "cancelling")
      BY <1>0, <2>1, <3>1 DEF TypeOK
    <3>4. /\ \A i \in Jobs : jobState'[i] \in Active <=> jobState[i] \in Active
          /\ \A i \in Jobs : jobState[i] = "cancelling" => jobState'[i] = "cancelling"
          /\ \A i \in Jobs : jobState'[i] = "cancelling" /\ jobState[i] # "cancelling" => row = [pc |-> "prompt", job |-> i]
      BY <3>2, <3>3, LabelFacts
    <3> QED BY <1>1, <1>2, <1>3, <2>1, <3>1, <3>2, <3>4, CallerKeeps
  <2>3. CASE Return(c) /\ UNCHANGED cpVars
    BY <1>3, <1>5, <2>1, <2>3 DEF Return
  <2> QED BY <1>10, <2>2, <2>3 DEF CancelRunning
<1>11. ASSUME PromptToken(c) PROVE JrInv'
  <2>1. /\ token' = token \cup {w \in active : task[w].job = call[c].job} /\ UNCHANGED cpVars
        /\ call' = [call EXCEPT ![c] = NoCall]
    BY <1>11 DEF PromptToken, Return
  <2>2. token \subseteq token' /\ token' \subseteq active /\ \A w \in active : task[w].job = call[c].job => w \in token'
    BY <1>3, <2>1
  <2> QED BY <1>1, <1>2, <1>3, <1>4, <2>1, <2>2, CallerKeeps
<1> QED BY <1>7, <1>8, <1>9, <1>10, <1>11 DEF CallStep

-----------------------------------------------------------------------------
(* The death and the start of the process.                                 *)

\* What is covered by one worker each is no more than there are workers.
LEMMA CoveredByWorkers ==
    ASSUME NEW T, NEW f, \A t \in T : \E w \in Workers : f[w] = t
    PROVE  IsFiniteSet(T) /\ Cardinality(T) <= Cardinality(Workers)
<1> DEFINE U == {w \in Workers : f[w] \in T}
           g == [w \in U |-> f[w]]
<1>1. U \in SUBSET Workers /\ IsFiniteSet(Workers)
  BY RtConstants
<1>2. IsFiniteSet(U) /\ Cardinality(U) <= Cardinality(Workers)
  BY <1>1, FS_Subset
<1>3. g \in Surjection(U, T)
  BY DEF Surjection
<1> HIDE DEF U, g
<1>4. IsFiniteSet(T) /\ Cardinality(T) <= Cardinality(U)
  BY <1>2, <1>3, FS_Surjection
<1>5. Cardinality(T) \in Nat /\ Cardinality(U) \in Nat /\ Cardinality(Workers) \in Nat
  BY <1>2, <1>4, FS_CardinalityType, RtConstants
<1> QED BY <1>2, <1>4, <1>5

\* Every task starts over, and nothing is left in memory.
LEMMA Restarted ==
    ASSUME TypeOK', PairAgreement', NEW t \in TaskRows, task' = [w \in Workers |-> t], t.pc \in {"off", "wait"},
           call' \in [Clients -> CallRows], \A c \in Clients : call'[c] = NoCall,
           active' = {}, token' = {},
           phase' \in {"up", "stopped", "crashed"}, phase' # "up" => t = NoTask,
           maint' \in BOOLEAN, spent' \in SpentRows, maint' => ~Undisturbed', RowsKept'
    PROVE  JrInv'
<1>1. t.pc \notin Owning /\ t.pc \notin Listed
  BY LabelFacts DEF Listed
<1>2. \A w \in Workers : task'[w] = t
  OBVIOUS
<1>3. JrTyped'
  BY DEF JrTyped
<1>4. OwnersApart' /\ IdleSound'
  BY <1>1, <1>2 DEF OwnersApart, Mine, IdleSound
<1>5. \A w \in Workers : TaskOK(w)'
  BY <1>1, <1>2 DEF TaskOK
<1>6. \A c \in Clients : CallOK(c)'
  BY DEF CallOK, NoCall
<1>7. CancelPrompted'
  BY <1>2 DEF CancelPrompted
<1> QED BY <1>3, <1>4, <1>5, <1>6, <1>7 DEF JrInv

LEMMA IdleMemory ==
    ASSUME JrInv, phase \in {"stopped", "crashed"}
    PROVE  /\ active = {} /\ token = {} /\ \A c \in Clients : call[c] = NoCall
           /\ \A j \in Jobs : Owners(j) = {}
<1>1. JrTyped /\ IdleSound /\ \A w \in Workers : TaskOK(w)
  BY DEF JrInv
<1>2. \A w \in Workers : task[w].pc = "off"
  BY <1>1 DEF IdleSound, NoTask
<1>3. \A w \in Workers : w \notin active
  BY <1>1, <1>2 DEF TaskOK, Listed
<1>4. \A j \in Jobs : Owners(j) = {}
  BY <1>2, LabelFacts DEF Owners
<1> QED BY <1>1, <1>3, <1>4 DEF JrTyped, IdleSound

LEMMA FreshRows ==
    /\ NoTask \in TaskRows /\ NoTask.pc = "off" /\ NoCall \in CallRows
    /\ [NoTask EXCEPT !.pc = "wait"] \in TaskRows /\ [NoTask EXCEPT !.pc = "wait"].pc = "wait"
BY LabelFacts DEF NoTask, TaskRows, NoCall, CallRows, CallLabels

LEMMA StopKeeps ==
    ASSUME JrInv, TypeOK', PairAgreement', Crash \/ JoinWorkers
    PROVE  JrInv'
<1>0. JrTyped /\ (maint => ~Undisturbed) /\ RowsKept /\ \A w \in Workers : TaskOK(w)
  BY DEF JrInv
<1>1. /\ task' = [w \in Workers |-> NoTask] /\ active' = {} /\ token' = {}
      /\ call' = [c \in Clients |-> NoCall] /\ maint' = FALSE /\ UNCHANGED <<jobState, jobRun>>
  BY DEF Crash, JoinWorkers, Forget, cpVars, jobVars
<1>2. phase' \in {"stopped", "crashed"} /\ phase # "crashed"
  BY DEF Crash, JoinWorkers
<1>3. spent' \in SpentRows /\ spent'.maintenance = spent.maintenance
  <2>1. spent \in SpentRows
    BY <1>0 DEF JrTyped
  <2>2. spent' = spent \/ spent' = [spent EXCEPT !.crash = @ + 1]
    BY DEF Crash, JoinWorkers, Spend
  <2> QED BY <2>1, <2>2 DEF SpentRows
<1>4. RowsKept'
  <2> SUFFICES ASSUME Undisturbed, Cardinality(Workers) <= ReconcileLimit
               PROVE  NoAbandonedRow' /\ (phase' = "crashed" => Cardinality(ActiveJobs') <= Cardinality(Workers))
      BY <1>3 DEF RowsKept, Undisturbed
  <2>1. \A j \in Jobs : jobState[j] \in Active => Owners(j) # {}
    BY <1>0, <1>2 DEF RowsKept, NoAbandonedRow
  <2>2. ActiveJobs' = ActiveJobs
    BY <1>1 DEF ActiveJobs
  <2>3. CASE Crash
    <3>1. phase' = "crashed"
      BY <2>3 DEF Crash
    <3> DEFINE f == [w \in Workers |-> task[w].job]
    <3>2. \A j \in ActiveJobs : \E w \in Workers : f[w] = j
      BY <2>1 DEF ActiveJobs, Owners
    <3> HIDE DEF f
    <3>3. Cardinality(ActiveJobs) <= Cardinality(Workers)
      BY <3>2, CoveredByWorkers
    <3> QED BY <2>2, <3>1, <3>3 DEF NoAbandonedRow
  <2>4. CASE JoinWorkers
    <3>1. \A w \in Workers : task[w].pc \notin Owning
      BY <2>4, LabelFacts DEF JoinWorkers, At
    <3>2. \A j \in Jobs : jobState'[j] \notin Active
      BY <1>1, <2>1, <3>1 DEF Owners
    <3>3. phase' = "stopped"
      BY <2>4 DEF JoinWorkers
    <3> QED BY <3>2, <3>3 DEF NoAbandonedRow
  <2> QED BY <2>3, <2>4
<1> QED BY <1>1, <1>2, <1>3, <1>4, FreshRows, Restarted

\* reconcile_on_start ends every pair that a dead process left active, as
\* long as there are no more of them than RECONCILIATION_LIMIT.
LEMMA ReconciledAll ==
    ASSUME JrInv, ReconcileOnStart, Cardinality(ActiveJobs) <= ReconcileLimit
    PROVE  \A j \in Jobs : jobState'[j] \notin Active
<1> DEFINE candidates == {j \in Jobs : Reconcilable(j)}
<1>0. TypeOK /\ PairAgreement
  BY DEF JrInv
<1>1. candidates = ActiveJobs
  <2>1. ASSUME NEW j \in Jobs, jobState[j] \in Active PROVE Reconcilable(j)
    <3>1. jobRun[j] # NoRun /\ jobRun[j] \in Runs
      <4>1. jobRun[j] \in Runs \cup {NoRun}
        BY <1>0 DEF TypeOK
      <4>2. jobState[j] \in {"running", "cancelling"}
        BY <2>1, LabelFacts
      <4>3. jobRun[j] # NoRun
        BY <1>0, <4>2 DEF PairAgreement
      <4> QED BY <4>1, <4>3
    <3>2. runState[jobRun[j]] # "absent" /\ runJob[jobRun[j]] = j
      BY <1>0, <3>1 DEF PairAgreement
    <3>3. jobState[runJob[jobRun[j]]] = runState[jobRun[j]]
      BY <1>0, <3>1, <3>2 DEF PairAgreement
    <3> QED BY <2>1, <3>1, <3>2, <3>3 DEF Reconcilable
  <2> QED BY <2>1 DEF ActiveJobs, Reconcilable
<1>2. ActiveJobs \in SUBSET Jobs /\ IsFiniteSet(ActiveJobs) /\ Cardinality(ActiveJobs) \in Nat
  <2>1. ActiveJobs \in SUBSET Jobs /\ IsFiniteSet(Jobs)
    BY RtConstants DEF ActiveJobs
  <2> QED BY <2>1, FS_Subset, FS_CardinalityType
<1>3. CASE candidates = {} /\ UNCHANGED cpVars
  BY <1>1, <1>3 DEF ActiveJobs, cpVars, jobVars
<1>4. ASSUME NEW lost \in SUBSET candidates, ReconcileJobs(lost),
             Cardinality(lost) = Least(ReconcileLimit, Cardinality(candidates))
      PROVE  \A j \in Jobs : jobState'[j] \notin Active
  <2>1. Cardinality(lost) = Cardinality(ActiveJobs)
    BY <1>1, <1>2, <1>4, RtConstants DEF Least
  <2>2. lost \in SUBSET ActiveJobs
    BY <1>1
  <2>3. lost = ActiveJobs
    BY <1>2, <2>1, <2>2, FS_Subset
  <2>4. jobState' = [j \in Jobs |-> IF j \in lost THEN "failed" ELSE jobState[j]]
    BY <1>4 DEF ReconcileJobs
  <2> QED BY <2>3, <2>4, LabelFacts DEF ActiveJobs
<1> QED BY <1>3, <1>4 DEF ReconcileOnStart

LEMMA StartKeeps ==
    ASSUME JrInv, TypeOK', PairAgreement', StartRuntime
    PROVE  JrInv'
<1>0. JrTyped /\ (maint => ~Undisturbed) /\ RowsKept
  BY DEF JrInv
<1>1. /\ phase \in {"stopped", "crashed"} /\ phase' = "up" /\ ReconcileOnStart
      /\ task' = [w \in Workers |-> [NoTask EXCEPT !.pc = "wait"]]
      /\ UNCHANGED <<active, token, call, maint, spent>>
  BY DEF StartRuntime, SpawnWorkers, promptVars
<1>2. active = {} /\ token = {} /\ (\A c \in Clients : call[c] = NoCall) /\ \A j \in Jobs : Owners(j) = {}
  BY <1>1, IdleMemory
<1>3. call \in [Clients -> CallRows] /\ maint \in BOOLEAN /\ spent \in SpentRows /\ (Undisturbed' <=> Undisturbed)
  BY <1>0, <1>1 DEF JrTyped, Undisturbed
<1>4. RowsKept'
  <2> SUFFICES ASSUME Undisturbed, Cardinality(Workers) <= ReconcileLimit
               PROVE  NoAbandonedRow' /\ (phase' = "crashed" => Cardinality(ActiveJobs') <= Cardinality(Workers))
      BY <1>3 DEF RowsKept
  <2>1. NoAbandonedRow /\ (phase = "crashed" => Cardinality(ActiveJobs) <= Cardinality(Workers))
    BY <1>0 DEF RowsKept
  <2>2. Cardinality(ActiveJobs) <= ReconcileLimit
    <3>1. CASE phase = "stopped"
      <4>1. ActiveJobs = {}
        BY <1>2, <2>1, <3>1 DEF NoAbandonedRow, ActiveJobs
      <4> QED BY <4>1, FS_EmptySet, RtConstants
    <3>2. CASE phase = "crashed"
      <4>1. ActiveJobs \in SUBSET Jobs /\ IsFiniteSet(Jobs)
        BY RtConstants DEF ActiveJobs
      <4>2. Cardinality(ActiveJobs) \in Nat
        BY <4>1, FS_Subset, FS_CardinalityType
      <4> QED BY <2>1, <3>2, <4>2, RtConstants
    <3> QED BY <1>1, <3>1, <3>2
  <2>3. \A j \in Jobs : jobState'[j] \notin Active
    BY <1>1, <2>2, ReconciledAll
  <2> QED BY <1>1, <2>3 DEF NoAbandonedRow
<1>5. maint' => ~Undisturbed'
  BY <1>0, <1>1, <1>3
<1> QED BY <1>1, <1>2, <1>3, <1>4, <1>5, FreshRows, Restarted

-----------------------------------------------------------------------------
LEMMA JrInvInductive == JrInv /\ [RtNext]_allVars => JrInv'
<1> SUFFICES ASSUME JrInv, [RtNext]_allVars PROVE JrInv'
    OBVIOUS
<1>1. TypeOK' /\ PairAgreement'
  BY RowsAgreeNext
<1>2. CASE UNCHANGED allVars
  <2>1. /\ UNCHANGED <<jobState, jobRun, task, active, token, call, phase, maint, spent>>
    BY <1>2 DEF allVars, rtVars, cpVars, jobVars, promptVars, envVars
  <2>2. JrTyped' /\ OwnersApart' /\ IdleSound' /\ (\A w \in Workers : TaskOK(w)') /\ (\A c \in Clients : CallOK(c)')
    BY <2>1 DEF JrInv, JrTyped, OwnersApart, Mine, IdleSound, TaskOK, CallOK
  <2>3. (maint' => ~Undisturbed') /\ (Undisturbed' => CancelPrompted') /\ RowsKept'
    BY <2>1 DEF JrInv, Undisturbed, CancelPrompted, RowsKept, NoAbandonedRow, Owners, ActiveJobs
  <2> QED BY <1>1, <2>2, <2>3 DEF JrInv
<1>3. CASE StartRuntime
  BY <1>1, <1>3, StartKeeps
<1>4. CASE Crash \/ JoinWorkers
  BY <1>1, <1>4, StopKeeps
<1>5. ASSUME NEW w \in Workers, WorkerStep(w) PROVE JrInv'
  BY <1>5, WorkerStepKeeps
<1>6. ASSUME NEW c \in Clients, (\E j \in Jobs : CancelRead(c, j)) \/ CallStep(c) PROVE JrInv'
  BY <1>1, <1>6, CallStepKeeps
<1>7. ASSUME \/ BeginShutdown \/ PromptActive \/ SubmitterWakes \/ BeginMaintenance \/ EndMaintenance
             \/ BeginPreview \/ EndPreview \/ \E j \in Jobs, k \in Keys, d \in Digests : Submit(j, k, d)
      PROVE  JrInv'
  BY <1>1, <1>7, EnvironmentKeeps
<1> QED BY <1>2, <1>3, <1>4, <1>5, <1>6, <1>7 DEF RtNext

LEMMA RuntimeInvariant == RtSpec => []JrInv
<1> QED BY JrInvInit, JrInvInductive, PTL DEF RtSpec

\* Whatever order workers, callers, submitters, shutdown and the death of the
\* process interleave in, job_runtime.rs changes the durable rows only by the
\* transactions of control_plane.rs: the runtime implements the control plane,
\* and every theorem about the rows holds under it.
THEOREM RuntimeImplementsControlPlane == RtSpec => Spec
<1>1. RtInit => Init
  BY DEF RtInit
<1>2. JrInv /\ [RtNext]_allVars => [Next]_cpVars
  BY RuntimeWrites
<1> QED BY <1>1, <1>2, RuntimeInvariant, PTL DEF RtSpec, Spec

\* A claimed Job belongs to its worker alone until that worker ends it: no two
\* workers execute one Job, and no caller, racing worker or fail_queued_job on
\* a stale record ends it under the worker (process_one, finish_claimed).
THEOREM WorkersOwnRuns == RtSpec => []WorkerOwnsRun
<1>1. JrInv => WorkerOwnsRun
  BY JrInvImplies
<1> QED BY <1>1, RuntimeInvariant, PTL

\* As long as no maintenance window has closed the store's gate, a durable
\* cancellation reaches the worker that rechecked its row: its token is
\* cancelled or the call that committed it is about to do so (process_one,
\* cancel).  A refused recheck loses it, which is why the gate must be open.
THEOREM CancellationsPrompted == RtSpec => [](Undisturbed => CancelPrompted)
<1>1. JrInv => (Undisturbed => CancelPrompted)
  BY JrInvImplies
<1> QED BY <1>1, RuntimeInvariant, PTL

\* With no maintenance window so far and no more workers than a restart
\* reconciles, no active row is left without a worker that will end it, while
\* the process lives, after a graceful stop and after any number of deaths and
\* restarts (finish_claimed, reconcile_on_start).
THEOREM NoRowAbandoned ==
    RtSpec => [](Undisturbed /\ Cardinality(Workers) <= ReconcileLimit => NoAbandonedRow)
<1>1. JrInv => (Undisturbed /\ Cardinality(Workers) <= ReconcileLimit => NoAbandonedRow)
  BY JrInvImplies
<1> QED BY <1>1, RuntimeInvariant, PTL
=============================================================================
