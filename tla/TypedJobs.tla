------------------------------ MODULE TypedJobs ------------------------------
(***************************************************************************)
(* A typed Job from its submission to its terminal outputs, beside the     *)
(* operations that take its inputs away: submit_job, claim_job, the row    *)
(* decoders and validate_terminal_output_set of                            *)
(* stillflow-storage/src/control_plane.rs, and execute_claimed of          *)
(* stillflow-engine/src/job_runtime.rs.  A worker publishes its product    *)
(* in the store, stages its ArtifactRefs one by one and ends the Run in    *)
(* one transaction; each is a step.                                        *)
(***************************************************************************)
EXTENDS Integers, Sequences, FiniteSets

CONSTANTS
    TypedIds,        \* Job identities
    SubmitKeys,      \* idempotency keys
    OperationKinds,  \* the operations submitted
    MaxSubmissions   \* bound: submissions

ASSUME TypedJobsAssumption ==
    /\ OperationKinds \subseteq {"materialize", "verification", "profile", "export", "drift"}
    /\ MaxSubmissions \in Nat

VARIABLES
    tjWorld,      \* [asset, version, input]: the asset and its connection are active, the
                  \* PlanVersion is published, the input Snapshot is visible
    tjJobs,       \* cp_jobs and cp_runs: {} or one row as a singleton
    tjRefs,       \* cp_artifact_refs and bodies of each Run: [kind, body, state]
    tjProducts,   \* the Jobs whose Snapshot, bundle or export set is published
    tjKeys,       \* cp_idempotency_keys: [key, digest, job]
    tjAnswer,     \* history: the last submission, <<known key and digest, answer>>
    tjCount       \* submissions so far

tjVars == <<tjWorld, tjJobs, tjRefs, tjProducts, tjKeys, tjAnswer, tjCount>>

TjInit ==
    /\ tjWorld = [asset |-> TRUE, version |-> TRUE, input |-> TRUE]
    /\ tjJobs = [j \in TypedIds |-> {}] /\ tjRefs = [j \in TypedIds |-> {}]
    /\ tjProducts = {} /\ tjKeys = {} /\ tjAnswer = <<FALSE, "none">> /\ tjCount = 0

-----------------------------------------------------------------------------
(* Submission.                                                             *)

\* JobOperation::input_ref: the one input of an operation; Drift has none.
InputOf(op) == CASE op = "materialize" -> {"asset"} [] op = "drift" -> {} [] OTHER -> {"input"}

\* What a caller asks for: plan is the Plan named in the request, {} for none;
\* foreign says whether an input lies in another Workspace or Session.
Submissions == [op : OperationKinds, inputs : SUBSET {"asset", "input"}, policy : 1..2,
                plan : {{}, {"plan"}, {"otherPlan"}}, foreign : BOOLEAN]

\* JobSubmission::validate: every reference lies in the Job's scope and the
\* generic inputs are those of the operation.
SubmissionValid(s) == ~s.foreign /\ s.inputs = InputOf(s.op)

\* compute_request_digest: the descriptor without identities and times.
RequestDigest(s) == [op |-> s.op, inputs |-> s.inputs, policy |-> s.policy, plan |-> s.plan]

\* submit_job completes a typed submission with the Plan of its version, and the
\* digest with it.  The mutant keeps the digest the caller computed.
PlanOfVersion == {"plan"}
DigestAsSent(s) == RequestDigest(s)
ResolvedDigest(s) == RequestDigest([s EXCEPT !.plan = PlanOfVersion])

\* validate_source_asset_input, validate_snapshot_input: the asset and its
\* connection are active, the Snapshot is visible in an active Dataset with the
\* identity and digest named.
InputsLive(op) == \A i \in InputOf(op) : tjWorld[i]

\* The version check comes first, then the key, then the inputs; the Plan named
\* must be the version's.
SubmitTyped(j, k, s) ==
    LET digest == ResolvedDigest(s)
        known == {e \in tjKeys : e.key = k}
        same == \E e \in known : e.digest = digest
        answer == IF ~tjWorld.version \/ s.plan \notin {{}, PlanOfVersion} THEN "refused"
                  ELSE IF known # {} THEN IF same THEN "replayed" ELSE "conflict"
                  ELSE IF ~InputsLive(s.op) THEN "refused" ELSE "created" IN
    /\ tjCount < MaxSubmissions /\ tjCount' = tjCount + 1
    /\ SubmissionValid(s) /\ (known = {} => tjJobs[j] = {})
    /\ tjAnswer' = <<same /\ s.plan \in {{}, PlanOfVersion}, answer>>
    /\ IF answer = "created"
       THEN /\ tjJobs' = [tjJobs EXCEPT ![j] = {[sub |-> s, digest |-> digest, state |-> "queued",
                                                 outputs |-> {}, liveAtEnd |-> TRUE]}]
            /\ tjKeys' = tjKeys \cup {[key |-> k, digest |-> digest, job |-> j]}
       ELSE UNCHANGED <<tjJobs, tjKeys>>
    /\ UNCHANGED <<tjWorld, tjRefs, tjProducts>>

\* TerminalOutputRef: what a succeeded Job may list.
OutputKinds == {"product", "validation", "dedup", "rejected", "profile", "quality", "export", "drift"}

\* job_from_raw: the digest of the durable row, with the Plan joined from the
\* version, must be the stored one; inputs are those of the operation, and only
\* a succeeded row has outputs.
OperationReads(row) == row.sub.op \in OperationKinds /\ row.sub.inputs = InputOf(row.sub.op)
OutputsRead(row) == row.outputs \subseteq OutputKinds
RunReads(row) == row.state = "succeeded" \/ row.outputs = {}
JobReads(row) ==
    /\ RequestDigest([row.sub EXCEPT !.plan = PlanOfVersion]) = row.digest
    /\ OperationReads(row) /\ OutputsRead(row) /\ RunReads(row)

-----------------------------------------------------------------------------
(* Execution.                                                              *)

SetJob(j, row) == tjJobs' = [tjJobs EXCEPT ![j] = {row}]

\* claim_job checks the inputs again; refused, the worker fails the Job.
ClaimTyped(j) ==
    \E row \in tjJobs[j] :
        /\ row.state = "queued"
        /\ SetJob(j, [row EXCEPT !.state = IF InputsLive(row.sub.op) THEN "running" ELSE "failed"])
        /\ UNCHANGED <<tjWorld, tjRefs, tjProducts, tjKeys, tjAnswer, tjCount>>

\* The store's own publication: materialize, the verification bundle and the
\* export set are published before the control plane hears of them.
HasProduct(op) == op \in {"materialize", "verification", "export"}
PublishProduct(j) ==
    \E row \in tjJobs[j] :
        /\ row.state = "running" /\ HasProduct(row.sub.op) /\ j \notin tjProducts
        /\ tjProducts' = tjProducts \cup {j}
        /\ UNCHANGED <<tjWorld, tjJobs, tjRefs, tjKeys, tjAnswer, tjCount>>

\* The ArtifactRefs an operation stages, in order; policy 2 publishes rejected
\* rows, and a drift without a report stages nothing.
VerificationRefs(policy) == <<"validation", "dedup">> \o (IF policy = 2 THEN <<"rejected">> ELSE <<>>)
ProfileRefs == <<"profile", "quality">>
ExportRefs == <<"export">>
DriftRefs(policy) == IF policy = 2 THEN <<"drift">> ELSE <<>>
Staging(s) ==
    CASE s.op = "verification" -> VerificationRefs(s.policy)
      [] s.op = "profile" -> ProfileRefs
      [] s.op = "export" -> ExportRefs
      [] s.op = "drift" -> DriftRefs(s.policy)
      [] OTHER -> <<>>
CarriesBody(kind) == kind \in {"profile", "quality", "drift"}

StageRef(j) ==
    \E row \in tjJobs[j] :
        LET n == Cardinality(tjRefs[j]) + 1
            kind == Staging(row.sub)[n] IN
        /\ row.state = "running" /\ n <= Len(Staging(row.sub))
        /\ HasProduct(row.sub.op) => j \in tjProducts
        /\ tjRefs' = [tjRefs EXCEPT ![j] = @ \cup {[kind |-> kind, body |-> CarriesBody(kind), state |-> "staged"]}]
        /\ UNCHANGED <<tjWorld, tjJobs, tjProducts, tjKeys, tjAnswer, tjCount>>

-----------------------------------------------------------------------------
(* The terminal transaction.                                               *)

RefsStaged(j) == {r \in tjRefs[j] : r.state = "staged"}

\* validate_artifact_outputs and its bundle counterpart: the staged refs are
\* exactly the ones named, and those that are reports have their body.  The
\* mutant takes a part of them.
StagedInPart(j, s) == {r.kind : r \in RefsStaged(j)} \subseteq {Staging(s)[n] : n \in DOMAIN Staging(s)}
StagedExactly(j, s) ==
    /\ {r.kind : r \in RefsStaged(j)} = {Staging(s)[n] : n \in DOMAIN Staging(s)}
    /\ \A r \in RefsStaged(j) : r.body = CarriesBody(r.kind)

\* validate_terminal_output_set looks at the inputs once more.  The mutant
\* trusts the claim.
InputsTrustedAtEnd(op) == TRUE
InputsLiveAtEnd(op) == InputsLive(op)
SnapshotPublished(j) == j \in tjProducts
BundlePublished(j, s) == j \in tjProducts /\ StagedExactly(j, s)
OutputSetValid(j, s) ==
    /\ InputsLiveAtEnd(s.op)
    /\ CASE s.op = "materialize" -> SnapshotPublished(j) /\ RefsStaged(j) = {}
         [] s.op = "verification" -> BundlePublished(j, s)
         [] OTHER -> StagedExactly(j, s) /\ (s.op = "export" => j \in tjProducts)

\* commit_staged_terminal_artifacts, or the fallback that fails the Run: the
\* refs end with it either way.
EndTyped(j, row, ok) ==
    /\ SetJob(j, [row EXCEPT !.state = IF ok THEN "succeeded" ELSE "failed",
                             !.outputs = IF ok THEN {r.kind : r \in RefsStaged(j)} \cup (IF HasProduct(row.sub.op)
                                                     THEN {"product"} ELSE {}) ELSE {},
                             !.liveAtEnd = InputsLive(row.sub.op)])
    /\ tjRefs' = [tjRefs EXCEPT ![j] = {[r EXCEPT !.state = IF ok THEN "committed" ELSE "failed"] : r \in @}]
    /\ UNCHANGED <<tjWorld, tjProducts, tjKeys, tjAnswer, tjCount>>
FinishTyped(j) == \E row \in tjJobs[j] : row.state = "running" /\ EndTyped(j, row, OutputSetValid(j, row.sub))

\* An error of the resolver or the engine, a timeout or a panic, at any point.
FailTyped(j) == \E row \in tjJobs[j] : row.state = "running" /\ EndTyped(j, row, FALSE)

\* retire_source_asset or a connection transition, publish_plan_version of a
\* successor or an archive, tombstone_snapshot or an archived Dataset.
TakeAway(what) ==
    /\ tjWorld[what] /\ tjWorld' = [tjWorld EXCEPT ![what] = FALSE]
    /\ UNCHANGED <<tjJobs, tjRefs, tjProducts, tjKeys, tjAnswer, tjCount>>

TjNext ==
    \/ \E j \in TypedIds, k \in SubmitKeys, s \in Submissions : SubmitTyped(j, k, s)
    \/ \E j \in TypedIds : \/ ClaimTyped(j) \/ PublishProduct(j) \/ StageRef(j)
                           \/ FinishTyped(j) \/ FailTyped(j)
    \/ \E what \in DOMAIN tjWorld : TakeAway(what)
TjSpec == TjInit /\ [][TjNext]_tjVars

-----------------------------------------------------------------------------
\* submit_job, job_from_raw: every row that was written reads back, its digest
\* recomputed; a key names one Job and the digest that Job has; a Run that
\* ended has no staged ref, and none committed unless it succeeded.
TypedRowsSound ==
    /\ \A j \in TypedIds : \A row \in tjJobs[j] :
        /\ JobReads(row)
        /\ row.state \in {"succeeded", "failed"} => RefsStaged(j) = {}
        /\ row.state # "succeeded" => \A r \in tjRefs[j] : r.state # "committed"
    /\ \A e \in tjKeys : /\ \A o \in tjKeys : o.key = e.key => o = e
                         /\ \A row \in tjJobs[e.job] : row.digest = e.digest

\* validate_terminal_output_set: whatever was retired or tombstoned since the
\* submission, a Run succeeds only with the whole output set of its operation,
\* its product published, and inputs that are live at that moment.
TypedSuccessSound ==
    \A j \in TypedIds : \A row \in tjJobs[j] :
        row.state = "succeeded" =>
            /\ row.liveAtEnd
            /\ row.outputs = {Staging(row.sub)[n] : n \in DOMAIN Staging(row.sub)}
                             \cup (IF HasProduct(row.sub.op) THEN {"product"} ELSE {})
            /\ HasProduct(row.sub.op) => j \in tjProducts
            /\ \A r \in tjRefs[j] : r.state = "committed"

\* issue-191-unified-control-plane-contract.md: a submission with a known key
\* and the same request digest replays the original Job.
ReplayAnswered == tjAnswer[1] => tjAnswer[2] = "replayed"

\* submit_job, claim_job and the terminal transition of typed Jobs: rows read back
\* and keys stay theirs, and success has its whole output set and live inputs.
TypedJobsSound == TypedRowsSound /\ TypedSuccessSound
=============================================================================
