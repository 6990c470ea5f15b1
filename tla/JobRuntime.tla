----------------------------- MODULE JobRuntime -----------------------------
(***************************************************************************)
(* The queued-Job runtime (stillflow-engine/src/job_runtime.rs) over the   *)
(* durable control plane: worker tasks, the bounded wake channel, the      *)
(* active list with its cancellation tokens, callers of submit_job and     *)
(* cancel, graceful shutdown, and the death and restart of the process.    *)
(*                                                                         *)
(* The pc of a worker or of a cancel call is the point between two awaits  *)
(* or two store calls at which every other task, and the process's death,  *)
(* may interleave.  A store call passes the activity gate of store.rs:     *)
(* while maintenance holds the gate, it is refused as Busy.                *)
(***************************************************************************)
EXTENDS ControlPlane

CONSTANTS
    Workers,          \* the worker tasks (MAX_ENGINE_CONCURRENT_RUNS of them)
    Clients,          \* concurrent callers of cancel
    Rank,             \* the queue order (queued_at, id) of the Jobs
    Permits,          \* permits of the engine's run gate
    WakeCapacity,     \* JOB_RUNTIME_WAKE_CAPACITY
    ReconcileLimit,   \* RECONCILIATION_LIMIT
    MaxWakers,        \* bound: submitters between their commit and their wake
    MaxCrashes,       \* bound: deaths of the process
    MaxStops,         \* bound: graceful shutdowns
    MaxMaintenance,   \* bound: maintenance windows
    MaxPreviews       \* bound: engine runs outside the Job queue

ASSUME JobRuntimeAssumption ==
    /\ IsFiniteSet(Workers)
    /\ Rank \in [Jobs -> Nat]
    /\ \A i, j \in Jobs : Rank[i] = Rank[j] => i = j
    /\ {Permits, WakeCapacity, ReconcileLimit, MaxWakers} \subseteq Nat \ {0}
    /\ {MaxCrashes, MaxStops, MaxMaintenance, MaxPreviews} \subseteq Nat

VARIABLES
    phase,   \* of the process: up, closing, draining, stopped or crashed
    task,    \* per worker: its pc, the Job and Run it works on, its outcome
    wake,    \* signals in the wake channel
    wakers,  \* submitters that have committed and not yet called wake
    active,  \* the workers with an entry in RuntimeInner.active
    token,   \* the entries whose cancellation token is cancelled
    call,    \* per caller of cancel: its pc and the Job it cancels
    maint,   \* ActivityState.maintenance
    preview, \* permits held by engine runs outside the Job queue
    spent    \* how much of each environment bound was used

wakeVars   == <<wake, wakers>>
promptVars == <<active, token>>
envVars    == <<phase, maint, preview, spent>>
rtVars     == <<task, wakeVars, promptVars, call, envVars>>
allVars    == <<cpVars, rtVars>>

\* Worker labels: those without a permit, those that hold one before and after
\* the claim, and those that publish an outcome with the permit given back.
Unpermitted == {"off", "wait", "next", "retry", "permit"}
Claiming    == {"claim", "failq"}
Executing   == {"push", "recheck", "resolve", "engine", "stage"}
Ending      == {"remove", "reread", "finish", "fbread", "fallback"}
Holding     == Claiming \cup Executing
Owning      == Executing \cup Ending
CallLabels  == {"idle", "cancelQueued", "reread", "cancelRunning", "prompt"}

NoTask == [pc |-> "off", job |-> NoJob, run |-> NoRun, goal |-> "none"]
NoCall == [pc |-> "idle", job |-> NoJob]

At(w, label) == task[w].pc = label
Goto(w, label) == task' = [task EXCEPT ![w].pc = label]
Conclude(w, outcome, label) ==
    task' = [task EXCEPT ![w].pc = label, ![w].goal = outcome]
Owners(j) == {w \in Workers : task[w].job = j /\ task[w].pc \in Owning}

GateOpen == ~maint
Queued == InState("queued")
OldestQueued(j) == j \in Queued /\ \A i \in Queued : Rank[j] <= Rank[i]
FreePermits == Permits - preview - Cardinality({w \in Workers : task[w].pc \in Holding})
ShuttingDown == phase \in {"closing", "draining"}

Least(m, n) == IF m < n THEN m ELSE n
Spend(what) == spent' = [spent EXCEPT ![what] = @ + 1]

\* JobRuntime::wake: try_send, dropped when the channel is full; the mutant
\* sends on an unbounded one.
SignalUnbounded == wake' = wake + 1
Signal == wake' = Least(wake + 1, WakeCapacity)

RtInit ==
    /\ Init
    /\ phase = "stopped"
    /\ task = [w \in Workers |-> NoTask]
    /\ wake = 0 /\ wakers = 0
    /\ active = {} /\ token = {}
    /\ call = [c \in Clients |-> NoCall]
    /\ maint = FALSE /\ preview = 0
    /\ spent = [crash |-> 0, stop |-> 0, maintenance |-> 0, preview |-> 0]

-----------------------------------------------------------------------------
(* The life of the process.                                                *)

\* reconcile_on_start: the abandoned pairs, at most RECONCILIATION_LIMIT of
\* them.  The mutant leaves them as they are.
ReconcileNothing == UNCHANGED cpVars
ReconcileOnStart ==
    LET candidates == {j \in Jobs : Reconcilable(j)} IN
    \/ candidates = {} /\ UNCHANGED cpVars
    \/ \E lost \in SUBSET candidates :
         /\ Cardinality(lost) = Least(ReconcileLimit, Cardinality(candidates))
         /\ ReconcileJobs(lost)

SpawnWorkers ==
    /\ phase \in {"stopped", "crashed"}
    /\ phase' = "up"
    /\ task' = [w \in Workers |-> [NoTask EXCEPT !.pc = "wait"]]
    /\ UNCHANGED <<wakers, promptVars, call, maint, preview, spent>>

\* start: reconcile, spawn the workers, wake one.
StartRuntime == ReconcileOnStart /\ SpawnWorkers /\ Signal

\* What lives in memory is gone.
Forget ==
    /\ task' = [w \in Workers |-> NoTask]
    /\ wake' = 0 /\ wakers' = 0
    /\ active' = {} /\ token' = {}
    /\ call' = [c \in Clients |-> NoCall]
    /\ maint' = FALSE /\ preview' = 0
    /\ UNCHANGED cpVars

Crash ==
    /\ phase \in {"up", "closing", "draining"}
    /\ spent.crash < MaxCrashes
    /\ Spend("crash")
    /\ phase' = "crashed"
    /\ Forget

\* shutdown: cancel the shutdown token, then every active token, then join
\* the workers.  The grace cap of the server may leave callers in flight.
BeginShutdown ==
    /\ phase = "up"
    /\ spent.stop < MaxStops
    /\ Spend("stop")
    /\ phase' = "closing"
    /\ UNCHANGED <<cpVars, task, wakeVars, promptVars, call, maint, preview>>

PromptActive ==
    /\ phase = "closing"
    /\ phase' = "draining"
    /\ token' = active
    /\ UNCHANGED <<cpVars, task, wakeVars, active, call, maint, preview, spent>>

JoinWorkers ==
    /\ phase = "draining"
    /\ \A w \in Workers : At(w, "off")
    /\ phase' = "stopped"
    /\ Forget
    /\ UNCHANGED spent

-----------------------------------------------------------------------------
(* Submitters, maintenance, and engine runs of the interactive API.        *)

\* JobRuntime::submit_job up to its commit (a replay commits nothing) ...
Submit(j, k, d) ==
    /\ phase = "up" /\ GateOpen
    /\ wakers < MaxWakers
    /\ \/ SubmitJob(j, k, d)
       \/ idem[k] = [digest |-> d, job |-> j] /\ UNCHANGED cpVars
    /\ wakers' = wakers + 1
    /\ UNCHANGED <<task, wake, promptVars, call, envVars>>

\* ... and the wake after it.
SubmitterWakes ==
    /\ wakers > 0
    /\ wakers' = wakers - 1
    /\ Signal
    /\ UNCHANGED <<cpVars, task, promptVars, call, envVars>>

\* acquire_maintenance is refused while a guard is held, and an executing
\* engine run holds a reader or publisher guard of the store.
BeginMaintenance ==
    /\ phase = "up" /\ GateOpen
    /\ spent.maintenance < MaxMaintenance
    /\ preview = 0
    /\ \A w \in Workers : ~At(w, "engine")
    /\ maint' = TRUE
    /\ Spend("maintenance")
    /\ UNCHANGED <<cpVars, task, wakeVars, promptVars, call, phase, preview>>

EndMaintenance ==
    /\ maint
    /\ maint' = FALSE
    /\ UNCHANGED <<cpVars, task, wakeVars, promptVars, call, phase, preview, spent>>

\* try_acquire_run_permit from a preview, profile or quality request.
BeginPreview ==
    /\ phase = "up" /\ GateOpen
    /\ spent.preview < MaxPreviews
    /\ FreePermits > 0
    /\ preview' = preview + 1
    /\ Spend("preview")
    /\ UNCHANGED <<cpVars, task, wakeVars, promptVars, call, phase, maint>>

EndPreview ==
    /\ preview > 0
    /\ preview' = preview - 1
    /\ UNCHANGED <<cpVars, task, wakeVars, promptVars, call, phase, maint, spent>>

-----------------------------------------------------------------------------
(* worker_loop and process_one.                                            *)

\* The receiver is shared: any waiting worker may take the signal.
TakeSignal(w) ==
    /\ At(w, "wait") /\ wake > 0
    /\ wake' = wake - 1
    /\ Goto(w, "next")
    /\ UNCHANGED <<cpVars, wakers, promptVars, call, envVars>>

\* A worker looks at the shutdown token only while it waits or sleeps.  The
\* mutant does not race the token against the wake channel.
LeaveWhenBusy(w) ==
    /\ At(w, "retry") /\ ShuttingDown
    /\ Goto(w, "off")
    /\ UNCHANGED <<cpVars, wakeVars, promptVars, call, envVars>>
LeaveLoop(w) ==
    /\ At(w, "wait") \/ At(w, "retry")
    /\ ShuttingDown
    /\ Goto(w, "off")
    /\ UNCHANGED <<cpVars, wakeVars, promptVars, call, envVars>>

\* RetryLater: BUSY_RETRY_DELAY has passed.  The mutant gives its signal up
\* and waits for the next one.
RetryOnSignal(w) ==
    /\ At(w, "retry")
    /\ Goto(w, "wait")
    /\ UNCHANGED <<cpVars, wakeVars, promptVars, call, envVars>>
Retry(w) ==
    /\ At(w, "retry")
    /\ Goto(w, "next")
    /\ UNCHANGED <<cpVars, wakeVars, promptVars, call, envVars>>

\* next_queued_job: refused, empty, a typed row that cannot be decoded and is
\* failed on the spot, or the oldest queued Job.
NextQueuedJob(w) ==
    /\ At(w, "next")
    /\ \/ ~GateOpen /\ Goto(w, "retry") /\ UNCHANGED cpVars
       \/ GateOpen /\ Queued = {} /\ Goto(w, "wait") /\ UNCHANGED cpVars
       \/ GateOpen /\ UNCHANGED task /\ \E j \in Jobs : OldestQueued(j) /\ FailCorruptJob(j)
       \/ /\ GateOpen /\ UNCHANGED cpVars
          /\ \E j \in Jobs : /\ OldestQueued(j)
                            /\ task' = [task EXCEPT ![w].pc = "permit", ![w].job = j]
    /\ UNCHANGED <<wakeVars, promptVars, call, envVars>>

\* try_acquire_run_permit, and job_deadline of the record read before.
AcquirePermit(w) ==
    /\ At(w, "permit")
    /\ \/ FreePermits = 0 /\ Goto(w, "retry")
       \/ FreePermits > 0 /\ Goto(w, "claim")
       \/ FreePermits > 0 /\ Goto(w, "failq")
    /\ UNCHANGED <<cpVars, wakeVars, promptVars, call, envVars>>

\* claim_job: won, lost to another task or the gate (Busy), or its inputs are
\* refused.
Claim(w) ==
    LET j == task[w].job IN
    /\ At(w, "claim")
    /\ \/ \E r \in Runs :
            /\ GateOpen /\ ClaimJob(j, r)
            /\ task' = [task EXCEPT ![w].pc = "push", ![w].run = r]
       \/ ~(GateOpen /\ jobState[j] = "queued") /\ Goto(w, "next") /\ UNCHANGED cpVars
       \/ GateOpen /\ jobState[j] = "queued" /\ Goto(w, "failq") /\ UNCHANGED cpVars
    /\ UNCHANGED <<wakeVars, promptVars, call, envVars>>

\* fail_queued_job: transition_job on the stale record, its error ignored.
FailQueued(w) ==
    LET j == task[w].job IN
    /\ At(w, "failq")
    /\ \/ GateOpen /\ FailJob(j)
       \/ ~(GateOpen /\ jobState[j] = "queued") /\ UNCHANGED cpVars
    /\ Goto(w, "next")
    /\ UNCHANGED <<wakeVars, promptVars, call, envVars>>

PushActive(w) ==
    /\ At(w, "push")
    /\ active' = active \cup {w}
    /\ Goto(w, "recheck")
    /\ UNCHANGED <<cpVars, wakeVars, token, call, envVars>>

\* get_job after the push: a cancellation that committed before the entry was
\* visible is picked up here.  The mutant trusts the caller to find the entry.
SkipRecheck(w) ==
    /\ At(w, "recheck")
    /\ Goto(w, "resolve")
    /\ UNCHANGED <<cpVars, wakeVars, promptVars, call, envVars>>
RecheckCancelled(w) ==
    /\ At(w, "recheck")
    /\ token' = IF GateOpen /\ jobState[task[w].job] = "cancelling"
                THEN token \cup {w} ELSE token
    /\ Goto(w, "resolve")
    /\ UNCHANGED <<cpVars, wakeVars, active, call, envVars>>

-----------------------------------------------------------------------------
(* execute_claimed.  Shutdown, the token, the deadline, a panic and an     *)
(* ordinary error all surface as Err, at any point.                        *)

\* The resolver reads the store; the engine then takes an activity guard.
Resolve(w) ==
    /\ At(w, "resolve")
    /\ \/ GateOpen /\ Goto(w, "engine")
       \/ Conclude(w, "error", "remove")
    /\ UNCHANGED <<cpVars, wakeVars, promptVars, call, envVars>>

\* A legacy Run ends with its Snapshot, a typed one goes on to its refs.
Execute(w) ==
    /\ At(w, "engine")
    /\ \/ task[w].job \in Typed /\ Goto(w, "stage")
       \/ task[w].job \notin Typed /\ Conclude(w, "succeeded", "remove")
       \/ Conclude(w, "error", "remove")
    /\ UNCHANGED <<cpVars, wakeVars, promptVars, call, envVars>>

\* create_artifact_ref for each output, refused once the Run is cancelling.
Stage(w) ==
    /\ At(w, "stage")
    /\ \/ GateOpen /\ (\E a \in Artifacts : StageArtifact(a, task[w].run)) /\ UNCHANGED task
       \/ Conclude(w, "succeeded", "remove") /\ UNCHANGED cpVars
       \/ Conclude(w, "error", "remove") /\ UNCHANGED cpVars
    /\ UNCHANGED <<wakeVars, promptVars, call, envVars>>

RemoveActive(w) ==
    /\ At(w, "remove")
    /\ active' = active \ {w}
    /\ token' = token \ {w}
    /\ Goto(w, IF task[w].goal = "succeeded" THEN "finish" ELSE "reread")
    /\ UNCHANGED <<cpVars, wakeVars, call, envVars>>

\* After an error the durable state decides between cancelled and failed.
RereadOutcome(w) ==
    /\ At(w, "reread")
    /\ Conclude(w, IF GateOpen /\ jobState[task[w].job] = "cancelling"
                   THEN "cancelled" ELSE "failed", "finish")
    /\ UNCHANGED <<cpVars, wakeVars, promptVars, call, envVars>>

-----------------------------------------------------------------------------
(* finish_claimed.                                                         *)

Release(w) == task' = [task EXCEPT ![w] = [NoTask EXCEPT !.pc = "next"]]

\* The terminal transaction of this worker's Run with its current goal.
Publish(w) ==
    \/ task[w].goal = "succeeded" /\ SucceedRunAndJob(task[w].run)
    \/ task[w].goal # "succeeded" /\ AbandonRunAndJob(task[w].run, task[w].goal)

\* The first attempt.  It is refused by the gate, by the transition tables, or
\* because the outputs do not validate; a failure has no outputs to refuse.
Finish(w) ==
    /\ At(w, "finish")
    /\ \/ GateOpen /\ Publish(w) /\ Release(w)
       \/ /\ \/ ~GateOpen
             \/ ~MayEnd(task[w].run, task[w].goal)
             \/ task[w].goal = "succeeded"
          /\ Goto(w, "fbread")
          /\ UNCHANGED cpVars
    /\ UNCHANGED <<wakeVars, promptVars, call, envVars>>

\* The second: reread the Job and end it as it stands, without outputs.  If
\* the read is refused the worker returns and forgets the Job.  The mutant
\* falls back to failed only, and so gives up on a cancelling Job.
FallbackIgnoresCancel(w) ==
    LET st == jobState[task[w].job] IN
    /\ At(w, "fbread")
    /\ \/ GateOpen /\ st = "running" /\ Conclude(w, "failed", "fallback")
       \/ (~GateOpen \/ st # "running") /\ Release(w)
    /\ UNCHANGED <<cpVars, wakeVars, promptVars, call, envVars>>
ReadFallback(w) ==
    LET st == jobState[task[w].job] IN
    /\ At(w, "fbread")
    /\ \/ GateOpen /\ st = "cancelling" /\ Conclude(w, "cancelled", "fallback")
       \/ GateOpen /\ st = "running" /\ Conclude(w, "failed", "fallback")
       \/ (~GateOpen \/ st \notin Active) /\ Release(w)
    /\ UNCHANGED <<cpVars, wakeVars, promptVars, call, envVars>>

FinishFallback(w) ==
    /\ At(w, "fallback")
    /\ \/ GateOpen /\ Publish(w)
       \/ ~(GateOpen /\ MayEnd(task[w].run, task[w].goal)) /\ UNCHANGED cpVars
    /\ Release(w)
    /\ UNCHANGED <<wakeVars, promptVars, call, envVars>>

WorkerStep(w) ==
    \/ TakeSignal(w) \/ LeaveLoop(w) \/ Retry(w) \/ NextQueuedJob(w)
    \/ AcquirePermit(w) \/ Claim(w) \/ FailQueued(w) \/ PushActive(w)
    \/ RecheckCancelled(w) \/ Resolve(w) \/ Execute(w) \/ Stage(w) \/ RemoveActive(w)
    \/ RereadOutcome(w) \/ Finish(w) \/ ReadFallback(w) \/ FinishFallback(w)

-----------------------------------------------------------------------------
(* JobRuntime::cancel.                                                     *)

CallGoto(c, label) == call' = [call EXCEPT ![c].pc = label]
Return(c) == call' = [call EXCEPT ![c] = NoCall]

\* get_job; a terminal or cancelling Job is returned as it is.
CancelRead(c, j) ==
    /\ phase = "up" /\ GateOpen
    /\ call[c] = NoCall
    /\ \/ jobState[j] = "queued" /\ call' = [call EXCEPT ![c] = [pc |-> "cancelQueued", job |-> j]]
       \/ jobState[j] = "running" /\ call' = [call EXCEPT ![c] = [pc |-> "reread", job |-> j]]
    /\ UNCHANGED <<cpVars, task, wakeVars, promptVars, envVars>>

\* cancel_queued_job; if the Job moved on in between, go on as for a running one.
CancelQueued(c) ==
    LET j == call[c].job IN
    /\ call[c].pc = "cancelQueued"
    /\ \/ GateOpen /\ CancelQueuedJob(j) /\ Signal /\ Return(c)
       \/ ~GateOpen /\ Return(c) /\ UNCHANGED <<cpVars, wake>>
       \/ GateOpen /\ jobState[j] # "queued" /\ CallGoto(c, "reread") /\ UNCHANGED <<cpVars, wake>>
    /\ UNCHANGED <<task, wakers, promptVars, envVars>>

CancelReread(c) ==
    /\ call[c].pc = "reread"
    /\ \/ GateOpen /\ jobState[call[c].job] = "running" /\ CallGoto(c, "cancelRunning")
       \/ ~(GateOpen /\ jobState[call[c].job] = "running") /\ Return(c)
    /\ UNCHANGED <<cpVars, task, wakeVars, promptVars, envVars>>

CancelRunning(c) ==
    LET j == call[c].job IN
    /\ call[c].pc = "cancelRunning"
    /\ \/ GateOpen /\ CancelRunningJob(j) /\ CallGoto(c, "prompt")
       \/ ~(GateOpen /\ jobState[j] = "running") /\ Return(c) /\ UNCHANGED cpVars
    /\ UNCHANGED <<task, wakeVars, promptVars, envVars>>

\* Under the lock of the active list: cancel the token of the Job's entry.
PromptToken(c) ==
    /\ call[c].pc = "prompt"
    /\ token' = token \cup {w \in active : task[w].job = call[c].job}
    /\ Signal
    /\ Return(c)
    /\ UNCHANGED <<cpVars, task, wakers, active, envVars>>

CallStep(c) == CancelQueued(c) \/ CancelReread(c) \/ CancelRunning(c) \/ PromptToken(c)

RtNext ==
    \/ StartRuntime \/ Crash \/ BeginShutdown \/ PromptActive \/ JoinWorkers
    \/ \E j \in Jobs, k \in Keys, d \in Digests : Submit(j, k, d)
    \/ SubmitterWakes
    \/ BeginMaintenance \/ EndMaintenance \/ BeginPreview \/ EndPreview
    \/ \E w \in Workers : WorkerStep(w)
    \/ \E c \in Clients, j \in Jobs : CancelRead(c, j)
    \/ \E c \in Clients : CallStep(c)

RtSpec == RtInit /\ [][RtNext]_allVars

\* Tasks that can run are polled: tokio schedules every worker, caller and
\* waker, maintenance and previews end, and shutdown proceeds.  Nothing makes
\* anyone submit, cancel, stop, crash or restart.
Fairness ==
    /\ \A w \in Workers : WF_allVars(WorkerStep(w))
    /\ \A c \in Clients : WF_allVars(CallStep(c))
    /\ WF_allVars(SubmitterWakes)
    /\ WF_allVars(EndMaintenance)
    /\ WF_allVars(EndPreview)
    /\ WF_allVars(PromptActive)
    /\ WF_allVars(JoinWorkers)

FairRtSpec == RtSpec /\ Fairness

-----------------------------------------------------------------------------
(* Properties.                                                             *)

\* The volatile state of the runtime is well-formed.
RtTypeOK ==
    /\ TypeOK
    /\ phase \in {"up", "closing", "draining", "stopped", "crashed"}
    /\ task \in [Workers -> [pc : Unpermitted \cup Holding \cup Ending,
                             job : Jobs \cup {NoJob}, run : Runs \cup {NoRun},
                             goal : {"none", "error"} \cup Terminal]]
    /\ wake \in 0..WakeCapacity /\ wakers \in 0..MaxWakers
    /\ token \subseteq active /\ active \subseteq Workers
    /\ call \in [Clients -> [pc : CallLabels, job : Jobs \cup {NoJob}]]
    /\ maint \in BOOLEAN /\ preview \in 0..Permits
    /\ FreePermits \in 0..Permits

\* A claimed Job belongs to its worker alone until that worker ends it: no
\* two workers execute one Job, and no caller, racing worker or fail_queued_job
\* on a stale record ends a Job under the worker that executes it.
WorkerOwnsRun ==
    \A w \in Workers : task[w].pc \in Owning =>
      LET j == task[w].job IN
      /\ jobRun[j] = task[w].run
      /\ jobState[j] \in Active
      /\ Owners(j) = {w}

\* "Fail the Run without references rather than leaving an active durable row
\* behind" (finish_claimed): while the process lives, and after a graceful
\* stop, every active row has a worker that will still end it.
NoAbandonedRow ==
    phase # "crashed" => \A j \in Jobs : jobState[j] \in Active => Owners(j) # {}

\* A durable cancellation is never lost on its way to the connector: once the
\* worker has rechecked the row, its token is cancelled, or the call that
\* committed the cancellation is about to cancel it (process_one, cancel).
CancelPrompted ==
    \A w \in Workers :
      /\ task[w].pc \in {"resolve", "engine", "stage"}
      /\ jobState[task[w].job] = "cancelling"
      => \/ w \in token
         \/ \E c \in Clients : call[c] = [pc |-> "prompt", job |-> task[w].job]

\* While the process stays up, no queued Job waits forever, whatever signals
\* were dropped by the full channel and whichever worker took them.
QueueServed ==
    <>[](phase = "up") => \A j \in Jobs : jobState[j] = "queued" ~> jobState[j] # "queued"

\* While the process stays up, every acknowledged cancellation reaches a
\* terminal state.
CancelSettles ==
    <>[](phase = "up") =>
        \A j \in Jobs : jobState[j] = "cancelling" ~> jobState[j] \in Terminal

\* A graceful shutdown joins its workers (or the process dies first).
ShutdownCompletes == ShuttingDown ~> phase \in {"stopped", "crashed"}
=============================================================================
