---------------------------- MODULE JobLifecycle ----------------------------
(***************************************************************************)
(* What the control plane promises an observer of Jobs, with Runs, events, *)
(* idempotency and transactions left out.  An observer sees each Job's     *)
(* status, the result a Job returned and the artifacts that can be read.   *)
(* The promise: a Job moves along the lifecycle of contract section 6.2, a *)
(* result appears whole in the step in which the Job succeeds and in no    *)
(* other, and afterwards artifacts can only stop being readable.           *)
(***************************************************************************)
CONSTANTS Jobs, Artifacts

VARIABLES
    status,   \* the state of each Job, "absent" before it is submitted
    result,   \* the artifacts the Job returned
    readable  \* the artifacts a reader may open

lifecycleVars == <<status, result, readable>>

LifecycleInit ==
    /\ status = [j \in Jobs |-> "absent"]
    /\ result = [j \in Jobs |-> {}]
    /\ readable = {}

Move(j, from, to) ==
    /\ status[j] = from
    /\ status' = [status EXCEPT ![j] = to]
    /\ UNCHANGED <<result, readable>>

Submit(j) == Move(j, "absent", "queued")
Start(j)  == Move(j, "queued", "running")

RequestCancel(j) ==
    \/ Move(j, "queued", "cancelled")
    \/ Move(j, "running", "cancelling")

ConfirmCancel(j) == Move(j, "cancelling", "cancelled")

Succeed(j, outs) ==
    /\ status[j] = "running"
    /\ outs \cap readable = {}
    /\ status' = [status EXCEPT ![j] = "succeeded"]
    /\ result' = [result EXCEPT ![j] = outs]
    /\ readable' = readable \cup outs

\* One failure, or at a restart several at once.
Fail(lost) ==
    /\ \A j \in lost : status[j] \in {"queued", "running", "cancelling"}
    /\ status' = [j \in Jobs |-> IF j \in lost THEN "failed" ELSE status[j]]
    /\ UNCHANGED <<result, readable>>

Retire(a) ==
    /\ readable' = readable \ {a}
    /\ UNCHANGED <<status, result>>

LifecycleNext ==
    \/ \E j \in Jobs : Submit(j) \/ Start(j) \/ RequestCancel(j) \/ ConfirmCancel(j)
    \/ \E j \in Jobs, outs \in SUBSET Artifacts : Succeed(j, outs)
    \/ \E lost \in SUBSET Jobs : Fail(lost)
    \/ \E a \in Artifacts : Retire(a)

LifecycleSpec == LifecycleInit /\ [][LifecycleNext]_lifecycleVars
=============================================================================
