---------------------------- MODULE ManualTrigger ----------------------------
(***************************************************************************)
(* A manual run of an automation (trigger_automation of                    *)
(* stillflow-api/src/automation.rs over automation_api.rs of               *)
(* stillflow-storage): record an execution under the caller's idempotency  *)
(* key, submit its Job, mark the execution submitted, write the audit      *)
(* event.  Each of these is a transaction of its own; the process may die  *)
(* between any two, the client retries with the same key, and the schedule *)
(* is updated, paused and deleted meanwhile.                               *)
(***************************************************************************)
EXTENDS Integers, FiniteSets

CONSTANTS
    TriggerKeys,        \* idempotency keys of manual triggers
    Templates,          \* run templates
    MaxTriggerCalls,    \* bound: calls, retries included
    MaxScheduleRevision \* bound: revision of the schedule

ASSUME ManualTriggerAssumption == {MaxTriggerCalls, MaxScheduleRevision} \subseteq Nat

VARIABLES
    trSchedule,    \* aut_schedules: state, template, revision
    trExecutions,  \* aut_executions: [key, digest, job, state]
    trJobs,        \* cp_jobs with their cp_idempotency_keys entry: [id, key]
    trCalls,       \* trigger_automation calls under way: [id, key, template, execution, pc]
    trAudit,       \* audit events "automation.trigger.submitted": executions
    trStarted      \* calls so far; also the source of fresh identities

trVars == <<trSchedule, trExecutions, trJobs, trCalls, trAudit, trStarted>>

TrInit ==
    /\ \E t \in Templates : trSchedule = [state |-> "active", template |-> t, revision |-> 1]
    /\ trExecutions = {} /\ trJobs = {} /\ trCalls = {} /\ trAudit = {} /\ trStarted = 0

\* Each change compares the revision its caller read and increments it.
WriteSchedule(state, template) ==
    /\ trSchedule.revision < MaxScheduleRevision
    /\ trSchedule' = [state |-> state, template |-> template, revision |-> trSchedule.revision + 1]
    /\ UNCHANGED <<trExecutions, trJobs, trCalls, trAudit, trStarted>>
UpdateAutomation(template) ==
    trSchedule.state \in {"active", "paused"} /\ WriteSchedule(trSchedule.state, template)
TransitionAutomation(state) ==
    /\ {trSchedule.state, state} = {"active", "paused"}
    /\ WriteSchedule(state, trSchedule.template)
DeleteAutomation ==
    trSchedule.state \in {"active", "paused"} /\ WriteSchedule("deleted", trSchedule.template)

\* The handler reads the schedule and digests key and template.
StartTrigger(key) ==
    /\ trStarted < MaxTriggerCalls /\ trStarted' = trStarted + 1
    /\ trSchedule.state = "active"
    /\ trCalls' = trCalls \cup {[id |-> trStarted + 1, key |-> key, template |-> trSchedule.template,
                                 execution |-> {}, pc |-> "record"]}
    /\ UNCHANGED <<trSchedule, trExecutions, trJobs, trAudit>>

\* One call leaves trCalls as c and comes back as next ({}: it returned).
Proceed(c, next) == c \in trCalls /\ trCalls' = (trCalls \ {c}) \cup next

\* create_automation_execution, one immediate transaction: the key, or the
\* occurrence "manual:<digest>", may be recorded already; it is the same
\* request or a refusal.  The mutant looks for the occurrence only.
SameOccurrence(x, c) == x.digest = <<c.key, c.template>>
SameExecution(x, c) == x.key = c.key \/ x.digest = <<c.key, c.template>>
RecordExecution(c) ==
    LET existing == {x \in trExecutions : SameExecution(x, c)}
        fresh == [key |-> c.key, digest |-> <<c.key, c.template>>, job |-> c.id, state |-> "accepted"] IN
    /\ c.pc = "record"
    /\ \/ /\ existing = {}
          /\ trExecutions' = trExecutions \cup {fresh}
          /\ Proceed(c, {[c EXCEPT !.pc = "submit", !.execution = {fresh}]})
       \/ \E x \in existing :
          /\ UNCHANGED trExecutions
          /\ IF x.digest = <<c.key, c.template>> /\ x.state # "submitted"
             THEN Proceed(c, {[c EXCEPT !.pc = "submit", !.execution = {x}]})
             ELSE Proceed(c, {})
    /\ UNCHANGED <<trSchedule, trJobs, trAudit, trStarted>>

\* submit_job under the key of the execution's digest: a replay answers the Job.
\* It is refused as a whole when the Job is not acceptable.
SubmitExecution(c, accepted) ==
    /\ c.pc = "submit"
    /\ \E x \in c.execution :
         IF accepted
         THEN /\ trJobs' = IF \E j \in trJobs : j.key = x.digest THEN trJobs
                           ELSE trJobs \cup {[id |-> x.job, key |-> x.digest]}
              /\ Proceed(c, {[c EXCEPT !.pc = "mark"]})
         ELSE UNCHANGED trJobs /\ Proceed(c, {})
    /\ UNCHANGED <<trSchedule, trExecutions, trAudit, trStarted>>

\* mark_automation_execution_submitted
MarkSubmitted(c) ==
    /\ c.pc = "mark"
    /\ trExecutions' = {IF [x EXCEPT !.state = "accepted"] \in c.execution
                        THEN [x EXCEPT !.state = "submitted"] ELSE x : x \in trExecutions}
    /\ Proceed(c, {[c EXCEPT !.pc = "audit"]})
    /\ UNCHANGED <<trSchedule, trJobs, trAudit, trStarted>>
AuditTrigger(c) ==
    /\ c.pc = "audit"
    /\ trAudit' = trAudit \cup c.execution
    /\ Proceed(c, {})
    /\ UNCHANGED <<trSchedule, trExecutions, trJobs, trStarted>>

DieInTrigger ==
    /\ trCalls # {} /\ trCalls' = {}
    /\ UNCHANGED <<trSchedule, trExecutions, trJobs, trAudit, trStarted>>

TrNext ==
    \/ \E t \in Templates : UpdateAutomation(t)
    \/ \E s \in {"active", "paused"} : TransitionAutomation(s)
    \/ DeleteAutomation
    \/ \E key \in TriggerKeys : StartTrigger(key)
    \/ \E c \in trCalls :
         \/ RecordExecution(c) \/ MarkSubmitted(c) \/ AuditTrigger(c)
         \/ \E accepted \in BOOLEAN : SubmitExecution(c, accepted)
    \/ DieInTrigger
TrSpec == TrInit /\ [][TrNext]_trVars

-----------------------------------------------------------------------------
\* trigger_automation: whatever retries race, whichever die, and however the
\* template changes between them, a trigger key runs one Job, the one its
\* execution names; an execution is submitted, and audited, only with its Job.
OneJobPerTrigger ==
    /\ \A k \in TriggerKeys :
         /\ Cardinality({j \in trJobs : j.key[1] = k}) <= 1
         /\ Cardinality({x \in trExecutions : x.key = k}) <= 1
    /\ \A j \in trJobs : \E x \in trExecutions : x.job = j.id /\ x.digest = j.key
    /\ \A x \in trExecutions : x.state = "submitted" => \E j \in trJobs : j.id = x.job
    /\ \A x \in trAudit : \E j \in trJobs : j.id = x.job
=============================================================================
