------------------------- MODULE AutomationScheduler -------------------------
(***************************************************************************)
(* Durable schedules and the tick that hands their occurrences to the Job  *)
(* queue (stillflow-storage/src/automation.rs,                             *)
(* stillflow-engine/src/scheduler.rs).  Several ticks may be under way:    *)
(* the scheduler's own loop, tick_at, and what a dead process left behind. *)
(*                                                                         *)
(* An occurrence is the instant it is due; schedules have period 1.  The   *)
(* Job queue is seen through its idempotency keys alone.  The acknowledge- *)
(* ment's check of the next instant holds by construction of the trigger.  *)
(***************************************************************************)
EXTENDS Integers, FiniteSets, SequencesExt

CONSTANTS
    Schedules,    \* schedule identities
    Tickers,      \* concurrent executions of tick_inner
    MaxAttempts,  \* max_submission_attempts
    Lease,        \* claim_lease
    MaxDue,       \* max_due_per_tick
    MaxTime,      \* bound: the clock
    MaxCrashes,   \* bound: deaths of the process
    MaxRefusals,  \* bound: store calls refused as Busy by maintenance
    MaxEdits,     \* bound: pauses and resumptions
    MaxSetbacks   \* bound: times the clock is set back

ASSUME AutomationSchedulerAssumption ==
    /\ IsFiniteSet(Schedules)
    /\ {MaxAttempts, Lease, MaxDue} \subseteq Nat \ {0}
    /\ {MaxTime, MaxCrashes, MaxRefusals, MaxEdits, MaxSetbacks} \subseteq Nat

VARIABLES
    schedule, \* aut_schedules: state, next_run_at, in-flight claim, attempts
    jobs,     \* the accepted submissions: schedule, idempotency key, occurrence
    tries,    \* history: the claims made for each occurrence
    ticker,   \* per tick: its pc, effective now, due list and trigger
    observed, \* last_observed_at
    clock,    \* the wall clock
    spent     \* how much of each environment bound was used

autVars == <<schedule, jobs, tries, ticker, observed, clock, spent>>

Times  == 0..MaxTime
NoTime == -1

NoClaim == [id |-> 0, occ |-> NoTime, attempt |-> 0, expires |-> NoTime]
NoRow   == [state |-> "absent", next |-> NoTime, claim |-> NoClaim, last |-> 0, serial |-> 0]
NoTick  == [pc |-> "idle", now |-> 0, due |-> <<>>, sched |-> {}, claim |-> NoClaim]

AutInit ==
    /\ schedule = [s \in Schedules |-> NoRow]
    /\ jobs = {}
    /\ tries = [s \in Schedules |-> [o \in Times |-> 0]]
    /\ ticker = [t \in Tickers |-> NoTick]
    /\ observed = NoTime
    /\ clock = 0
    /\ spent = [crash |-> 0, refusal |-> 0, edit |-> 0, setback |-> 0]

Later(x, y) == IF x < y THEN y ELSE x
Smaller(x, y) == IF x < y THEN x ELSE y
Spend(what) == spent' = [spent EXCEPT ![what] = @ + 1]

\* A store call that maintenance refuses as Busy.
Refused == spent.refusal < MaxRefusals /\ Spend("refusal")

-----------------------------------------------------------------------------
(* The schedules' owner.                                                   *)

CreateSchedule(s, first) ==
    /\ schedule[s].state = "absent"
    /\ first >= clock
    /\ schedule' = [schedule EXCEPT ![s] = [NoRow EXCEPT !.state = "active", !.next = first]]
    /\ UNCHANGED <<jobs, tries, ticker, observed, clock, spent>>

\* set_automation_schedule_state with the current revision; with a stale one,
\* or on a failed schedule, the call is refused.
SetScheduleState(s, target) ==
    /\ schedule[s].state \in {"active", "paused"}
    /\ target \in {"active", "paused"} /\ target # schedule[s].state
    /\ spent.edit < MaxEdits
    /\ Spend("edit")
    /\ schedule' = [schedule EXCEPT ![s].state = target]
    /\ UNCHANGED <<jobs, tries, ticker, observed, clock>>

-----------------------------------------------------------------------------
(* tick_inner.                                                             *)

Due(s, now) == schedule[s].state = "active" /\ schedule[s].next # NoTime /\ schedule[s].next <= now

\* list_due_automation_schedule_ids: the MaxDue due schedules that are due
\* longest, in that order; the order of identities is left open.
IsDueList(list, now) ==
    LET due == {s \in Schedules : Due(s, now)} IN
    /\ Len(list) = Smaller(MaxDue, Cardinality(due))
    /\ \A i, j \in 1..Len(list) :
         i < j => list[i] # list[j] /\ schedule[list[i]].next <= schedule[list[j]].next
    /\ \A i \in 1..Len(list) : list[i] \in due
    /\ \A i \in 1..Len(list), o \in due \ Range(list) : schedule[list[i]].next <= schedule[o].next

\* Read the clock, clamp it to the last observed instant (it may have been set
\* back) and list what is due; the list may be refused, which ends the tick.
EffectiveNow(wall) == Later(observed, wall)

StartTick(t) ==
    LET now == EffectiveNow(clock) IN
    /\ ticker[t] = NoTick
    /\ observed' = now
    /\ \/ /\ \E list \in SeqOf(Schedules, MaxDue) :
               /\ IsDueList(list, now)
               /\ ticker' = [ticker EXCEPT ![t] = [NoTick EXCEPT !.pc = "claim", !.now = now,
                                                                !.due = list]]
          /\ UNCHANGED spent
       \/ Refused /\ UNCHANGED ticker
    /\ UNCHANGED <<schedule, jobs, tries, clock>>

\* The attempt a claim would be: one more than the expired claim's, or than
\* the last failed one's.  The mutant counts recorded failures only.
NextAttemptOfFailures(s) == schedule[s].last + 1
NextAttempt(s) ==
    IF schedule[s].claim # NoClaim THEN schedule[s].claim.attempt + 1 ELSE schedule[s].last + 1

\* claim_due_automation_schedule answers with a trigger.  The mutants do not
\* look at the lease, and let one attempt too many through.
ClaimableUnbounded(s, now) ==
    /\ Due(s, now)
    /\ schedule[s].claim # NoClaim => schedule[s].claim.expires <= now
    /\ NextAttempt(s) <= MaxAttempts + 1
ClaimableAnyLease(s, now) == Due(s, now) /\ NextAttempt(s) <= MaxAttempts
Claimable(s, now) ==
    /\ Due(s, now)
    /\ schedule[s].claim # NoClaim => schedule[s].claim.expires <= now
    /\ NextAttempt(s) <= MaxAttempts

Claim(t) ==
    LET tick == ticker[t]
        s == Head(tick.due)
        claim == [id |-> schedule[s].serial + 1, occ |-> schedule[s].next,
                  attempt |-> NextAttempt(s), expires |-> tick.now + Lease]
    IN  /\ tick.pc = "claim" /\ tick.due # <<>>
        /\ \/ /\ Claimable(s, tick.now)
              /\ schedule' = [schedule EXCEPT ![s].claim = claim, ![s].serial = @ + 1]
              /\ tries' = [tries EXCEPT ![s][claim.occ] = @ + 1]
              /\ ticker' = [ticker EXCEPT ![t] = [tick EXCEPT !.pc = "submit", !.due = Tail(@),
                                                             !.sched = {s}, !.claim = claim]]
              /\ UNCHANGED spent
           \/ /\ \/ ~Claimable(s, tick.now) /\ UNCHANGED spent
                 \/ Refused
              /\ ticker' = [ticker EXCEPT ![t].due = Tail(@)]
              /\ UNCHANGED <<schedule, tries>>
        /\ UNCHANGED <<jobs, observed, clock>>

EndTick(t) ==
    /\ ticker[t].pc = "claim" /\ ticker[t].due = <<>>
    /\ ticker' = [ticker EXCEPT ![t] = NoTick]
    /\ UNCHANGED <<schedule, jobs, tries, observed, clock, spent>>

Target(t) == CHOOSE s \in ticker[t].sched : TRUE

\* occurrence_idempotency_key; the mutant makes it unique per attempt.
AttemptKey(claim) == <<claim.occ, claim.attempt>>
OccurrenceKey(claim) == <<claim.occ>>

\* factory.build and submit_job: accepted, replayed under the same key, or
\* failed in one of three ways.
SubmitTrigger(t) ==
    LET s == Target(t)
        claim == ticker[t].claim
        key == OccurrenceKey(claim)
        known == \E j \in jobs : j.sched = s /\ j.key = key
    IN  /\ ticker[t].pc = "submit"
        /\ \/ /\ jobs' = IF known THEN jobs
                         ELSE jobs \cup {[sched |-> s, key |-> key, occ |-> claim.occ,
                                          claim |-> claim.id]}
              /\ ticker' = [ticker EXCEPT ![t].pc = "ack"]
           \/ jobs' = jobs /\ ticker' = [ticker EXCEPT ![t].pc = "fail"]
        /\ UNCHANGED <<schedule, tries, observed, clock, spent>>

\* ensure_matching_claim: the trigger is still the one in flight.  The mutant
\* asks only whether something is.
SomeClaim(s, claim) == schedule[s].claim # NoClaim
MatchingClaim(s, claim) == schedule[s].claim = claim

Continue(t) == ticker' = [ticker EXCEPT ![t] = [@ EXCEPT !.pc = "claim", !.sched = {}, !.claim = NoClaim]]
Abandon(t) == ticker' = [ticker EXCEPT ![t] = NoTick]

\* acknowledge_automation_trigger, or its error, which ends the tick.  The
\* mutant forgets to reset the attempts.
AckWithoutReset(t) ==
    LET s == Target(t)
        claim == ticker[t].claim
    IN  /\ ticker[t].pc = "ack" /\ MatchingClaim(s, claim)
        /\ schedule' = [schedule EXCEPT ![s].next = claim.occ + 1, ![s].claim = NoClaim]
        /\ Continue(t)
        /\ UNCHANGED <<jobs, tries, observed, clock, spent>>
Acknowledge(t) ==
    LET s == Target(t)
        claim == ticker[t].claim
    IN  /\ ticker[t].pc = "ack"
        /\ \/ /\ MatchingClaim(s, claim)
              /\ schedule' = [schedule EXCEPT ![s].next = claim.occ + 1, ![s].claim = NoClaim,
                                              ![s].last = 0]
              /\ Continue(t)
              /\ UNCHANGED spent
           \/ /\ \/ ~MatchingClaim(s, claim) /\ UNCHANGED spent
                 \/ Refused
              /\ Abandon(t)
              /\ UNCHANGED schedule
        /\ UNCHANGED <<jobs, tries, observed, clock>>

\* fail_automation_trigger: the last attempt fails the schedule.  The mutant
\* only records the failure.
FailWithoutEnd(t) ==
    LET s == Target(t) IN
    /\ ticker[t].pc = "fail" /\ MatchingClaim(s, ticker[t].claim)
    /\ schedule' = [schedule EXCEPT ![s].claim = NoClaim, ![s].last = ticker[t].claim.attempt]
    /\ Continue(t)
    /\ UNCHANGED <<jobs, tries, observed, clock, spent>>
FailTrigger(t) ==
    LET s == Target(t)
        claim == ticker[t].claim
        exhausted == claim.attempt >= MaxAttempts
    IN  /\ ticker[t].pc = "fail"
        /\ \/ /\ MatchingClaim(s, claim)
              /\ schedule' = [schedule EXCEPT ![s].state = IF exhausted THEN "failed" ELSE @,
                                              ![s].next = IF exhausted THEN NoTime ELSE @,
                                              ![s].claim = NoClaim,
                                              ![s].last = claim.attempt]
              /\ Continue(t)
              /\ UNCHANGED spent
           \/ /\ \/ ~MatchingClaim(s, claim) /\ UNCHANGED spent
                 \/ Refused
              /\ Abandon(t)
              /\ UNCHANGED schedule
        /\ UNCHANGED <<jobs, tries, observed, clock>>

TickStep(t) ==
    \/ StartTick(t)
    \/ Claim(t) \/ EndTick(t) \/ SubmitTrigger(t) \/ Acknowledge(t) \/ FailTrigger(t)

-----------------------------------------------------------------------------
\* The process dies, early enough for the clock to reach the end of its leases.
Crash ==
    /\ spent.crash < MaxCrashes
    /\ \A s \in Schedules : schedule[s].claim.expires <= MaxTime
    /\ Spend("crash")
    /\ ticker' = [t \in Tickers |-> NoTick]
    /\ observed' = NoTime
    /\ UNCHANGED <<schedule, jobs, tries, clock>>

Advance ==
    /\ clock < MaxTime
    /\ clock' = clock + 1
    /\ UNCHANGED <<schedule, jobs, tries, ticker, observed, spent>>

SetClockBack ==
    /\ clock > 0
    /\ spent.setback < MaxSetbacks
    /\ Spend("setback")
    /\ clock' = clock - 1
    /\ UNCHANGED <<schedule, jobs, tries, ticker, observed>>

AutNext ==
    \/ \E s \in Schedules, first \in Times : CreateSchedule(s, first)
    \/ \E s \in Schedules, target \in {"active", "paused"} : SetScheduleState(s, target)
    \/ \E t \in Tickers : TickStep(t)
    \/ Crash \/ Advance \/ SetClockBack

AutSpec == AutInit /\ [][AutNext]_autVars

\* The loop polls, ticks are polled to their end, and time passes.
AutFairness == WF_autVars(Advance) /\ \A t \in Tickers : WF_autVars(TickStep(t))

FairAutSpec == AutSpec /\ AutFairness

-----------------------------------------------------------------------------
(* Properties.                                                             *)

\* Rows and ticks are of their kinds.
AutTypeOK ==
    /\ \A s \in Schedules :
         LET r == schedule[s] IN
         /\ r.state \in {"absent", "active", "paused", "failed"}
         /\ r.next \in NoTime..(MaxTime + 1)
         /\ r.last \in 0..MaxAttempts
         /\ r.claim.attempt \in 0..MaxAttempts
         /\ r.claim # NoClaim => r.claim.occ = r.next /\ r.claim.id = r.serial
    /\ \A t \in Tickers : ticker[t].pc \in {"idle", "claim", "submit", "ack", "fail"}
    /\ observed \in NoTime..MaxTime

\* "A process crash, a duplicate tick or a lease handoff must not create a
\* second accepted execution" (aut-c0): one Job per occurrence, however many
\* claims for it were made.
OneJobPerOccurrence ==
    \A i, j \in jobs : i.sched = j.sched /\ i.occ = j.occ => i = j

\* No occurrence is passed over and none is run ahead of time: everything
\* from the first Job to the next run was submitted, nothing later was.
NoOccurrenceSkipped ==
    \A s \in Schedules : schedule[s].state \in {"active", "paused"} =>
      LET done == {j.occ : j \in {i \in jobs : i.sched = s}} IN
      /\ \A o \in done : o <= schedule[s].next
      /\ \A o \in done : \A p \in o..(schedule[s].next - 1) : p \in done

\* Retries are finite: whatever crashes, expired leases and refused calls, no
\* occurrence is claimed more than max_submission_attempts times.
RetriesBounded == \A s \in Schedules, o \in Times : tries[s][o] <= MaxAttempts

\* A schedule only moves forward, and a schedule that failed stays failed: a
\* late acknowledgement or failure of a superseded claim changes nothing.
ScheduleForward ==
    [][\A s \in Schedules :
         /\ schedule[s].state = "failed" => schedule'[s] = schedule[s]
         /\ schedule'[s].next # NoTime => schedule'[s].next >= schedule[s].next]_autVars

\* The work of a live claim is not repeated: while a lease runs by the clock
\* the holder used, no other tick holds a trigger for the occurrence.
LeaseExclusive ==
    \A t, u \in Tickers :
      /\ t # u /\ ticker[t].claim # NoClaim /\ ticker[u].claim # NoClaim
      /\ ticker[t].sched = ticker[u].sched
      => \/ ticker[t].claim.expires <= observed
         \/ ticker[u].claim.expires <= observed

\* A schedule gives up only after all its attempts at the occurrence it gives
\* up on: failures of earlier occurrences do not count against a later one.
FailsOnlyExhausted ==
    \A s \in Schedules : schedule[s].state = "failed" =>
      \E o \in Times : tries[s][o] = MaxAttempts /\ \A p \in Times : p > o => tries[s][p] = 0

\* The last permitted claim has expired, on a schedule that is still active.
Exhausted(s) ==
    /\ schedule[s].state = "active"
    /\ schedule[s].claim.attempt = MaxAttempts
    /\ schedule[s].claim.expires <= clock

\* A lease that outlives the instance's clock: nobody can take it over here.
BeyondHorizon(s) == schedule[s].claim.expires > MaxTime

\* Every due occurrence of an active schedule is submitted in the end, or the
\* schedule stops being active, even if the process dies once on the way
\* (tick_inner, with ticks that run to their end); the one exception is a death
\* during the last attempt, for which see ExhaustionTerminal.
DueServed ==
    \A s \in Schedules :
      schedule[s].state = "active" /\ schedule[s].next \in 0..clock
        ~> \/ schedule[s].state # "active" \/ schedule[s].next > clock
           \/ Exhausted(s) \/ BeyondHorizon(s)

\* "Exhaustion moves the schedule to failed" (aut-j1): a schedule whose last
\* permitted claim has expired does not stay active and due for ever.
ExhaustionTerminal == \A s \in Schedules : Exhausted(s) ~> ~Exhausted(s)
=============================================================================
