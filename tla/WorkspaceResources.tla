-------------------------- MODULE WorkspaceResources --------------------------
(***************************************************************************)
(* The parents a Job needs: one Workspace, its Sessions, SourceConnection  *)
(* and SourceAssets, and one Plan with its PlanVersions                    *)
(* (stillflow-storage/src/control_plane.rs).  Unlike the Job operations,   *)
(* create_* and transition_session run their checks and their write as     *)
(* separate autocommit statements: such a call is two steps here, with the *)
(* call kept in `calls` in between.  The checks of one call are one step,  *)
(* which leaves out interleavings among them.                              *)
(*                                                                         *)
(* Datasets are written exactly as SourceAssets are and are not repeated;  *)
(* Jobs appear only with what their parents' guards look at.               *)
(***************************************************************************)
EXTENDS Integers, FiniteSets

CONSTANTS
    Sessions, Assets, Versions, SessionJobs,  \* identities
    MaxCalls,                                 \* bound: write calls between check and write
    None                                      \* SQL NULL

ASSUME WorkspaceResourcesAssumption ==
    /\ MaxCalls \in Nat
    /\ None \notin Sessions \cup Versions

VARIABLES
    workspace, \* cp_workspaces.state
    session,   \* cp_sessions.state
    source,    \* cp_connections.state of the one SourceConnection
    asset,     \* cp_assets.state
    plan,      \* cp_plans: state and current_version_id
    version,   \* cp_plan_versions.state
    job,       \* cp_jobs: state, session, and (history) whether a close of the
               \* session was under way when the Job was accepted
    calls      \* calls that passed their checks and have not written yet

resVars == <<workspace, session, source, asset, plan, version, job, calls>>

NoJobRow == [state |-> "absent", session |-> None, raced |-> FALSE]

ResInit ==
    /\ workspace = "active"
    /\ session = [s \in Sessions |-> "absent"]
    /\ source = "active"
    /\ asset = [a \in Assets |-> "absent"]
    /\ plan = [state |-> "active", current |-> None]
    /\ version = [v \in Versions |-> "absent"]
    /\ job = [j \in SessionJobs |-> NoJobRow]
    /\ calls = {}

\* A call that checked its parents, and the write that ends it.
Enter(call) ==
    /\ Cardinality(calls) < MaxCalls
    /\ call \notin calls
    /\ calls' = calls \cup {call}
Leave(call) == call \in calls /\ calls' = calls \ {call}

-----------------------------------------------------------------------------
ArchiveWorkspace ==
    /\ workspace = "active"
    /\ workspace' = "archived"
    /\ UNCHANGED <<session, source, asset, plan, version, job, calls>>

\* validate_parent_active on a connection of its own, then the INSERT.
CheckNewSession(s) ==
    /\ workspace = "active"
    /\ Enter([op |-> "session", id |-> s])
    /\ UNCHANGED <<workspace, session, source, asset, plan, version, job>>

InsertSession(s) ==
    /\ Leave([op |-> "session", id |-> s])
    /\ session' = IF session[s] = "absent" THEN [session EXCEPT ![s] = "open"] ELSE session
    /\ UNCHANGED <<workspace, source, asset, plan, version, job>>

AllowedSessionTransition == {<<"open", "closing">>, <<"open", "closed">>, <<"closing", "closed">>}

\* The Jobs that keep a Session from closing.  The mutant forgets the queue.
RunningJobs(s) == {j \in SessionJobs : job[j].session = s /\ job[j].state = "running"}
ActiveJobs(s) == {j \in SessionJobs : job[j].session = s /\ job[j].state \in {"queued", "running"}}

\* transition_session: read the row, count the Jobs, and update the row if its
\* state is still the one read.
CheckClose(s, target) ==
    /\ <<session[s], target>> \in AllowedSessionTransition
    /\ ActiveJobs(s) = {}
    /\ Enter([op |-> "close", id |-> s, from |-> session[s], to |-> target])
    /\ UNCHANGED <<workspace, session, source, asset, plan, version, job>>

\* The mutant updates the row whatever its state.
AnyRow(call) == TRUE
SameRow(call) == session[call.id] = call.from

WriteClose(call) ==
    /\ call.op = "close" /\ Leave(call)
    /\ session' = IF SameRow(call) THEN [session EXCEPT ![call.id] = call.to] ELSE session
    /\ UNCHANGED <<workspace, source, asset, plan, version, job>>

-----------------------------------------------------------------------------
AllowedSourceConnectionTransition ==
    {<<"active", "disabled">>, <<"disabled", "active">>, <<"disabled", "retired">>}

\* One statement that compares and sets the state, after a read of it.
TransitionSourceConnection(target) ==
    /\ <<source, target>> \in AllowedSourceConnectionTransition
    /\ source' = target
    /\ UNCHANGED <<workspace, session, asset, plan, version, job, calls>>

CheckNewAsset(a) ==
    /\ workspace = "active" /\ source = "active"
    /\ Enter([op |-> "asset", id |-> a])
    /\ UNCHANGED <<workspace, session, source, asset, plan, version, job>>

InsertAsset(a) ==
    /\ Leave([op |-> "asset", id |-> a])
    /\ asset' = IF asset[a] = "absent" THEN [asset EXCEPT ![a] = "active"] ELSE asset
    /\ UNCHANGED <<workspace, session, source, plan, version, job>>

RetireSourceAsset(a) ==
    /\ asset[a] = "active"
    /\ asset' = [asset EXCEPT ![a] = "retired"]
    /\ UNCHANGED <<workspace, session, source, plan, version, job, calls>>

-----------------------------------------------------------------------------
ArchivePlan ==
    /\ plan.state = "active"
    /\ plan' = [plan EXCEPT !.state = "archived"]
    /\ UNCHANGED <<workspace, session, source, asset, version, job, calls>>

CheckNewVersion(v) ==
    /\ workspace = "active" /\ plan.state = "active"
    /\ Enter([op |-> "version", id |-> v])
    /\ UNCHANGED <<workspace, session, source, asset, plan, version, job>>

InsertVersion(v) ==
    /\ Leave([op |-> "version", id |-> v])
    /\ version' = IF version[v] = "absent" THEN [version EXCEPT ![v] = "draft"] ELSE version
    /\ UNCHANGED <<workspace, session, source, asset, plan, job>>

\* publish_plan_version, one transaction: the caller says which version it
\* believes current.  The mutant does not supersede that one.
PublishBeside(v, expected) ==
    /\ version[v] = "draft" /\ plan.state = "active" /\ plan.current = expected
    /\ version' = [version EXCEPT ![v] = "published"]
    /\ plan' = [plan EXCEPT !.current = v]
    /\ UNCHANGED <<workspace, session, source, asset, job, calls>>
PublishPlanVersion(v, expected) ==
    /\ version[v] = "draft" /\ plan.state = "active" /\ plan.current = expected
    /\ version' = [u \in Versions |->
         IF u = v THEN "published"
         ELSE IF u = expected /\ version[u] = "published" THEN "superseded" ELSE version[u]]
    /\ plan' = [plan EXCEPT !.current = v]
    /\ UNCHANGED <<workspace, session, source, asset, job, calls>>

ArchivePlanVersion(v) ==
    /\ version[v] = "superseded"
    /\ version' = [version EXCEPT ![v] = "archived"]
    /\ UNCHANGED <<workspace, session, source, asset, plan, job, calls>>

-----------------------------------------------------------------------------
\* submit_job of a Materialize operation, one transaction: every parent is live.
ParentsLive(s, v, a) ==
    /\ workspace = "active"
    /\ session[s] = "open"
    /\ version[v] = "published" /\ plan.state = "active"
    /\ asset[a] = "active" /\ source = "active"

AcceptSessionJob(j, s, v, a) ==
    /\ ParentsLive(s, v, a)
    /\ job[j] = NoJobRow
    /\ job' = [job EXCEPT ![j] =
         [state |-> "queued", session |-> s,
          raced |-> \E c \in calls : c.op = "close" /\ c.id = s]]
    /\ UNCHANGED <<workspace, session, source, asset, plan, version, calls>>

\* claim_job, and any of the operations that end a Job (module ControlPlane).
StartJob(j) ==
    /\ job[j].state = "queued"
    /\ job' = [job EXCEPT ![j].state = "running"]
    /\ UNCHANGED <<workspace, session, source, asset, plan, version, calls>>

EndJob(j) ==
    /\ job[j].state \in {"queued", "running"}
    /\ job' = [job EXCEPT ![j].state = "ended"]
    /\ UNCHANGED <<workspace, session, source, asset, plan, version, calls>>

ResNext ==
    \/ ArchiveWorkspace \/ ArchivePlan
    \/ \E s \in Sessions : CheckNewSession(s) \/ InsertSession(s)
    \/ \E s \in Sessions, target \in {"closing", "closed"} : CheckClose(s, target)
    \/ \E call \in calls : WriteClose(call)
    \/ \E target \in {"active", "disabled", "retired"} : TransitionSourceConnection(target)
    \/ \E a \in Assets : CheckNewAsset(a) \/ InsertAsset(a) \/ RetireSourceAsset(a)
    \/ \E v \in Versions : CheckNewVersion(v) \/ InsertVersion(v) \/ ArchivePlanVersion(v)
    \/ \E v \in Versions, expected \in Versions \cup {None} : PublishPlanVersion(v, expected)
    \/ \E j \in SessionJobs, s \in Sessions, v \in Versions, a \in Assets : AcceptSessionJob(j, s, v, a)
    \/ \E j \in SessionJobs : StartJob(j) \/ EndJob(j)

ResSpec == ResInit /\ [][ResNext]_resVars

-----------------------------------------------------------------------------
(* Properties.                                                             *)

Order(st) ==
    CASE st = "absent" -> 0
      [] st \in {"open", "draft"} -> 1
      [] st \in {"closing", "published"} -> 2
      [] st \in {"closed", "superseded"} -> 3
      [] st = "archived" -> 4

\* "A draft is not executable" and one version is current: at most one version
\* is published, and the Plan points at it, whichever publishers race.
OnePublished == \A v \in Versions : version[v] = "published" <=> plan.current = v

\* Sessions and PlanVersions never go back, whatever calls are in between
\* their check and their write (the state compared by transition_session).
LifecyclesForward ==
    [][/\ \A s \in Sessions : Order(session'[s]) >= Order(session[s])
       /\ \A v \in Versions : Order(version'[v]) >= Order(version[v])]_resVars

\* A Session that is closing or closed holds only Jobs accepted while the
\* close was under way: whatever was there before stops transition_session.
CloseMissesOnlyRacers ==
    \A j \in SessionJobs :
      job[j].state \in {"queued", "running"} /\ session[job[j].session] # "open" => job[j].raced

\* "Closing is rejected while a non-terminal Job exists unless the caller
\* first cancels it" (issue-191, 6.1): transition_session.
ClosedSessionIdle ==
    \A s \in Sessions : session[s] \in {"closing", "closed"} => ActiveJobs(s) = {}
=============================================================================
