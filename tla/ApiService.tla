------------------------------ MODULE ApiService ------------------------------
(***************************************************************************)
(* The embedded API (stillflow-api/src/service.rs) over the tables of the  *)
(* control plane, with several Workspaces and several callers.  A handler  *)
(* passes the gate (validate_meta, require_capability), reads the objects  *)
(* it is given, compares their Workspace with the request's (ensure_scope) *)
(* and calls the store, which makes its own checks on the parents of a new *)
(* row.  Neither side checks everything: what isolates the Workspaces is   *)
(* the two together, over every row a handler reaches through another.     *)
(*                                                                         *)
(* Handlers that await a connector or the engine, and clone_plan, which    *)
(* commits two transactions, are two steps with a record in `awaiting`.    *)
(* `breaches` collects what a response showed or an edit reached outside   *)
(* the caller's roles.                                                     *)
(* Malformed requests (version, nil ids, keys) change nothing and are left *)
(* out; lifecycles of the rows are in WorkspaceResources, Jobs in          *)
(* ControlPlane and TypedJobs.                                             *)
(***************************************************************************)
EXTENDS Naturals, FiniteSets

CONSTANTS Tenants, Callers, Connections, ApiAssets, ApiSessions, Datasets, Plans, ApiVersions, ApiJobs,
          Grants,        \* [Callers -> [Tenants -> SUBSET Capabilities]]: the roles of each caller
          MaxAwaiting    \* bound: handlers suspended at an await

VARIABLES apiRow,    \* every table: id -> NoRow or its Workspace, references and state
          awaiting,  \* handlers between their checks and their last call
          breaches   \* history: ids shown to or edited by a caller without the grant

apiVars == <<apiRow, awaiting, breaches>>

Capabilities == {"WorkspaceRead", "WorkspaceWrite", "ConnectorTest", "ExportWrite", "ArtifactDownload"}

Nobody == "nobody"
NoRow == [ws |-> Nobody, up |-> {}, live |-> FALSE]

\* What a Run leaves: its row, its artifact ref and the manifest in the Snapshot store
Products(j) == {<<"run", j>>, <<"artifact", j>>, <<"export", j>>}
Resources == Connections \cup ApiAssets \cup ApiSessions \cup Datasets \cup Plans \cup ApiVersions \cup ApiJobs
Ids == Resources \cup UNION {Products(j) : j \in ApiJobs}

\* The products of a Run have keys of their own, and no Workspace is called like a missing one
ASSUME ApiServiceAssumption ==
  /\ \A j \in ApiJobs : Products(j) \cap Resources = {}
  /\ Tenants \cap {Nobody, "none"} = {}

Present(x) == apiRow[x] # NoRow

ApiInit ==
  /\ apiRow = [x \in Ids |-> NoRow]
  /\ awaiting = {}
  /\ breaches = {}

\* validate_meta and require_capability: the caller holds the capability in the request's Workspace
Gate(c, w, caps) == caps \subseteq Grants[c][w]
Reads(c, w) == Gate(c, w, {"WorkspaceRead"})
Writes(c, w) == Gate(c, w, {"WorkspaceWrite"})

\* get_* then ensure_scope
InScope(x, w) == Present(x) /\ apiRow[x].ws = w

\* The *_view functions: a row and the ids it refers to
View(x) == {x} \cup apiRow[x].up

\* The Workspace of a row, after the step; a manifest has the one of its Run
OwnerIn(r, x) == IF r[x].ws \in Tenants THEN r[x].ws ELSE CHOOSE w \in {r[y].ws : y \in r[x].up} : TRUE

\* A response names `ids` and follows the edit of `edits`: what the caller's roles do not allow
Respond(c, ids, edits) ==
  breaches' = breaches
    \cup {<<c, x>> : x \in {y \in ids : Grants[c][OwnerIn(apiRow', y)] \cap {"WorkspaceRead", "WorkspaceWrite"} = {}}}
    \cup {<<c, x>> : x \in {y \in edits : "WorkspaceWrite" \notin Grants[c][OwnerIn(apiRow', y)]}}

Insert(x, w, up) == apiRow' = [apiRow EXCEPT ![x] = [ws |-> w, up |-> up, live |-> TRUE]]

\* A refused parent is one of another Workspace, or one that takes no children any more
AnyParent(x, w) == Present(x) /\ apiRow[x].live
ParentTakes(x, w) == Present(x) /\ apiRow[x].ws = w /\ apiRow[x].live

(***************************************************************************)
(* Shapes the handlers share                                               *)
(***************************************************************************)
Create(c, w, x, parents) ==
  /\ Writes(c, w)
  /\ ~Present(x)
  /\ \A p \in parents : ParentTakes(p, w)
  /\ Insert(x, w, parents)
  /\ Respond(c, {x} \cup parents, {x})
  /\ UNCHANGED awaiting

Read(c, w, x) ==
  /\ Reads(c, w) /\ InScope(x, w)
  /\ UNCHANGED <<apiRow, awaiting>>
  /\ Respond(c, View(x), {})

List(c, w, kind) ==
  /\ Reads(c, w)
  /\ UNCHANGED <<apiRow, awaiting>>
  /\ Respond(c, UNION {View(x) : x \in {y \in kind : InScope(y, w)}}, {})

\* An edit of a row that no other row of these tables depends on: archive_dataset,
\* publish_plan_version, cancel_job, update_source_connection
Edit(c, w, x) ==
  /\ Writes(c, w) /\ InScope(x, w)
  /\ UNCHANGED <<apiRow, awaiting>>
  /\ Respond(c, View(x), {x})

\* close_session, transition_source_connection: the row takes no children any more
RetireResource(c, w, x) ==
  /\ Writes(c, w) /\ InScope(x, w) /\ apiRow[x].live
  /\ apiRow' = [apiRow EXCEPT ![x].live = FALSE]
  /\ Respond(c, View(x), {x})
  /\ UNCHANGED awaiting

Suspend(call) ==
  /\ Cardinality(awaiting) < MaxAwaiting
  /\ awaiting' = awaiting \cup {call}

Resume(call) == call \in awaiting /\ awaiting' = awaiting \ {call}

(***************************************************************************)
(* Handlers, by the table they serve                                       *)
(***************************************************************************)
SessionCalls(c, w, s) ==
  \/ Create(c, w, s, {})
  \/ Read(c, w, s)
  \/ RetireResource(c, w, s)
  \/ List(c, w, ApiSessions)

ConnectionCalls(c, w, x) ==
  \/ Create(c, w, x, {})
  \/ Read(c, w, x)
  \/ Edit(c, w, x)
  \/ RetireResource(c, w, x)
  \/ List(c, w, Connections)

\* test_source_connection answers with the connector's word on the row it read
TestSourceConnection(c, w, x) ==
  /\ Gate(c, w, {"WorkspaceRead", "ConnectorTest"}) /\ InScope(x, w)
  /\ Suspend([op |-> "ask", by |-> c, ws |-> w, ids |-> {x}])
  /\ UNCHANGED <<apiRow, breaches>>

DiscoverSourceAssets(c, w, x) ==
  /\ Writes(c, w) /\ InScope(x, w)
  /\ Suspend([op |-> "discover", by |-> c, ws |-> w, ids |-> {x}])
  /\ UNCHANGED <<apiRow, breaches>>

\* After the await each asset is its own create_source_asset: one refusal ends the call
CreateDiscovered(call, a) ==
  /\ call \in awaiting /\ call.op = "discover"
  /\ ~Present(a)
  /\ \A x \in call.ids : ParentTakes(x, call.ws)
  /\ Insert(a, call.ws, call.ids)
  /\ Respond(call.by, {a} \cup call.ids, {a})
  /\ UNCHANGED awaiting

DiscoverEnds(call) ==
  /\ call.op = "discover"
  /\ Resume(call)
  /\ UNCHANGED <<apiRow, breaches>>

\* authorize_node_graph_source, and the same checks in inspect and preview
AuthorizeSource(w, x, a) == InScope(x, w) /\ InScope(a, w) /\ x \in apiRow[a].up

\* inspect_source_asset, preview_source_asset, preview_plan, compile_node_graph, preview_node_graph
PreviewSource(c, w, x, a) ==
  /\ Reads(c, w) /\ AuthorizeSource(w, x, a)
  /\ Suspend([op |-> "ask", by |-> c, ws |-> w, ids |-> {x, a}])
  /\ UNCHANGED <<apiRow, breaches>>

\* The connector or the engine answers for the rows read before the await
AnswerAwaited(call) ==
  /\ call.op = "ask"
  /\ Resume(call)
  /\ UNCHANGED apiRow
  /\ Respond(call.by, call.ids, {})

AssetCalls(c, w, x, a) ==
  \/ List(c, w, ApiAssets)
  \/ DiscoverSourceAssets(c, w, x)
  \/ PreviewSource(c, w, x, a)

DatasetCalls(c, w, d, s, a) ==
  \/ Create(c, w, d, {s, a})
  \/ Read(c, w, d)
  \/ Edit(c, w, d)
  \/ List(c, w, Datasets)

PlanCalls(c, w, p) ==
  \/ Create(c, w, p, {})
  \/ Read(c, w, p)
  \/ List(c, w, Plans)

\* save_plan_version: get_plan and ensure_scope here, ensure_plan_workspace in the store.
\* A parent version is of the same Plan and the same Workspace, in any state.
SavePlanVersion(c, w, v, p, parents) ==
  /\ Writes(c, w) /\ InScope(p, w)
  /\ ~Present(v)
  /\ ParentTakes(p, w)
  /\ \A q \in parents : InScope(q, w) /\ p \in apiRow[q].up
  /\ Insert(v, w, {p} \cup parents)
  /\ Respond(c, {v, p} \cup parents, {v})
  /\ UNCHANGED awaiting

VersionCalls(c, w, v, p) ==
  \/ \E parents \in {{}} \cup {{q} : q \in ApiVersions} : SavePlanVersion(c, w, v, p, parents)
  \/ Read(c, w, v)
  \/ Edit(c, w, v)
  \/ InScope(p, w) /\ List(c, w, {q \in ApiVersions : p \in apiRow[q].up})

\* clone_plan: create_plan commits, then create_plan_version
ClonePlan(c, w, from, p, v) ==
  /\ Writes(c, w) /\ InScope(from, w)
  /\ ~Present(p)
  /\ Insert(p, w, {})
  /\ Suspend([op |-> "clone", by |-> c, ws |-> w, ids |-> {p, v}])
  /\ UNCHANGED breaches

CloneVersion(call, p, v) ==
  /\ call.op = "clone" /\ call.ids = {p, v}
  /\ Resume(call)
  /\ \/ /\ ParentTakes(p, call.ws) /\ ~Present(v)
        /\ Insert(v, call.ws, {p})
        /\ Respond(call.by, {p, v}, {p, v})
     \/ UNCHANGED <<apiRow, breaches>>      \* refused, or the process died: the Plan stays, empty

\* diff_plans: both versions are scoped
DiffPlans(c, w, left, right) ==
  /\ Reads(c, w) /\ InScope(left, w) /\ InScope(right, w)
  /\ UNCHANGED <<apiRow, awaiting>>
  /\ Respond(c, View(left) \cup View(right), {})

\* submit_job: ensure_scope on the version, the store on the Session and the version
SubmitApiJob(c, w, j, s, v, caps) ==
  /\ Gate(c, w, {"WorkspaceWrite"} \cup caps) /\ InScope(v, w)
  /\ ~Present(j)
  /\ ParentTakes(s, w)
  /\ Insert(j, w, {s, v})
  /\ Respond(c, {j, s, v}, {j})
  /\ UNCHANGED awaiting

\* submit_export asks for ExportWrite besides, then is submit_job
SubmitExport(c, w, j, s, v) == SubmitApiJob(c, w, j, s, v, {"ExportWrite"})

\* submit_drift_comparison: the comparison names a Workspace of its own
SubmitDriftComparison(c, w, of, j, s, v) == of = w /\ SubmitApiJob(c, w, j, s, v, {})

JobCalls(c, w, j) ==
  \/ Read(c, w, j)
  \/ Edit(c, w, j)
  \/ List(c, w, ApiJobs)

RunCalls(c, w, j) ==
  \/ Read(c, w, <<"run", j>>)
  \/ List(c, w, {<<"run", i>> : i \in ApiJobs})

\* read_report: the ref is scoped, and its body must be of the same Workspace and Run
ReadReport(c, w, j) ==
  /\ Present(<<"run", j>>) /\ apiRow[<<"run", j>>].ws = w
  /\ Read(c, w, <<"artifact", j>>)

ArtifactCalls(c, w, j) ==
  \/ Read(c, w, <<"artifact", j>>)
  \/ ReadReport(c, w, j)
  \/ List(c, w, {<<"artifact", i>> : i \in ApiJobs})
  \/ /\ Gate(c, w, {"WorkspaceRead", "ArtifactDownload"}) /\ InScope(<<"artifact", j>>, w)
     /\ UNCHANGED <<apiRow, awaiting>>
     /\ Respond(c, View(<<"artifact", j>>), {})

\* A manifest carries no Workspace: its Run's decides, and the ref that Run published for it
ScopedExportManifest(w, j) ==
  /\ Present(<<"export", j>>)
  /\ InScope(<<"run", j>>, w)
  /\ InScope(<<"artifact", j>>, w) /\ <<"run", j>> \in apiRow[<<"artifact", j>>].up

ExportCalls(c, w, j) ==
  /\ ScopedExportManifest(w, j)
  /\ UNCHANGED <<apiRow, awaiting>>
  /\ \/ Reads(c, w) /\ Respond(c, View(<<"export", j>>), {})
     \/ Writes(c, w) /\ Respond(c, View(<<"export", j>>), {<<"export", j>>})

\* The runtime claims and ends the Job: rows of the Job's Workspace, a manifest of none
JobRuns(j) ==
  /\ Present(j) /\ apiRow[j].live /\ ~Present(<<"run", j>>)
  /\ apiRow' = [x \in Ids |->
       CASE x = <<"run", j>> -> [ws |-> apiRow[j].ws, up |-> {j}, live |-> TRUE]
         [] x = <<"artifact", j>> -> [ws |-> apiRow[j].ws, up |-> {<<"run", j>>}, live |-> TRUE]
         [] x = <<"export", j>> -> [ws |-> "none", up |-> {<<"run", j>>}, live |-> TRUE]
         [] OTHER -> apiRow[x]]
  /\ UNCHANGED <<awaiting, breaches>>

ApiNext ==
  \/ \E c \in Callers, w \in Tenants :
       \/ \E s \in ApiSessions : SessionCalls(c, w, s)
       \/ \E x \in Connections : ConnectionCalls(c, w, x) \/ TestSourceConnection(c, w, x)
       \/ \E x \in Connections, a \in ApiAssets : AssetCalls(c, w, x, a)
       \/ \E d \in Datasets, s \in ApiSessions, a \in ApiAssets : DatasetCalls(c, w, d, s, a)
       \/ \E p \in Plans : PlanCalls(c, w, p)
       \/ \E v \in ApiVersions, p \in Plans : VersionCalls(c, w, v, p)
       \/ \E from, v \in ApiVersions, p \in Plans : ClonePlan(c, w, from, p, v)
       \/ \E left, right \in ApiVersions : DiffPlans(c, w, left, right)
       \/ \E j \in ApiJobs, s \in ApiSessions, v \in ApiVersions :
            \/ SubmitApiJob(c, w, j, s, v, {})
            \/ SubmitExport(c, w, j, s, v)
            \/ \E of \in Tenants : SubmitDriftComparison(c, w, of, j, s, v)
       \/ \E j \in ApiJobs :
            JobCalls(c, w, j) \/ RunCalls(c, w, j) \/ ArtifactCalls(c, w, j) \/ ExportCalls(c, w, j)
  \/ \E call \in awaiting :
       \/ AnswerAwaited(call)
       \/ DiscoverEnds(call)
       \/ \E a \in ApiAssets : CreateDiscovered(call, a)
       \/ \E p \in Plans, v \in ApiVersions : CloneVersion(call, p, v)
  \/ \E j \in ApiJobs : JobRuns(j)

ApiSpec == ApiInit /\ [][ApiNext]_apiVars

(***************************************************************************)
(* Properties                                                              *)
(***************************************************************************)
\* Workspaces are isolated whatever order handlers, awaits and commits take: no row refers to a
\* row of another Workspace, nobody is shown an id of a Workspace it may not read, and nobody
\* edits one it may not write.  It rests on ensure_scope in the handlers, on the store's ensure_*
\* checks, and on every row a view names being in the Workspace of the row that names it.
TenantsIsolated ==
  /\ breaches = {}
  /\ \A x \in Ids : \A y \in apiRow[x].up : Present(y) /\ OwnerIn(apiRow, y) = OwnerIn(apiRow, x)
=============================================================================
