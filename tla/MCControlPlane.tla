--------------------------- MODULE MCControlPlane ---------------------------
(* Model-checking instance of the control plane and the API above it: the    *)
(* tables of ControlPlane, WorkspaceResources, TypedJobs, ProfileDrift,      *)
(* ManualTrigger, GraphRevisions, Identity, AuditLog and Listing, and the    *)
(* handlers of EventStream, ApiService and ApiPaging.  These modules share   *)
(* no variable: a behaviour picks one of them (under) and runs it alone, so  *)
(* the run explores the union of their state spaces, and the modules may     *)
(* draw their identities from the same model values.                         *)
EXTENDS ControlPlane, WorkspaceResources, TypedJobs, ProfileDrift, ManualTrigger, GraphRevisions,
        Identity, AuditLog, Listing, EventStream, ApiService, ApiPaging, TLC

CONSTANTS j1, j2, j3, r1, r2, r3, a1, a2, k1, k2, k3, d1, d2, noJob, noRun

VARIABLE under    \* the module this behaviour runs

\* ControlPlane: two typed Jobs and a legacy one, a queue of two that a third submission meets.
MCJobs == {j1, j2, j3}
MCTyped == {j1, j2}
MCRuns == {r1, r2, r3}
MCArtifacts == {a1, a2}
MCReports == {a1}
MCKeys == {k1, k2, k3}
MCDigests == {d1, d2}
MCTwoRuns == {r1, r2}
MCOne == {a1}
MCOther == {a2}

\* ProfileDrift: a usable profile, a truncated one and one of another version.
Kind(w, v) == [whole |-> w, version |-> v]
MCKinds == {Kind(TRUE, 1), Kind(FALSE, 1), Kind(TRUE, 2)}

\* ApiService: two tenants with a caller each, who holds every capability at home and none abroad.
MCGrants == [caller \in MCTyped |-> [tenant \in MCTyped |-> IF caller = tenant THEN Capabilities ELSE {}]]

\* ApiPaging: documents whose items differ in tag, rows and size.
It(t, r, s, b) == [tag |-> t, rows |-> r, stored |-> s, bytes |-> b]
MCDocuments ==
    "mixed" :> <<It("a", 1, 1, 2), It("b", 2, 1, 1), It("b", 1, 2, 3), It("a", 1, 1, 1), It("b", 1, 1, 1)>>
    @@ "short" :> <<It("b", 1, 1, 1), It("a", 1, 3, 3)>>
    @@ "empty" :> <<>>

MCInit ==
    /\ under \in {"jobs", "resources", "typed", "drift", "trigger", "graph", "gate", "credentials", "audit",
                  "listing", "events", "api", "paging"}
    /\ Init /\ ResInit /\ TjInit /\ PdInit /\ TrInit /\ GrInit /\ IdInit /\ AuInit /\ LsInit /\ EvInit
    /\ ApiInit /\ PagInit
    /\ under # "trigger" => trSchedule.template = j1   \* one initial state for the other modules
    /\ under # "listing" => lsList = "jobs"

Alone(name) ==
    /\ under = name /\ UNCHANGED under
    /\ name # "jobs" => UNCHANGED cpVars
    /\ name # "resources" => UNCHANGED resVars
    /\ name # "typed" => UNCHANGED tjVars
    /\ name # "drift" => UNCHANGED pdVars
    /\ name # "trigger" => UNCHANGED trVars
    /\ name # "graph" => UNCHANGED grVars
    /\ name \notin {"gate", "credentials"} => UNCHANGED idVars
    /\ name # "audit" => UNCHANGED auVars
    /\ name # "listing" => UNCHANGED lsVars
    /\ name # "events" => UNCHANGED evVars
    /\ name # "api" => UNCHANGED apiVars
    /\ name # "paging" => UNCHANGED pagVars

MCNext ==
    \/ Alone("jobs") /\ Next
    \/ Alone("resources") /\ ResNext
    \/ Alone("typed") /\ TjNext
    \/ Alone("drift") /\ PdNext
    \/ Alone("trigger") /\ TrNext
    \/ Alone("graph") /\ GrNext
    \/ Alone("gate") /\ GateNext
    \/ Alone("credentials") /\ CredentialNext
    \/ Alone("audit") /\ AuNext
    \/ Alone("listing") /\ LsNext
    \/ Alone("events") /\ EvNext
    \/ Alone("api") /\ ApiNext
    \/ Alone("paging") /\ PagNext

MCVars == <<under, cpVars, resVars, tjVars, pdVars, trVars, grVars, idVars, auVars, lsVars, evVars, apiVars, pagVars>>

MCSpec == MCInit /\ [][MCNext]_MCVars
=============================================================================
