------------------------------- MODULE Identity -------------------------------
(***************************************************************************)
(* Members, service accounts, roles and credential references of one       *)
(* Workspace (stillflow-storage/src/identity.rs), and the capability cache *)
(* of the embedded API that is filled from them                            *)
(* (stillflow-api/src/authorization.rs).                                   *)
(*                                                                         *)
(* Only set_role_capabilities, assign_role and                             *)
(* complete_credential_rotation are transactions.  The others read, check  *)
(* and write as separate statements: such a call waits in idCalls in       *)
(* between.  A change made through the API is followed by an invalidation  *)
(* of the cache, a step of its own.                                        *)
(***************************************************************************)
EXTENDS Integers, FiniteSets

CONSTANTS
    IdMembers, IdAccounts, IdRoles, IdCapabilities, IdCredentials,  \* identities
    MaxIdCalls,                                                     \* bound: calls between their check and their write
    MaxIdRestarts                                                   \* bound: restarts of the process

ASSUME IdentityAssumption ==
    /\ IdMembers \cap IdAccounts = {}
    /\ {MaxIdCalls, MaxIdRestarts} \subseteq Nat

VARIABLES
    idWorkspace,  \* cp_workspaces.state
    idPrincipal,  \* sec_members.state, sec_service_accounts.state
    idRole,       \* per role: {} or the set of its capabilities as a singleton
    idAssigned,   \* sec_member_roles
    idCredential, \* sec_credentials: state, owner, and whether it has an expiry
    idCalls,      \* calls that passed their checks and have not written yet
    idStale,      \* API handlers that changed a row and have not invalidated yet
    idCache,      \* CachedPrincipal per principal: {} or the capabilities as a singleton
    idLoads,      \* load_capabilities under way: {} or [todo, caps] as a singleton
    idMixed,      \* history: principals whose load was under way at the last invalidation
    idEnded,      \* history: credentials that were revoked or replaced
    idRaced,      \* history: credentials written by a call after their row had changed
    idRestarts    \* restarts so far

idStore == <<idWorkspace, idPrincipal, idRole, idAssigned, idCredential>>
idGate == <<idStale, idCache, idLoads, idMixed>>
idHistory == <<idEnded, idRaced, idRestarts>>
idVars == <<idStore, idCalls, idGate, idHistory>>

Principals == IdMembers \cup IdAccounts
NoCredential == [state |-> "absent", owner |-> {}, expires |-> FALSE]

IdInit ==
    /\ idWorkspace = "active"
    /\ idPrincipal = [p \in Principals |-> "absent"]
    /\ idRole = [r \in IdRoles |-> {}]
    /\ idAssigned = {}
    /\ idCredential = [c \in IdCredentials |-> NoCredential]
    /\ idCalls = {} /\ idStale = 0
    /\ idCache = [p \in Principals |-> {}]
    /\ idLoads = [p \in Principals |-> {}]
    /\ idMixed = {} /\ idEnded = {} /\ idRaced = {} /\ idRestarts = 0

EnterId(call) ==
    /\ Cardinality(idCalls) < MaxIdCalls /\ call \notin idCalls
    /\ idCalls' = idCalls \cup {call}
LeaveId(call) == call \in idCalls /\ idCalls' = idCalls \ {call}

\* The handler of a change in the API still has to invalidate the cache.
Changed == idStale < MaxIdCalls /\ idStale' = idStale + 1 /\ UNCHANGED <<idCache, idLoads, idMixed>>

-----------------------------------------------------------------------------
ArchiveIdWorkspace ==
    /\ idWorkspace = "active" /\ idWorkspace' = "archived"
    /\ UNCHANGED <<idPrincipal, idRole, idAssigned, idCredential, idCalls, idGate, idHistory>>

\* create_member, create_service_account, create_role and
\* register_credential_reference: ensure_active_workspace (and that the owner
\* has a row, whatever its state), then the INSERT.
CheckCreate(call) ==
    /\ idWorkspace = "active"
    /\ call.op = "credential" => \A p \in call.owner : idPrincipal[p] # "absent"
    /\ EnterId(call)
    /\ UNCHANGED <<idStore, idGate, idHistory>>
InsertPrincipal(p) ==
    /\ LeaveId([op |-> "principal", id |-> p])
    /\ IF idPrincipal[p] = "absent"
       THEN idPrincipal' = [idPrincipal EXCEPT ![p] = "active"] /\ Changed
       ELSE UNCHANGED <<idPrincipal, idGate>>
    /\ UNCHANGED <<idWorkspace, idRole, idAssigned, idCredential, idHistory>>
InsertRole(r) ==
    /\ LeaveId([op |-> "role", id |-> r])
    /\ IF idRole[r] = {} THEN idRole' = [idRole EXCEPT ![r] = {{}}] /\ Changed
                         ELSE UNCHANGED <<idRole, idGate>>
    /\ UNCHANGED <<idWorkspace, idPrincipal, idAssigned, idCredential, idHistory>>
InsertCredential(call) ==
    /\ call.op = "credential" /\ LeaveId(call)
    /\ idCredential' = IF idCredential[call.id] # NoCredential THEN idCredential
         ELSE [idCredential EXCEPT ![call.id] =
                 [state |-> "active", owner |-> call.owner, expires |-> call.expires]]
    /\ UNCHANGED <<idWorkspace, idPrincipal, idRole, idAssigned, idGate, idHistory>>

\* revoke_member, revoke_service_account: the row read keeps only its creation
\* time, which no one changes, so read and UPDATE are one step.
RevokePrincipal(p) ==
    /\ idPrincipal[p] # "absent"
    /\ idPrincipal' = [idPrincipal EXCEPT ![p] = "revoked"] /\ Changed
    /\ UNCHANGED <<idWorkspace, idRole, idAssigned, idCredential, idCalls, idHistory>>

SetRoleCapabilities(r, caps) ==
    /\ idRole[r] # {}
    /\ idRole' = [idRole EXCEPT ![r] = {caps}] /\ Changed
    /\ UNCHANGED <<idWorkspace, idPrincipal, idAssigned, idCredential, idCalls, idHistory>>
AssignRole(m, r) ==
    /\ idPrincipal[m] # "absent" /\ idRole[r] # {} /\ <<m, r>> \notin idAssigned
    /\ idAssigned' = idAssigned \cup {<<m, r>>} /\ Changed
    /\ UNCHANGED <<idWorkspace, idPrincipal, idRole, idCredential, idCalls, idHistory>>

-----------------------------------------------------------------------------
\* begin_credential_rotation: state and expiry are read, then the row is set to
\* rotating whatever its state is by then.
CheckBegin(c) ==
    /\ idCredential[c].state \in {"active", "pending"}
    /\ EnterId([op |-> "begin", id |-> c, saw |-> idCredential[c].state, to |-> "rotating"])
    /\ UNCHANGED <<idStore, idGate, idHistory>>

\* recover_credential: expired or active, by the expiry that was read.  The
\* mutant recovers from every state.
CheckRecoverAny(c, to) ==
    /\ idCredential[c].state # "absent" /\ (to = "expired" => idCredential[c].expires)
    /\ EnterId([op |-> "recover", id |-> c, saw |-> idCredential[c].state, to |-> to])
    /\ UNCHANGED <<idStore, idGate, idHistory>>
CheckRecover(c, to) ==
    /\ idCredential[c].state = "recovery_required" /\ (to = "expired" => idCredential[c].expires)
    /\ EnterId([op |-> "recover", id |-> c, saw |-> idCredential[c].state, to |-> to])
    /\ UNCHANGED <<idStore, idGate, idHistory>>
WriteState(call) ==
    /\ call.op \in {"begin", "recover"} /\ LeaveId(call)
    /\ idCredential' = [idCredential EXCEPT ![call.id].state = call.to]
    /\ idRaced' = IF idCredential[call.id].state = call.saw THEN idRaced ELSE idRaced \cup {call.id}
    /\ UNCHANGED <<idWorkspace, idPrincipal, idRole, idAssigned, idGate, idEnded, idRestarts>>

\* complete_credential_rotation, one transaction.
CompleteRotation(old, new, expires) ==
    /\ idCredential[old].state \in {"rotating", "recovery_required"}
    /\ idCredential[new] = NoCredential
    /\ idCredential' = [idCredential EXCEPT
         ![old].state = "revoked",
         ![new] = [state |-> "active", owner |-> idCredential[old].owner, expires |-> expires]]
    /\ idEnded' = idEnded \cup {old}
    /\ UNCHANGED <<idWorkspace, idPrincipal, idRole, idAssigned, idCalls, idGate, idRaced, idRestarts>>
RevokeCredential(c) ==
    /\ idCredential[c].state \notin {"absent", "revoked"}
    /\ idCredential' = [idCredential EXCEPT ![c].state = "revoked"]
    /\ idEnded' = idEnded \cup {c}
    /\ UNCHANGED <<idWorkspace, idPrincipal, idRole, idAssigned, idCalls, idGate, idRaced, idRestarts>>

\* The process ends and recover_incomplete_rotations runs at the next opening.
RecoverRotations(state) == IF state = "rotating" THEN "recovery_required" ELSE state
RestartIdentity ==
    /\ idRestarts < MaxIdRestarts /\ idRestarts' = idRestarts + 1
    /\ idCredential' = [c \in IdCredentials |->
         [idCredential[c] EXCEPT !.state = RecoverRotations(@)]]
    /\ idCalls' = {} /\ idStale' = 0
    /\ idCache' = [p \in Principals |-> {}] /\ idLoads' = [p \in Principals |-> {}]
    /\ idMixed' = {}
    /\ UNCHANGED <<idWorkspace, idPrincipal, idRole, idAssigned, idEnded, idRaced>>

-----------------------------------------------------------------------------
\* authorize on a principal the cache does not know: load_capabilities reads
\* the principal, its role ids, and then each role on its own; the answer is
\* inserted whatever happened meanwhile.
RolesOf(p) == {r \in IdRoles : <<p, r>> \in idAssigned}
StartLoad(p) ==
    /\ idWorkspace = "active" /\ idCache[p] = {} /\ idLoads[p] = {}
    /\ idPrincipal[p] = "active"
    /\ idLoads' = [idLoads EXCEPT ![p] = {[todo |-> RolesOf(p), caps |-> {}]}]
    /\ UNCHANGED <<idStore, idCalls, idStale, idCache, idMixed, idHistory>>
LoadRole(p, r) ==
    /\ \E load \in idLoads[p] :
         /\ r \in load.todo
         /\ idLoads' = [idLoads EXCEPT ![p] =
              {[todo |-> load.todo \ {r}, caps |-> load.caps \cup UNION idRole[r]]}]
    /\ UNCHANGED <<idStore, idCalls, idStale, idCache, idMixed, idHistory>>
FillCache(p) ==
    /\ \E load \in idLoads[p] :
         load.todo = {} /\ idCache' = [idCache EXCEPT ![p] = {load.caps}]
    /\ idLoads' = [idLoads EXCEPT ![p] = {}]
    /\ UNCHANGED <<idStore, idCalls, idStale, idMixed, idHistory>>

\* invalidate_workspace drops every entry of the Workspace.  The mutant keeps
\* the cache.
InvalidateNothing ==
    /\ idStale > 0 /\ idStale' = idStale - 1
    /\ idMixed' = {p \in Principals : idLoads[p] # {}}
    /\ UNCHANGED <<idStore, idCalls, idLoads, idHistory, idCache>>
InvalidateWorkspace ==
    /\ idStale > 0 /\ idStale' = idStale - 1
    /\ idCache' = [p \in Principals |-> {}]
    /\ idMixed' = {p \in Principals : idLoads[p] # {}}
    /\ UNCHANGED <<idStore, idCalls, idLoads, idHistory>>

-----------------------------------------------------------------------------
CredentialStep(c) ==
    \/ \E p \in Principals, e \in BOOLEAN :
         CheckCreate([op |-> "credential", id |-> c, owner |-> {p}, expires |-> e])
    \/ CheckBegin(c) \/ RevokeCredential(c)
    \/ \E to \in {"active", "expired"} : CheckRecover(c, to)
    \/ \E new \in IdCredentials, e \in BOOLEAN : CompleteRotation(c, new, e)
PrincipalStep(p) ==
    \/ CheckCreate([op |-> "principal", id |-> p]) \/ InsertPrincipal(p) \/ RevokePrincipal(p)
    \/ StartLoad(p) \/ FillCache(p) \/ \E r \in IdRoles : LoadRole(p, r)
RoleStep(r) ==
    \/ CheckCreate([op |-> "role", id |-> r]) \/ InsertRole(r)
    \/ \E caps \in SUBSET IdCapabilities : SetRoleCapabilities(r, caps)
    \/ \E m \in IdMembers : AssignRole(m, r)
\* The two halves meet only in the principals and in restarts.
CredentialNext ==
    \/ \E c \in IdCredentials : CredentialStep(c)
    \/ \E call \in idCalls : InsertCredential(call) \/ WriteState(call)
    \/ \E p \in Principals : CheckCreate([op |-> "principal", id |-> p]) \/ InsertPrincipal(p)
    \/ RestartIdentity
GateNext ==
    \/ \E p \in Principals : PrincipalStep(p)
    \/ \E r \in IdRoles : RoleStep(r)
    \/ InvalidateWorkspace \/ ArchiveIdWorkspace \/ RestartIdentity
IdNext == CredentialNext \/ GateNext
IdSpec == IdInit /\ [][IdNext]_idVars

-----------------------------------------------------------------------------
\* invalidate_workspace: a cached principal is active and its capabilities are
\* those its roles hold now, except while a handler that changed a row has
\* still to invalidate, and for a load that was under way at the invalidation
\* (its answer is inserted afterwards and stays).
Held(p) == IF idPrincipal[p] = "active" THEN {UNION {UNION idRole[r] : r \in RolesOf(p)}} ELSE {}
CacheFresh ==
    \A p \in Principals : idCache[p] = {} \/ idCache[p] = Held(p) \/ idStale > 0 \/ p \in idMixed

\* complete_credential_rotation and revoke_credential: a credential that was
\* revoked or replaced stays revoked through rotations, recoveries and
\* restarts, unless begin or recover wrote a row that had changed since it
\* read it.
EndedStaysRevoked ==
    \A c \in idEnded : idCredential[c].state = "revoked" \/ c \in idRaced
=============================================================================
