----------------------------- MODULE AccessProofs -----------------------------
(***************************************************************************)
(* Who may do what: theorems of Identity and ApiService for any number of  *)
(* Workspaces, principals, roles, credentials, rows and calls in flight.   *)
(* And what those who may read are given: readers that follow a store      *)
(* which changes under them miss nothing and are given nothing twice, in   *)
(* the page walks of Listing and AuditLog, the cursors of ApiPaging and    *)
(* the subscriptions of EventStream, for any number of rows and events,    *)
(* any documents and filters, any page limits and any buffer.              *)
(***************************************************************************)
EXTENDS Identity, ApiService, Listing, AuditLog, EventStream, ApiPaging, FiniteSetTheorems,
        SequenceTheorems, WellFoundedInduction, TLAPS

-----------------------------------------------------------------------------
CredentialStates == {"absent", "pending", "active", "rotating", "recovery_required", "expired", "revoked"}
Credential == [state : CredentialStates, owner : SUBSET Principals, expires : BOOLEAN]

(* Credentials.  A begin or a recover in flight saw a state that can be left. *)
CredentialCall(call) ==
    /\ call.op \in {"credential", "begin", "recover"} => call.id \in IdCredentials
    /\ call.op = "credential" => call.owner \subseteq Principals /\ call.expires \in BOOLEAN
    /\ call.op \in {"begin", "recover"} => call.saw # "revoked" /\ call.to \in CredentialStates
CredentialInv ==
    /\ idCredential \in [IdCredentials -> Credential]
    /\ \A call \in idCalls : CredentialCall(call)
    /\ idEnded \subseteq IdCredentials
    /\ EndedStaysRevoked

(* Every step but the seven that touch credentials or their calls.           *)
LEMMA OtherIdSteps ==
    ASSUME CredentialInv, UNCHANGED <<idCredential, idEnded, idRaced>>, idCalls' \subseteq idCalls
    PROVE  CredentialInv'
BY DEF CredentialInv, EndedStaysRevoked

(* A call that enters with a state it may leave.                             *)
LEMMA EnteringKeepsCredentials ==
    ASSUME CredentialInv, NEW call, EnterId(call), UNCHANGED <<idStore, idGate, idHistory>>,
           CredentialCall(call)
    PROVE  CredentialInv'
BY DEF CredentialInv, EndedStaysRevoked, EnterId, idStore, idHistory

(* A row is rewritten: an ended one stays revoked or its writer raced.       *)
LEMMA RewriteKeepsCredentials ==
    ASSUME CredentialInv, NEW c \in IdCredentials, NEW row \in Credential,
           idCredential' = [idCredential EXCEPT ![c] = row],
           idCalls' \subseteq idCalls,
           idEnded' \subseteq idEnded \cup {c}, idRaced \subseteq idRaced',
           c \in idEnded' => row.state = "revoked" \/ c \in idRaced'
    PROVE  CredentialInv'
<1>1. \A d \in IdCredentials : idCredential'[d] = IF d = c THEN row ELSE idCredential[d]
  BY DEF CredentialInv
<1>2. EndedStaysRevoked'
  BY <1>1 DEF CredentialInv, EndedStaysRevoked
<1> QED
  BY <1>2 DEF CredentialInv

LEMMA CredentialInductive ==
    ASSUME CredentialInv, [IdNext]_idVars
    PROVE  CredentialInv'
<1>0. idCredential \in [IdCredentials -> Credential]
  BY DEF CredentialInv
<1>1. ASSUME NEW call, CheckCreate(call), CredentialCall(call) PROVE CredentialInv'
  BY <1>1, EnteringKeepsCredentials DEF CheckCreate
<1>2. ASSUME NEW c \in IdCredentials, CheckBegin(c) PROVE CredentialInv'
  <2> DEFINE call == [op |-> "begin", id |-> c, saw |-> idCredential[c].state, to |-> "rotating"]
  <2>1. EnterId(call) /\ UNCHANGED <<idStore, idGate, idHistory>> /\ CredentialCall(call)
    BY <1>2 DEF CheckBegin, CredentialCall, CredentialStates
  <2> HIDE DEF call
  <2> QED
    BY <2>1, EnteringKeepsCredentials
<1>3. ASSUME NEW c \in IdCredentials, NEW to \in {"active", "expired"}, CheckRecover(c, to) PROVE CredentialInv'
  <2> DEFINE call == [op |-> "recover", id |-> c, saw |-> idCredential[c].state, to |-> to]
  <2>1. EnterId(call) /\ UNCHANGED <<idStore, idGate, idHistory>> /\ CredentialCall(call)
    BY <1>3 DEF CheckRecover, CredentialCall, CredentialStates
  <2> HIDE DEF call
  <2> QED
    BY <2>1, EnteringKeepsCredentials
<1>4. ASSUME NEW call \in idCalls, InsertCredential(call) PROVE CredentialInv'
  <2>1. call.id \in IdCredentials /\ call.owner \subseteq Principals /\ call.expires \in BOOLEAN
    BY <1>4 DEF InsertCredential, CredentialInv, CredentialCall
  <2>2. idCalls' \subseteq idCalls /\ UNCHANGED <<idEnded, idRaced>>
    BY <1>4 DEF InsertCredential, LeaveId, idHistory
  <2>3. CASE idCredential[call.id] # NoCredential
    BY <1>4, <2>2, <2>3, OtherIdSteps DEF InsertCredential
  <2>4. CASE idCredential[call.id] = NoCredential
    <3> DEFINE row == [state |-> "active", owner |-> call.owner, expires |-> call.expires]
    <3>1. idCredential' = [idCredential EXCEPT ![call.id] = row]
      BY <1>4, <2>4 DEF InsertCredential
    <3>2. call.id \in idEnded => call.id \in idRaced
      BY <2>4 DEF NoCredential, CredentialInv, EndedStaysRevoked
    <3>3. row \in Credential
      BY <2>1 DEF Credential, CredentialStates
    <3> HIDE DEF row
    <3> QED
      BY <2>1, <2>2, <3>1, <3>2, <3>3, RewriteKeepsCredentials
  <2> QED
    BY <2>3, <2>4
<1>5. ASSUME NEW call \in idCalls, WriteState(call) PROVE CredentialInv'
  <2> DEFINE c == call.id
             row == [idCredential[c] EXCEPT !.state = call.to]
  <2>1. c \in IdCredentials /\ call.saw # "revoked" /\ call.to \in CredentialStates
    BY <1>5 DEF WriteState, CredentialInv, CredentialCall
  <2>2. /\ idCalls' \subseteq idCalls /\ idEnded' = idEnded
        /\ idRaced' = IF idCredential[c].state = call.saw THEN idRaced ELSE idRaced \cup {c}
        /\ idCredential' = [idCredential EXCEPT ![c] = row]
    BY <1>5 DEF WriteState, LeaveId
  <2>3. row \in Credential
    BY <1>0, <2>1 DEF Credential
  <2>4. c \in idEnded => c \in idRaced'
    BY <2>1, <2>2 DEF CredentialInv, EndedStaysRevoked
  <2> HIDE DEF row, c
  <2> QED
    BY <2>1, <2>2, <2>3, <2>4, RewriteKeepsCredentials
<1>6. ASSUME NEW old \in IdCredentials, NEW new \in IdCredentials, NEW expires \in BOOLEAN,
             CompleteRotation(old, new, expires)
      PROVE  CredentialInv'
  <2> DEFINE row == [state |-> "active", owner |-> idCredential[old].owner, expires |-> expires]
             gone == [idCredential[old] EXCEPT !.state = "revoked"]
  <2>1. /\ old # new /\ idCredential[new] = NoCredential
        /\ idCredential' = [idCredential EXCEPT ![old] = gone, ![new] = row]
        /\ idEnded' = idEnded \cup {old} /\ UNCHANGED <<idCalls, idRaced>>
    BY <1>6 DEF CompleteRotation, NoCredential
  <2>2. gone \in Credential /\ gone.state = "revoked"
    BY <1>0 DEF Credential, CredentialStates
  <2>3. row \in Credential
    BY <1>0 DEF Credential, CredentialStates
  <2> HIDE DEF gone, row
  <2>4. idCredential' \in [IdCredentials -> Credential]
    BY <1>0, <2>1, <2>2, <2>3
  <2>5. /\ \A d \in IdCredentials :
             idCredential'[d] = IF d = new THEN row ELSE IF d = old THEN gone ELSE idCredential[d]
    BY <1>0, <2>1
  <2>6. new \in idEnded => new \in idRaced
    BY <2>1 DEF NoCredential, CredentialInv, EndedStaysRevoked
  <2>7. EndedStaysRevoked' /\ idEnded' \subseteq IdCredentials
    BY <2>1, <2>2, <2>5, <2>6 DEF CredentialInv, EndedStaysRevoked
  <2> QED
    BY <2>1, <2>4, <2>7 DEF CredentialInv
<1>7. ASSUME NEW c \in IdCredentials, RevokeCredential(c) PROVE CredentialInv'
  <2> DEFINE row == [idCredential[c] EXCEPT !.state = "revoked"]
  <2>1. /\ idCredential' = [idCredential EXCEPT ![c] = row]
        /\ idEnded' = idEnded \cup {c} /\ UNCHANGED <<idCalls, idRaced>>
    BY <1>7 DEF RevokeCredential
  <2>2. row \in Credential /\ row.state = "revoked"
    BY <1>0 DEF Credential, CredentialStates
  <2> HIDE DEF row
  <2> QED
    BY <2>1, <2>2, RewriteKeepsCredentials
<1>8. ASSUME RestartIdentity PROVE CredentialInv'
  <2>1. /\ idCredential' = [c \in IdCredentials |-> [idCredential[c] EXCEPT !.state = RecoverRotations(@)]]
        /\ idCalls' = {} /\ UNCHANGED <<idEnded, idRaced>>
    BY <1>8 DEF RestartIdentity
  <2>2. ASSUME NEW c \in IdCredentials
        PROVE  /\ idCredential'[c] \in Credential
               /\ idCredential[c].state = "revoked" => idCredential'[c].state = "revoked"
    <3>1. idCredential[c] \in Credential /\ RecoverRotations(idCredential[c].state) \in CredentialStates
      BY <1>0 DEF Credential, RecoverRotations, CredentialStates
    <3>2. idCredential'[c] = [idCredential[c] EXCEPT !.state = RecoverRotations(idCredential[c].state)]
      BY <2>1
    <3> QED
      BY <3>1, <3>2 DEF Credential, RecoverRotations
  <2>3. idCredential' \in [IdCredentials -> Credential]
    BY <2>1, <2>2
  <2> QED
    BY <2>1, <2>2, <2>3 DEF CredentialInv, EndedStaysRevoked
<1>9. ASSUME NEW p \in Principals, PrincipalStep(p) PROVE CredentialInv'
  <2>1. CASE CheckCreate([op |-> "principal", id |-> p])
    BY <1>1, <2>1 DEF CredentialCall
  <2>2. CASE InsertPrincipal(p)
    BY <2>2, OtherIdSteps DEF InsertPrincipal, LeaveId, idHistory
  <2>3. CASE RevokePrincipal(p)
    BY <2>3, OtherIdSteps DEF RevokePrincipal, idHistory
  <2>4. CASE StartLoad(p) \/ FillCache(p) \/ \E r \in IdRoles : LoadRole(p, r)
    BY <2>4, OtherIdSteps DEF StartLoad, FillCache, LoadRole, idStore, idHistory
  <2> QED
    BY <1>9, <2>1, <2>2, <2>3, <2>4 DEF PrincipalStep
<1>10. ASSUME NEW r \in IdRoles, RoleStep(r) PROVE CredentialInv'
  <2>1. CASE CheckCreate([op |-> "role", id |-> r])
    BY <1>1, <2>1 DEF CredentialCall
  <2>2. CASE InsertRole(r)
    BY <2>2, OtherIdSteps DEF InsertRole, LeaveId, idHistory
  <2>3. CASE \E caps \in SUBSET IdCapabilities : SetRoleCapabilities(r, caps)
    BY <2>3, OtherIdSteps DEF SetRoleCapabilities, idHistory
  <2>4. CASE \E m \in IdMembers : AssignRole(m, r)
    BY <2>4, OtherIdSteps DEF AssignRole, idHistory
  <2> QED
    BY <1>10, <2>1, <2>2, <2>3, <2>4 DEF RoleStep
<1>11. ASSUME InvalidateWorkspace \/ ArchiveIdWorkspace \/ UNCHANGED idVars PROVE CredentialInv'
  BY <1>11, OtherIdSteps DEF InvalidateWorkspace, ArchiveIdWorkspace, idVars, idStore, idHistory
<1>12. ASSUME NEW c \in IdCredentials, CredentialStep(c) PROVE CredentialInv'
  <2>1. ASSUME NEW p \in Principals, NEW e \in BOOLEAN,
               CheckCreate([op |-> "credential", id |-> c, owner |-> {p}, expires |-> e])
        PROVE  CredentialInv'
    BY <1>1, <2>1 DEF CredentialCall
  <2> QED
    BY <1>2, <1>3, <1>6, <1>7, <1>12, <2>1 DEF CredentialStep
<1>13. ASSUME NEW p \in Principals, CheckCreate([op |-> "principal", id |-> p]) \/ InsertPrincipal(p)
       PROVE  CredentialInv'
  BY <1>9, <1>13 DEF PrincipalStep
<1> QED
  BY <1>4, <1>5, <1>8, <1>9, <1>10, <1>11, <1>12, <1>13 DEF IdNext, CredentialNext, GateNext

(* complete_credential_rotation, revoke_credential: a credential that was      *)
(* revoked or replaced stays so through every later rotation, recovery and     *)
(* restart, unless a begin or a recover wrote over a row that changed since    *)
(* it read it.                                                                 *)
THEOREM EndedCredentialsStay == IdSpec => []EndedStaysRevoked
<1>1. IdInit => CredentialInv
  BY DEF IdInit, CredentialInv, EndedStaysRevoked, NoCredential, Credential, CredentialStates
<1>2. CredentialInv /\ [IdNext]_idVars => CredentialInv'
  BY CredentialInductive
<1>3. CredentialInv => EndedStaysRevoked
  BY DEF CredentialInv
<1> QED
  BY <1>1, <1>2, <1>3, PTL DEF IdSpec

-----------------------------------------------------------------------------
(* The capability cache.  With no invalidation pending, a load that no         *)
(* invalidation overtook has read what its principal's roles hold now.         *)
Caps(R) == UNION {UNION idRole[r] : r \in R}
LoadsFresh ==
    idStale = 0 =>
      \A p \in Principals \ idMixed : \A load \in idLoads[p] :
        /\ idPrincipal[p] = "active" /\ load.todo \subseteq RolesOf(p)
        /\ load.caps = Caps(RolesOf(p) \ load.todo)
CacheInv ==
    /\ idStale \in Nat
    /\ DOMAIN idCache = Principals /\ DOMAIN idLoads = Principals
    /\ LoadsFresh /\ CacheFresh

(* A change leaves an invalidation to do.                                      *)
LEMMA ChangeKeepsCache ==
    ASSUME CacheInv, Changed
    PROVE  CacheInv'
BY DEF CacheInv, Changed, LoadsFresh, CacheFresh

(* The rows are as they were.                                                  *)
LEMMA SameRolesHeld ==
    ASSUME UNCHANGED <<idPrincipal, idRole, idAssigned>>
    PROVE  /\ \A p : Held(p)' = Held(p) /\ RolesOf(p)' = RolesOf(p)
           /\ \A R : Caps(R)' = Caps(R)
BY DEF Held, RolesOf, Caps

(* With the rows as they were, the loads are judged as they were.              *)
LEMMA LoadsJudged ==
    ASSUME UNCHANGED <<idPrincipal, idRole, idAssigned, idStale, idMixed>>,
           idStale = 0 =>
             \A q \in Principals \ idMixed : \A l \in idLoads'[q] :
               /\ idPrincipal[q] = "active" /\ l.todo \subseteq RolesOf(q)
               /\ l.caps = Caps(RolesOf(q) \ l.todo)
    PROVE  LoadsFresh'
<1>1. \A q : RolesOf(q)' = RolesOf(q)
  BY SameRolesHeld
<1>2. \A R : Caps(R)' = Caps(R)
  BY SameRolesHeld
<1> SUFFICES ASSUME idStale' = 0, NEW q \in Principals \ idMixed', NEW l \in idLoads'[q]
             PROVE  /\ idPrincipal'[q] = "active" /\ l.todo \subseteq RolesOf(q)'
                    /\ l.caps = Caps(RolesOf(q) \ l.todo)'
  BY DEF LoadsFresh
<1>3. /\ idPrincipal[q] = "active" /\ l.todo \subseteq RolesOf(q)
      /\ l.caps = Caps(RolesOf(q) \ l.todo)
  OBVIOUS
<1>4. Caps(RolesOf(q) \ l.todo)' = Caps(RolesOf(q) \ l.todo)
  BY DEF Caps, RolesOf
<1> QED
  BY <1>1, <1>3, <1>4

(* A step that changes neither the rows the gate reads nor the gate.           *)
LEMMA OtherStepKeepsCache ==
    ASSUME CacheInv, UNCHANGED <<idPrincipal, idRole, idAssigned, idGate>>
    PROVE  CacheInv'
<1>1. UNCHANGED <<idStale, idCache, idLoads, idMixed>>
  BY DEF idGate
<1>2. LoadsFresh'
  BY <1>1, SameRolesHeld DEF CacheInv, LoadsFresh
<1>3. CacheFresh'
  BY <1>1, SameRolesHeld DEF CacheInv, CacheFresh
<1> QED
  BY <1>1, <1>2, <1>3 DEF CacheInv

LEMMA CacheInductive ==
    ASSUME CacheInv, [IdNext]_idVars
    PROVE  CacheInv'
<1>1. ASSUME NEW call, CheckCreate(call) PROVE CacheInv'
  BY <1>1, OtherStepKeepsCache DEF CheckCreate, idStore
<1>2. ASSUME NEW p \in Principals, InsertPrincipal(p) PROVE CacheInv'
  BY <1>2, OtherStepKeepsCache, ChangeKeepsCache DEF InsertPrincipal
<1>3. ASSUME NEW r \in IdRoles, InsertRole(r) PROVE CacheInv'
  BY <1>3, OtherStepKeepsCache, ChangeKeepsCache DEF InsertRole
<1>4. ASSUME NEW p \in Principals, RevokePrincipal(p) PROVE CacheInv'
  BY <1>4, ChangeKeepsCache DEF RevokePrincipal
<1>5. ASSUME NEW r \in IdRoles, RoleStep(r) PROVE CacheInv'
  BY <1>1, <1>3, <1>5, ChangeKeepsCache DEF RoleStep, SetRoleCapabilities, AssignRole
<1>6. ASSUME NEW p \in Principals, StartLoad(p) PROVE CacheInv'
  <2> DEFINE load == [todo |-> RolesOf(p), caps |-> {}]
  <2>1. /\ idLoads' = [idLoads EXCEPT ![p] = {load}] /\ idPrincipal[p] = "active"
        /\ UNCHANGED <<idPrincipal, idRole, idAssigned, idStale, idCache, idMixed>>
    BY <1>6 DEF StartLoad, idStore
  <2>2. Caps(RolesOf(p) \ RolesOf(p)) = {}
    BY DEF Caps
  <2>3. load.todo = RolesOf(p) /\ load.caps = {}
    OBVIOUS
  <2> HIDE DEF load
  <2>4. \A q \in Principals : idLoads'[q] = IF q = p THEN {load} ELSE idLoads[q]
    BY <2>1 DEF CacheInv
  <2>5. LoadsFresh'
    <3> SUFFICES ASSUME idStale = 0, NEW q \in Principals \ idMixed, NEW l \in idLoads'[q]
                 PROVE  /\ idPrincipal[q] = "active" /\ l.todo \subseteq RolesOf(q)
                        /\ l.caps = Caps(RolesOf(q) \ l.todo)
      BY <2>1, LoadsJudged
    <3>1. CASE q = p
      BY <2>1, <2>2, <2>3, <2>4, <3>1
    <3>2. CASE q # p
      BY <2>4, <3>2 DEF CacheInv, LoadsFresh
    <3> QED
      BY <3>1, <3>2
  <2> QED
    BY <2>1, <2>5, SameRolesHeld DEF CacheInv, CacheFresh
<1>7. ASSUME NEW p \in Principals, NEW r \in IdRoles, LoadRole(p, r) PROVE CacheInv'
  <2>1. PICK load \in idLoads[p] :
          /\ r \in load.todo
          /\ idLoads' = [idLoads EXCEPT ![p] =
               {[todo |-> load.todo \ {r}, caps |-> load.caps \cup UNION idRole[r]]}]
    BY <1>7 DEF LoadRole
  <2>2. UNCHANGED <<idPrincipal, idRole, idAssigned, idStale, idCache, idMixed>>
    BY <1>7 DEF LoadRole, idStore
  <2> DEFINE next == [todo |-> load.todo \ {r}, caps |-> load.caps \cup UNION idRole[r]]
  <2>3. next.todo = load.todo \ {r} /\ next.caps = load.caps \cup UNION idRole[r]
    OBVIOUS
  <2>4. idLoads' = [idLoads EXCEPT ![p] = {next}]
    BY <2>1
  <2> HIDE DEF next
  <2>5. \A q \in Principals : idLoads'[q] = IF q = p THEN {next} ELSE idLoads[q]
    BY <2>4 DEF CacheInv
  <2>6. ASSUME load.todo \subseteq RolesOf(p)
        PROVE  Caps(RolesOf(p) \ next.todo) = Caps(RolesOf(p) \ load.todo) \cup UNION idRole[r]
    <3>1. RolesOf(p) \ next.todo = (RolesOf(p) \ load.todo) \cup {r}
      BY <2>1, <2>3, <2>6
    <3> QED
      BY <3>1 DEF Caps
  <2>7. LoadsFresh'
    <3> SUFFICES ASSUME idStale = 0, NEW q \in Principals \ idMixed, NEW l \in idLoads'[q]
                 PROVE  /\ idPrincipal[q] = "active" /\ l.todo \subseteq RolesOf(q)
                        /\ l.caps = Caps(RolesOf(q) \ l.todo)
      BY <2>2, LoadsJudged
    <3>1. CASE q = p
      <4>1. /\ idPrincipal[p] = "active" /\ load.todo \subseteq RolesOf(p)
            /\ load.caps = Caps(RolesOf(p) \ load.todo) /\ l = next
        BY <2>1, <2>5, <3>1 DEF CacheInv, LoadsFresh
      <4> QED
        BY <2>3, <2>6, <3>1, <4>1
    <3>2. CASE q # p
      BY <2>5, <3>2 DEF CacheInv, LoadsFresh
    <3> QED
      BY <3>1, <3>2
  <2> QED
    BY <2>2, <2>4, <2>7, SameRolesHeld DEF CacheInv, CacheFresh
<1>8. ASSUME NEW p \in Principals, FillCache(p) PROVE CacheInv'
  <2>1. PICK load \in idLoads[p] : load.todo = {} /\ idCache' = [idCache EXCEPT ![p] = {load.caps}]
    BY <1>8 DEF FillCache
  <2>2. /\ UNCHANGED <<idPrincipal, idRole, idAssigned, idStale, idMixed>>
        /\ idLoads' = [idLoads EXCEPT ![p] = {}]
    BY <1>8 DEF FillCache, idStore
  <2>3. /\ \A q \in Principals : idLoads'[q] = IF q = p THEN {} ELSE idLoads[q]
        /\ \A q \in Principals : idCache'[q] = IF q = p THEN {load.caps} ELSE idCache[q]
    BY <2>1, <2>2 DEF CacheInv
  <2>4. idStale = 0 /\ p \notin idMixed => Held(p) = {load.caps}
    <3> SUFFICES ASSUME idStale = 0, p \notin idMixed PROVE Held(p) = {load.caps}
      OBVIOUS
    <3>1. idPrincipal[p] = "active" /\ load.caps = Caps(RolesOf(p) \ load.todo)
      BY <2>1 DEF CacheInv, LoadsFresh
    <3>2. RolesOf(p) \ load.todo = RolesOf(p)
      BY <2>1
    <3> QED
      BY <3>1, <3>2 DEF Held, Caps
  <2>5. LoadsFresh'
    BY <2>2, <2>3, SameRolesHeld DEF CacheInv, LoadsFresh
  <2>6. CacheFresh'
    <3>1. idStale > 0 \/ idStale = 0
      BY DEF CacheInv
    <3> QED
      BY <2>2, <2>3, <2>4, <3>1, SameRolesHeld DEF CacheInv, CacheFresh
  <2> QED
    BY <2>1, <2>2, <2>5, <2>6 DEF CacheInv
<1>9. ASSUME InvalidateWorkspace PROVE CacheInv'
  BY <1>9 DEF InvalidateWorkspace, CacheInv, LoadsFresh, CacheFresh
<1>10. ASSUME RestartIdentity PROVE CacheInv'
  BY <1>10 DEF RestartIdentity, CacheInv, LoadsFresh, CacheFresh
<1>11. ASSUME NEW c \in IdCredentials, CredentialStep(c) PROVE CacheInv'
  BY <1>1, <1>11, OtherStepKeepsCache
  DEF CredentialStep, CheckBegin, CheckRecover, RevokeCredential, CompleteRotation, idStore
<1>12. ASSUME NEW call \in idCalls, InsertCredential(call) \/ WriteState(call) PROVE CacheInv'
  BY <1>12, OtherStepKeepsCache DEF InsertCredential, WriteState
<1>13. ASSUME ArchiveIdWorkspace \/ UNCHANGED idVars PROVE CacheInv'
  BY <1>13, OtherStepKeepsCache DEF ArchiveIdWorkspace, idVars, idStore
<1>14. ASSUME NEW p \in Principals, PrincipalStep(p) PROVE CacheInv'
  BY <1>1, <1>2, <1>4, <1>6, <1>7, <1>8, <1>14 DEF PrincipalStep
<1> QED
  BY <1>1, <1>2, <1>5, <1>9, <1>10, <1>11, <1>12, <1>13, <1>14 DEF IdNext, CredentialNext, GateNext

(* authorize, invalidate_workspace: what the cache grants a principal is what  *)
(* its roles hold, except while a change has still to invalidate, and for a    *)
(* load the last invalidation overtook.                                        *)
THEOREM CacheStaysFresh == IdSpec => []CacheFresh
<1>1. IdInit => CacheInv
  BY DEF IdInit, CacheInv, LoadsFresh, CacheFresh
<1>2. CacheInv /\ [IdNext]_idVars => CacheInv'
  BY CacheInductive
<1>3. CacheInv => CacheFresh
  BY DEF CacheInv
<1> QED
  BY <1>1, <1>2, <1>3, PTL DEF IdSpec

-----------------------------------------------------------------------------
(* The embedded API.  A row of a Workspace refers only to rows of that          *)
(* Workspace; a manifest has none and belongs to its Run.                       *)
ApiRowType == [ws : Tenants \cup {"nobody", "none"}, up : SUBSET Ids, live : BOOLEAN]
ExportOf(j) ==
    /\ apiRow[<<"export", j>>].ws = "none" /\ apiRow[<<"export", j>>].up = {<<"run", j>>}
    /\ apiRow[<<"run", j>>].ws \in Tenants
RowsScoped ==
    /\ apiRow \in [Ids -> ApiRowType]
    /\ \A x \in Ids : apiRow[x].ws = "nobody" => apiRow[x] = NoRow
    /\ \A x \in Ids : apiRow[x].ws \in Tenants => \A y \in apiRow[x].up : apiRow[y].ws = apiRow[x].ws
    /\ \A x \in Ids : apiRow[x].ws = "none" => \E j \in ApiJobs : x = <<"export", j>>
    /\ \A j \in ApiJobs :
         /\ Present(<<"artifact", j>>) \/ Present(<<"export", j>>) => Present(<<"run", j>>)
         /\ Present(<<"export", j>>) => ExportOf(j)

(* A handler that awaits holds the capability it was admitted with, and the     *)
(* rows it read are still of its Workspace.                                     *)
CallScoped(call) ==
    /\ call.by \in Callers /\ call.ws \in Tenants /\ call.ids \subseteq Ids
    /\ call.op = "ask" => "WorkspaceRead" \in Grants[call.by][call.ws]
    /\ call.op \in {"discover", "clone"} => "WorkspaceWrite" \in Grants[call.by][call.ws]
    /\ call.op \in {"ask", "discover"} => \A x \in call.ids : apiRow[x].ws = call.ws
AwaitingScoped == \A call \in awaiting : CallScoped(call)
ApiInv == RowsScoped /\ AwaitingScoped /\ breaches = {}

LEMMA ProductKeys ==
    ASSUME NEW j \in ApiJobs
    PROVE  /\ <<"run", j>> \in Ids /\ <<"artifact", j>> \in Ids /\ <<"export", j>> \in Ids /\ j \in Ids
           /\ <<"run", j>> \notin Resources /\ <<"artifact", j>> \notin Resources
           /\ <<"export", j>> \notin Resources
<1>1. Products(j) = {<<"run", j>>, <<"artifact", j>>, <<"export", j>>}
  BY DEF Products
<1>2. Products(j) \subseteq Ids /\ j \in Ids
  BY DEF Ids, Resources
<1> QED
  BY <1>1, <1>2, ApiServiceAssumption

(* A row is there exactly if it is someone's.                                   *)
LEMMA PresentHasOwner ==
    ASSUME RowsScoped, NEW x \in Ids
    PROVE  /\ Present(x) <=> apiRow[x].ws # "nobody"
           /\ apiRow[x].up \subseteq Ids
<1>1. apiRow[x] \in ApiRowType /\ NoRow.ws = "nobody"
  BY DEF RowsScoped, NoRow, Nobody
<1> QED
  BY <1>1 DEF RowsScoped, Present, ApiRowType

(* The owner of a row of a Workspace, and of a manifest.                        *)
LEMMA OwnerOfRow ==
    ASSUME NEW r, NEW x, NEW w \in Tenants, r[x].ws = w
    PROVE  OwnerIn(r, x) = w
BY DEF OwnerIn

LEMMA OwnerOfExport ==
    ASSUME RowsScoped, NEW j \in ApiJobs, Present(<<"export", j>>)
    PROVE  OwnerIn(apiRow, <<"export", j>>) = apiRow[<<"run", j>>].ws
<1> DEFINE x == <<"export", j>>
           w == apiRow[<<"run", j>>].ws
<1>1. apiRow[x].ws = "none" /\ apiRow[x].up = {<<"run", j>>} /\ w \in Tenants
  BY DEF RowsScoped, ExportOf
<1>2. apiRow[x].ws \notin Tenants
  BY <1>1, ApiServiceAssumption
<1>3. {apiRow[y].ws : y \in apiRow[x].up} = {w}
  BY <1>1
<1>4. (CHOOSE v \in {w} : TRUE) = w
  OBVIOUS
<1> QED
  BY <1>2, <1>3, <1>4 DEF OwnerIn

(* A response about rows of the Workspace whose capability the caller holds.    *)
LEMMA CleanResponse ==
    ASSUME breaches = {}, NEW c, NEW w, NEW ids, NEW edits, Respond(c, ids, edits),
           \A y \in ids \cup edits : OwnerIn(apiRow', y) = w,
           "WorkspaceRead" \in Grants[c][w] \/ "WorkspaceWrite" \in Grants[c][w],
           edits = {} \/ "WorkspaceWrite" \in Grants[c][w]
    PROVE  breaches' = {}
<1>1. {y \in ids : Grants[c][OwnerIn(apiRow', y)] \cap {"WorkspaceRead", "WorkspaceWrite"} = {}} = {}
  OBVIOUS
<1>2. {y \in edits : "WorkspaceWrite" \notin Grants[c][OwnerIn(apiRow', y)]} = {}
  OBVIOUS
<1> QED
  BY <1>1, <1>2 DEF Respond

(* What a view of a row in scope names is of the row's Workspace.               *)
LEMMA ViewInScope ==
    ASSUME RowsScoped, NEW x \in Ids, NEW w \in Tenants, InScope(x, w)
    PROVE  \A y \in View(x) : OwnerIn(apiRow, y) = w
<1>1. apiRow[x].ws = w /\ \A y \in apiRow[x].up : apiRow[y].ws = w
  BY DEF InScope, RowsScoped
<1> QED
  BY <1>1, OwnerOfRow DEF View

(* INSERT of a row with parents of its Workspace.                               *)
LEMMA InsertKeepsScope ==
    ASSUME RowsScoped, AwaitingScoped, NEW x \in Resources, NEW w \in Tenants, NEW up \in SUBSET Ids,
           ~ Present(x), \A y \in up : apiRow[y].ws = w, Insert(x, w, up)
    PROVE  /\ RowsScoped' /\ (\A call \in awaiting : CallScoped(call)') /\ apiRow'[x].ws = w /\ apiRow'[x].up = up
           /\ \A y \in Ids : y # x => apiRow'[y] = apiRow[y]
<1> DEFINE row == [ws |-> w, up |-> up, live |-> TRUE]
<1>1. x \in Ids /\ apiRow[x].ws = "nobody"
  BY PresentHasOwner DEF Ids
<1>2. row \in ApiRowType /\ row.ws = w /\ row.up = up
  BY DEF ApiRowType
<1>3. apiRow' \in [Ids -> ApiRowType] /\ \A y \in Ids : apiRow'[y] = IF y = x THEN row ELSE apiRow[y]
  BY <1>1, <1>2 DEF RowsScoped, Insert
<1> HIDE DEF row
<1>4. w # "nobody" /\ w # "none" /\ "nobody" \notin Tenants
  BY ApiServiceAssumption DEF Nobody
<1>5. x \notin up
  BY <1>1, <1>4
<1>6. \A y \in Ids : apiRow'[y].ws = "nobody" => apiRow'[y] = NoRow
  BY <1>2, <1>3, <1>4 DEF RowsScoped
<1>7. ASSUME NEW y \in Ids, apiRow'[y].ws \in Tenants, NEW z \in apiRow'[y].up
      PROVE  apiRow'[z].ws = apiRow'[y].ws
  <2>1. CASE y = x
    <3>1. z \in up /\ z \in Ids /\ z # x
      BY <1>2, <1>3, <1>5, <1>7, <2>1
    <3> QED
      BY <1>2, <1>3, <2>1, <3>1
  <2>2. CASE y # x
    <3>1. z \in apiRow[y].up /\ apiRow[y].ws \in Tenants /\ z \in Ids
      BY <1>3, <1>7, <2>2, PresentHasOwner
    <3>2. apiRow[z].ws = apiRow[y].ws /\ z # x
      BY <1>1, <1>4, <3>1 DEF RowsScoped
    <3> QED
      BY <1>3, <2>2, <3>1, <3>2
  <2> QED
    BY <2>1, <2>2
<1>8. \A y \in Ids : apiRow'[y].ws = "none" => \E j \in ApiJobs : y = <<"export", j>>
  BY <1>2, <1>3, <1>4 DEF RowsScoped
<1>9. ASSUME NEW j \in ApiJobs
      PROVE  /\ (Present(<<"artifact", j>>) \/ Present(<<"export", j>>) => Present(<<"run", j>>))'
             /\ (Present(<<"export", j>>) => ExportOf(j))'
  <2>1. /\ apiRow'[<<"run", j>>] = apiRow[<<"run", j>>]
        /\ apiRow'[<<"artifact", j>>] = apiRow[<<"artifact", j>>]
        /\ apiRow'[<<"export", j>>] = apiRow[<<"export", j>>]
    BY <1>3, ProductKeys
  <2> QED
    BY <2>1 DEF RowsScoped, Present, ExportOf
<1>10. RowsScoped'
  BY <1>3, <1>6, <1>7, <1>8, <1>9 DEF RowsScoped
<1>11. ASSUME NEW call \in awaiting PROVE CallScoped(call)'
  <2>1. CallScoped(call)
    BY DEF AwaitingScoped
  <2> QED
    BY <1>1, <1>3, <1>4, <2>1 DEF CallScoped
<1> QED
  BY <1>2, <1>3, <1>10, <1>11, <1>1

(* The shapes the handlers share, each as a whole.                              *)
LEMMA CreateKeepsApi ==
    ASSUME ApiInv, NEW c \in Callers, NEW w \in Tenants, NEW x \in Resources, NEW parents \in SUBSET Ids,
           Create(c, w, x, parents)
    PROVE  ApiInv'
<1>1. /\ "WorkspaceWrite" \in Grants[c][w] /\ ~ Present(x) /\ Insert(x, w, parents)
      /\ \A y \in parents : apiRow[y].ws = w
      /\ Respond(c, {x} \cup parents, {x}) /\ awaiting' = awaiting
  BY DEF Create, Writes, Gate, ParentTakes
<1>2. /\ RowsScoped' /\ AwaitingScoped' /\ apiRow'[x].ws = w
      /\ \A y \in Ids : y # x => apiRow'[y] = apiRow[y]
  BY <1>1, InsertKeepsScope DEF ApiInv, AwaitingScoped
<1>3. \A y \in {x} \cup parents : OwnerIn(apiRow', y) = w
  BY <1>1, <1>2, OwnerOfRow
<1>4. breaches' = {}
  BY <1>1, <1>3, CleanResponse DEF ApiInv
<1> QED
  BY <1>2, <1>4 DEF ApiInv

(* A step that only answers.                                                    *)
LEMMA AnswerKeepsApi ==
    ASSUME ApiInv, NEW c, NEW w, NEW ids, NEW edits, Respond(c, ids, edits),
           UNCHANGED apiRow, awaiting' \subseteq awaiting,
           \A y \in ids \cup edits : OwnerIn(apiRow, y) = w,
           "WorkspaceRead" \in Grants[c][w] \/ "WorkspaceWrite" \in Grants[c][w],
           edits = {} \/ "WorkspaceWrite" \in Grants[c][w]
    PROVE  ApiInv'
<1>1. \A y \in ids \cup edits : OwnerIn(apiRow', y) = w
  OBVIOUS
<1>2. breaches' = {}
  BY <1>1, CleanResponse DEF ApiInv
<1>3. RowsScoped' /\ AwaitingScoped'
  BY DEF ApiInv, RowsScoped, AwaitingScoped, CallScoped, Present, ExportOf
<1> QED
  BY <1>2, <1>3 DEF ApiInv

LEMMA ReadKeepsApi ==
    ASSUME ApiInv, NEW c \in Callers, NEW w \in Tenants, NEW x \in Ids, Read(c, w, x) \/ Edit(c, w, x)
    PROVE  ApiInv'
<1>1. InScope(x, w) /\ UNCHANGED <<apiRow, awaiting>>
  BY DEF Read, Edit
<1>2. \A y \in View(x) \cup {x} : OwnerIn(apiRow, y) = w
  BY <1>1, ViewInScope DEF ApiInv, View
<1>3. CASE Read(c, w, x)
  BY <1>1, <1>2, <1>3, AnswerKeepsApi DEF Read, Reads, Gate
<1>4. CASE Edit(c, w, x)
  BY <1>1, <1>2, <1>4, AnswerKeepsApi DEF Edit, Writes, Gate
<1> QED
  BY <1>3, <1>4

LEMMA ListKeepsApi ==
    ASSUME ApiInv, NEW c \in Callers, NEW w \in Tenants, NEW kind \in SUBSET Ids, List(c, w, kind)
    PROVE  ApiInv'
<1> DEFINE ids == UNION {View(x) : x \in {y \in kind : InScope(y, w)}}
<1>1. \A y \in ids : OwnerIn(apiRow, y) = w
  BY ViewInScope DEF ApiInv
<1>2. Respond(c, ids, {}) /\ UNCHANGED <<apiRow, awaiting>> /\ "WorkspaceRead" \in Grants[c][w]
  BY DEF List, Reads, Gate
<1> HIDE DEF ids
<1> QED
  BY <1>1, <1>2, AnswerKeepsApi

LEMMA RetireKeepsApi ==
    ASSUME ApiInv, NEW c \in Callers, NEW w \in Tenants, NEW x \in Ids, RetireResource(c, w, x)
    PROVE  ApiInv'
<1>1. /\ InScope(x, w) /\ apiRow' = [apiRow EXCEPT ![x].live = FALSE] /\ awaiting' = awaiting
      /\ Respond(c, View(x), {x}) /\ "WorkspaceWrite" \in Grants[c][w]
  BY DEF RetireResource, Writes, Gate
<1>2. /\ apiRow' \in [Ids -> ApiRowType]
      /\ \A y \in Ids : apiRow'[y].ws = apiRow[y].ws /\ apiRow'[y].up = apiRow[y].up
      /\ \A y \in Ids : y # x => apiRow'[y] = apiRow[y]
  <2> DEFINE row == [apiRow[x] EXCEPT !.live = FALSE]
  <2>1. apiRow \in [Ids -> ApiRowType] /\ apiRow' = [apiRow EXCEPT ![x] = row]
    BY <1>1 DEF ApiInv, RowsScoped
  <2>2. row \in ApiRowType /\ row.ws = apiRow[x].ws /\ row.up = apiRow[x].up
    <3>1. apiRow[x] \in ApiRowType
      BY <2>1
    <3> QED
      BY <3>1 DEF ApiRowType
  <2> HIDE DEF row
  <2> QED
    BY <2>1, <2>2
<1>3. apiRow[x].ws = w /\ w # "nobody"
  BY <1>1, ApiServiceAssumption DEF InScope, Nobody
<1>4. \A y \in Ids : Present(y)' <=> Present(y)
  <2>1. NoRow.ws = "nobody"
    BY DEF NoRow, Nobody
  <2> QED
    BY <1>2, <1>3, <2>1 DEF Present
<1>5. RowsScoped'
  <2>1. \A y \in Ids : apiRow'[y].ws = "nobody" => apiRow'[y] = NoRow
    BY <1>2, <1>3 DEF ApiInv, RowsScoped
  <2>2. \A y \in Ids : apiRow'[y].ws \in Tenants => \A z \in apiRow'[y].up : apiRow'[z].ws = apiRow'[y].ws
    BY <1>2, PresentHasOwner DEF ApiInv, RowsScoped
  <2>3. \A y \in Ids : apiRow'[y].ws = "none" => \E j \in ApiJobs : y = <<"export", j>>
    BY <1>2 DEF ApiInv, RowsScoped
  <2>4. ASSUME NEW j \in ApiJobs
        PROVE  /\ (Present(<<"artifact", j>>) \/ Present(<<"export", j>>) => Present(<<"run", j>>))'
               /\ (Present(<<"export", j>>) => ExportOf(j))'
    BY <1>2, <1>4, ProductKeys DEF ApiInv, RowsScoped, ExportOf
  <2> QED
    BY <1>2, <2>1, <2>2, <2>3, <2>4 DEF RowsScoped
<1>6. AwaitingScoped'
  BY <1>1, <1>2 DEF ApiInv, AwaitingScoped, CallScoped
<1>7. \A y \in View(x) \cup {x} : OwnerIn(apiRow', y) = w
  <2>1. \A y \in View(x) \cup {x} : y \in Ids /\ apiRow[y].ws = w
    BY <1>1, <1>3, PresentHasOwner DEF ApiInv, RowsScoped, View
  <2> QED
    BY <1>2, <2>1, OwnerOfRow
<1>8. breaches' = {}
  BY <1>1, <1>7, CleanResponse DEF ApiInv
<1> QED
  BY <1>5, <1>6, <1>8 DEF ApiInv

(* A handler that begins to await.                                              *)
LEMMA SuspendKeepsApi ==
    ASSUME ApiInv, NEW call, Suspend(call), UNCHANGED <<apiRow, breaches>>,
           call.by \in Callers, call.ws \in Tenants, call.ids \subseteq Ids,
           \/ call.op = "ask" /\ "WorkspaceRead" \in Grants[call.by][call.ws]
           \/ call.op = "discover" /\ "WorkspaceWrite" \in Grants[call.by][call.ws],
           \A x \in call.ids : apiRow[x].ws = call.ws
    PROVE  ApiInv'
<1>1. RowsScoped'
  BY DEF ApiInv, RowsScoped, Present, ExportOf
<1>2. AwaitingScoped'
  BY DEF ApiInv, AwaitingScoped, CallScoped, Suspend
<1> QED
  BY <1>1, <1>2 DEF ApiInv

(* The handlers that are no instance of a shape.                                *)
LEMMA VersionAndJobKeepApi ==
    ASSUME ApiInv, NEW c \in Callers, NEW w \in Tenants, NEW x \in Resources, NEW up \in SUBSET Ids,
           "WorkspaceWrite" \in Grants[c][w], ~ Present(x), \A y \in up : apiRow[y].ws = w,
           Insert(x, w, up), Respond(c, {x} \cup up, {x}), UNCHANGED awaiting
    PROVE  ApiInv'
<1>1. /\ RowsScoped' /\ AwaitingScoped' /\ apiRow'[x].ws = w
      /\ \A y \in Ids : y # x => apiRow'[y] = apiRow[y]
  BY InsertKeepsScope DEF ApiInv, AwaitingScoped
<1>2. \A y \in {x} \cup up : OwnerIn(apiRow', y) = w
  BY <1>1, OwnerOfRow
<1>3. breaches' = {}
  BY <1>2, CleanResponse DEF ApiInv
<1> QED
  BY <1>1, <1>3 DEF ApiInv

LEMMA SaveKeepsApi ==
    ASSUME ApiInv, NEW c \in Callers, NEW w \in Tenants, NEW v \in ApiVersions, NEW p \in Plans,
           NEW parents \in SUBSET ApiVersions, SavePlanVersion(c, w, v, p, parents)
    PROVE  ApiInv'
<1> DEFINE up == {p} \cup parents
<1>1. v \in Resources /\ up \in SUBSET Ids
  BY DEF Resources, Ids
<1>2. /\ "WorkspaceWrite" \in Grants[c][w] /\ ~ Present(v) /\ \A y \in up : apiRow[y].ws = w
      /\ Insert(v, w, up) /\ UNCHANGED awaiting
  BY DEF SavePlanVersion, Writes, Gate, InScope
<1>3. Respond(c, {v} \cup up, {v})
  <2>1. {v, p} \cup parents = {v} \cup up
    OBVIOUS
  <2> QED
    BY <2>1 DEF SavePlanVersion
<1> HIDE DEF up
<1> QED
  BY <1>1, <1>2, <1>3, VersionAndJobKeepApi

LEMMA SubmitKeepsApi ==
    ASSUME ApiInv, NEW c \in Callers, NEW w \in Tenants, NEW j \in ApiJobs, NEW s \in ApiSessions,
           NEW v \in ApiVersions, NEW caps, SubmitApiJob(c, w, j, s, v, caps)
    PROVE  ApiInv'
<1> DEFINE up == {s, v}
<1>1. j \in Resources /\ up \in SUBSET Ids
  BY DEF Resources, Ids
<1>2. /\ "WorkspaceWrite" \in Grants[c][w] /\ ~ Present(j) /\ \A y \in up : apiRow[y].ws = w
      /\ Insert(j, w, up) /\ UNCHANGED awaiting
  BY DEF SubmitApiJob, Gate, InScope, ParentTakes
<1>3. Respond(c, {j} \cup up, {j})
  <2>1. {j, s, v} = {j} \cup up
    OBVIOUS
  <2> QED
    BY <2>1 DEF SubmitApiJob
<1> HIDE DEF up
<1> QED
  BY <1>1, <1>2, <1>3, VersionAndJobKeepApi

(* create_source_asset for each asset discovered.                               *)
LEMMA DiscoverKeepsApi ==
    ASSUME ApiInv, NEW call \in awaiting, NEW a \in ApiAssets, CreateDiscovered(call, a)
    PROVE  ApiInv'
<1>1. /\ call.op = "discover" /\ ~ Present(a) /\ Insert(a, call.ws, call.ids)
      /\ Respond(call.by, {a} \cup call.ids, {a}) /\ UNCHANGED awaiting
  BY DEF CreateDiscovered
<1>2. /\ call.by \in Callers /\ call.ws \in Tenants /\ call.ids \in SUBSET Ids
      /\ "WorkspaceWrite" \in Grants[call.by][call.ws] /\ \A x \in call.ids : apiRow[x].ws = call.ws
  BY <1>1 DEF ApiInv, AwaitingScoped, CallScoped
<1>3. a \in Resources
  BY DEF Resources
<1> QED
  BY <1>1, <1>2, <1>3, VersionAndJobKeepApi

LEMMA CloneKeepsApi ==
    ASSUME ApiInv, NEW c \in Callers, NEW w \in Tenants, NEW from, NEW p \in Plans, NEW v \in ApiVersions,
           ClonePlan(c, w, from, p, v)
    PROVE  ApiInv'
<1> DEFINE call == [op |-> "clone", by |-> c, ws |-> w, ids |-> {p, v}]
<1>1. /\ "WorkspaceWrite" \in Grants[c][w] /\ ~ Present(p) /\ Insert(p, w, {})
      /\ awaiting' = awaiting \cup {call} /\ breaches' = breaches
  BY DEF ClonePlan, Writes, Gate, Suspend
<1>2. p \in Resources /\ v \in Ids /\ p \in Ids
  BY DEF Resources, Ids
<1>3. /\ call.op = "clone" /\ call.by = c /\ call.ws = w /\ call.ids = {p, v}
  OBVIOUS
<1> HIDE DEF call
<1>4. /\ RowsScoped' /\ \A k \in awaiting : CallScoped(k)'
  BY <1>1, <1>2, InsertKeepsScope DEF ApiInv
<1>5. CallScoped(call)'
  BY <1>1, <1>2, <1>3 DEF CallScoped
<1> QED
  BY <1>1, <1>4, <1>5 DEF ApiInv, AwaitingScoped

LEMMA CloneVersionKeepsApi ==
    ASSUME ApiInv, NEW call \in awaiting, NEW p \in Plans, NEW v \in ApiVersions, CloneVersion(call, p, v)
    PROVE  ApiInv'
<1>1. call.op = "clone" /\ awaiting' \subseteq awaiting
  BY DEF CloneVersion, Resume
<1>2. call.by \in Callers /\ call.ws \in Tenants /\ "WorkspaceWrite" \in Grants[call.by][call.ws]
  BY <1>1 DEF ApiInv, AwaitingScoped, CallScoped
<1>3. CASE UNCHANGED <<apiRow, breaches>>
  BY <1>1, <1>3 DEF ApiInv, RowsScoped, AwaitingScoped, CallScoped, Present, ExportOf
<1>4. CASE /\ ParentTakes(p, call.ws) /\ ~ Present(v)
           /\ Insert(v, call.ws, {p})
           /\ Respond(call.by, {p, v}, {p, v})
  <2>1. v \in Resources /\ {p} \in SUBSET Ids /\ p \in Ids
    BY DEF Resources, Ids
  <2>2. apiRow[p].ws = call.ws /\ p # v
    BY <1>4 DEF ParentTakes
  <2>3. /\ RowsScoped' /\ AwaitingScoped' /\ apiRow'[v].ws = call.ws /\ apiRow'[p] = apiRow[p]
    BY <1>1, <1>2, <1>4, <2>1, <2>2, InsertKeepsScope DEF ApiInv, AwaitingScoped
  <2>4. \A y \in {p, v} : OwnerIn(apiRow', y) = call.ws
    BY <1>2, <2>2, <2>3, OwnerOfRow
  <2>5. breaches' = {}
    <3>1. \A y \in {p, v} \cup {p, v} : OwnerIn(apiRow', y) = call.ws
      BY <2>4
    <3>2. breaches = {} /\ Respond(call.by, {p, v}, {p, v})
      BY <1>4 DEF ApiInv
    <3> QED
      BY <1>2, <3>1, <3>2, CleanResponse, Zenon
  <2> QED
    BY <2>3, <2>5 DEF ApiInv
<1> QED
  BY <1>3, <1>4 DEF CloneVersion

(* The runtime publishes for the Workspace of its Job.                          *)
LEMMA RunKeepsApi ==
    ASSUME ApiInv, NEW j \in ApiJobs, JobRuns(j)
    PROVE  ApiInv'
<1> DEFINE run == <<"run", j>>
           art == <<"artifact", j>>
           exp == <<"export", j>>
           w == apiRow[j].ws
<1>1. /\ Present(j) /\ ~ Present(run) /\ UNCHANGED <<awaiting, breaches>>
      /\ apiRow' = [x \in Ids |->
           CASE x = run -> [ws |-> w, up |-> {j}, live |-> TRUE]
             [] x = art -> [ws |-> w, up |-> {run}, live |-> TRUE]
             [] x = exp -> [ws |-> "none", up |-> {run}, live |-> TRUE]
             [] OTHER -> apiRow[x]]
  BY DEF JobRuns
<1>2. /\ run \in Ids /\ art \in Ids /\ exp \in Ids /\ j \in Ids /\ j \in Resources
      /\ run \notin Resources /\ art \notin Resources /\ exp \notin Resources
      /\ run # art /\ run # exp /\ art # exp
  BY ProductKeys DEF Resources
<1>3. j # run /\ j # art /\ j # exp
  BY <1>2
<1>4. /\ apiRow'[run].ws = w /\ apiRow'[run].up = {j}
      /\ apiRow'[art].ws = w /\ apiRow'[art].up = {run}
      /\ apiRow'[exp].ws = "none" /\ apiRow'[exp].up = {run}
      /\ \A x \in Ids : x # run /\ x # art /\ x # exp => apiRow'[x] = apiRow[x]
  BY <1>1, <1>2
<1>5. w \in Tenants /\ w # "nobody" /\ w # "none" /\ "nobody" \notin Tenants /\ "none" \notin Tenants
  <2>1. w \in Tenants \cup {"nobody", "none"} /\ w # "nobody"
    BY <1>1, <1>2, PresentHasOwner DEF ApiInv, RowsScoped, ApiRowType
  <2>2. w # "none"
    BY <1>2, ProductKeys DEF ApiInv, RowsScoped
  <2> QED
    BY <2>1, <2>2, ApiServiceAssumption DEF Nobody
<1>6. /\ apiRow[run].ws = "nobody" /\ apiRow[art].ws = "nobody" /\ apiRow[exp].ws = "nobody"
  BY <1>1, <1>2, PresentHasOwner DEF ApiInv, RowsScoped
<1>7. apiRow' \in [Ids -> ApiRowType]
  <2>1. /\ [ws |-> w, up |-> {j}, live |-> TRUE] \in ApiRowType
        /\ [ws |-> w, up |-> {run}, live |-> TRUE] \in ApiRowType
        /\ [ws |-> "none", up |-> {run}, live |-> TRUE] \in ApiRowType
    BY <1>2, <1>5 DEF ApiRowType
  <2>2. apiRow \in [Ids -> ApiRowType]
    BY DEF ApiInv, RowsScoped
  <2> QED
    BY <1>1, <2>1, <2>2
<1> HIDE DEF run, art, exp, w
<1>8. \A x \in Ids : apiRow'[x].ws = "nobody" => apiRow'[x] = NoRow
  BY <1>4, <1>5 DEF ApiInv, RowsScoped
<1>9. ASSUME NEW x \in Ids, apiRow'[x].ws \in Tenants, NEW y \in apiRow'[x].up
      PROVE  apiRow'[y].ws = apiRow'[x].ws
  <2>1. CASE x = run \/ x = art
    BY <1>2, <1>3, <1>4, <1>9, <2>1 DEF w
  <2>2. CASE x = exp
    BY <1>4, <1>5, <1>9, <2>2
  <2>3. CASE x # run /\ x # art /\ x # exp
    <3>1. apiRow'[x] = apiRow[x] /\ apiRow[y].ws = apiRow[x].ws /\ y \in Ids
      BY <1>4, <1>9, <2>3, PresentHasOwner DEF ApiInv, RowsScoped
    <3>2. y # run /\ y # art /\ y # exp
      BY <1>5, <1>6, <1>9, <3>1
    <3> QED
      BY <1>4, <3>1, <3>2
  <2> QED
    BY <2>1, <2>2, <2>3
<1>10. \A x \in Ids : apiRow'[x].ws = "none" => \E i \in ApiJobs : x = <<"export", i>>
  BY <1>4, <1>5 DEF ApiInv, RowsScoped, exp
<1>11. ASSUME NEW i \in ApiJobs
       PROVE  /\ (Present(<<"artifact", i>>) \/ Present(<<"export", i>>) => Present(<<"run", i>>))'
              /\ (Present(<<"export", i>>) => ExportOf(i))'
  <2>1. CASE i = j
    <3>1. NoRow.ws = "nobody"
      BY DEF NoRow, Nobody
    <3>2. apiRow'[run] # NoRow
      BY <1>4, <1>5, <3>1
    <3> QED
      BY <1>4, <1>5, <2>1, <3>2 DEF Present, ExportOf, run, art, exp
  <2>2. CASE i # j
    <3>1. \A k \in {"run", "artifact", "export"} : <<k, i>> \in Ids /\ apiRow'[<<k, i>>] = apiRow[<<k, i>>]
      BY <1>4, <2>2, ProductKeys DEF run, art, exp
    <3> QED
      BY <3>1 DEF ApiInv, RowsScoped, Present, ExportOf
  <2> QED
    BY <2>1, <2>2
<1>12. RowsScoped'
  BY <1>7, <1>8, <1>9, <1>10, <1>11 DEF RowsScoped
<1>13. AwaitingScoped'
  <2> SUFFICES ASSUME NEW call \in awaiting PROVE CallScoped(call)'
    BY <1>1 DEF AwaitingScoped
  <2>1. CallScoped(call)
    BY DEF ApiInv, AwaitingScoped
  <2> QED
    BY <1>4, <1>5, <1>6, <2>1 DEF CallScoped
<1> QED
  BY <1>1, <1>12, <1>13 DEF ApiInv

LEMMA HandlerKeepsApi ==
    ASSUME ApiInv, NEW c \in Callers, NEW w \in Tenants
    PROVE  /\ \A s \in ApiSessions : SessionCalls(c, w, s) => ApiInv'
           /\ \A x \in Connections : ConnectionCalls(c, w, x) \/ TestSourceConnection(c, w, x) => ApiInv'
           /\ \A x \in Connections, a \in ApiAssets : AssetCalls(c, w, x, a) => ApiInv'
           /\ \A d \in Datasets, s \in ApiSessions, a \in ApiAssets : DatasetCalls(c, w, d, s, a) => ApiInv'
           /\ \A p \in Plans : PlanCalls(c, w, p) => ApiInv'
           /\ \A v \in ApiVersions, p \in Plans : VersionCalls(c, w, v, p) => ApiInv'
           /\ \A left, right \in ApiVersions : DiffPlans(c, w, left, right) => ApiInv'
           /\ \A j \in ApiJobs : JobCalls(c, w, j) \/ RunCalls(c, w, j) => ApiInv'
           /\ \A j \in ApiJobs : ArtifactCalls(c, w, j) \/ ExportCalls(c, w, j) => ApiInv'
<1>0. Resources \subseteq Ids
  BY DEF Ids
<1>1. ASSUME NEW s \in ApiSessions, SessionCalls(c, w, s) PROVE ApiInv'
  <2>1. s \in Resources /\ s \in Ids /\ ApiSessions \in SUBSET Ids /\ {} \in SUBSET Ids
    BY <1>0 DEF Resources
  <2> QED
    BY <1>1, <2>1, CreateKeepsApi, ReadKeepsApi, RetireKeepsApi, ListKeepsApi DEF SessionCalls
<1>2. ASSUME NEW x \in Connections, ConnectionCalls(c, w, x) PROVE ApiInv'
  <2>1. x \in Resources /\ x \in Ids /\ Connections \in SUBSET Ids /\ {} \in SUBSET Ids
    BY <1>0 DEF Resources
  <2> QED
    BY <1>2, <2>1, CreateKeepsApi, ReadKeepsApi, RetireKeepsApi, ListKeepsApi DEF ConnectionCalls
<1>3. ASSUME NEW x \in Connections, TestSourceConnection(c, w, x) PROVE ApiInv'
  <2> DEFINE call == [op |-> "ask", by |-> c, ws |-> w, ids |-> {x}]
  <2>1. Suspend(call) /\ UNCHANGED <<apiRow, breaches>> /\ apiRow[x].ws = w
        /\ "WorkspaceRead" \in Grants[c][w] /\ x \in Ids
    BY <1>0, <1>3 DEF TestSourceConnection, Gate, InScope, Resources
  <2>2. call.op = "ask" /\ call.by = c /\ call.ws = w /\ call.ids = {x}
    OBVIOUS
  <2> HIDE DEF call
  <2> QED
    BY <2>1, <2>2, SuspendKeepsApi
<1>4. ASSUME NEW x \in Connections, NEW a \in ApiAssets, AssetCalls(c, w, x, a) PROVE ApiInv'
  <2>0. x \in Ids /\ a \in Ids /\ ApiAssets \in SUBSET Ids
    BY <1>0 DEF Resources
  <2>1. CASE List(c, w, ApiAssets)
    BY <2>0, <2>1, ListKeepsApi
  <2>2. CASE DiscoverSourceAssets(c, w, x)
    <3> DEFINE call == [op |-> "discover", by |-> c, ws |-> w, ids |-> {x}]
    <3>1. Suspend(call) /\ UNCHANGED <<apiRow, breaches>> /\ apiRow[x].ws = w
          /\ "WorkspaceWrite" \in Grants[c][w]
      BY <2>2 DEF DiscoverSourceAssets, Writes, Gate, InScope
    <3>2. call.op = "discover" /\ call.by = c /\ call.ws = w /\ call.ids = {x}
      OBVIOUS
    <3> HIDE DEF call
    <3> QED
      BY <2>0, <3>1, <3>2, SuspendKeepsApi
  <2>3. CASE PreviewSource(c, w, x, a)
    <3> DEFINE call == [op |-> "ask", by |-> c, ws |-> w, ids |-> {x, a}]
    <3>1. Suspend(call) /\ UNCHANGED <<apiRow, breaches>> /\ apiRow[x].ws = w /\ apiRow[a].ws = w
          /\ "WorkspaceRead" \in Grants[c][w]
      BY <2>3 DEF PreviewSource, Reads, Gate, AuthorizeSource, InScope
    <3>2. call.op = "ask" /\ call.by = c /\ call.ws = w /\ call.ids = {x, a}
      OBVIOUS
    <3> HIDE DEF call
    <3> QED
      BY <2>0, <3>1, <3>2, SuspendKeepsApi
  <2> QED
    BY <1>4, <2>1, <2>2, <2>3 DEF AssetCalls
<1>5. ASSUME NEW d \in Datasets, NEW s \in ApiSessions, NEW a \in ApiAssets, DatasetCalls(c, w, d, s, a)
      PROVE  ApiInv'
  <2>1. d \in Resources /\ d \in Ids /\ {s, a} \in SUBSET Ids /\ Datasets \in SUBSET Ids
    BY <1>0 DEF Resources
  <2> QED
    BY <1>5, <2>1, CreateKeepsApi, ReadKeepsApi, ListKeepsApi DEF DatasetCalls
<1>6. ASSUME NEW p \in Plans, PlanCalls(c, w, p) PROVE ApiInv'
  <2>1. p \in Resources /\ p \in Ids /\ Plans \in SUBSET Ids /\ {} \in SUBSET Ids
    BY <1>0 DEF Resources
  <2> QED
    BY <1>6, <2>1, CreateKeepsApi, ReadKeepsApi, ListKeepsApi DEF PlanCalls
<1>7. ASSUME NEW v \in ApiVersions, NEW p \in Plans, VersionCalls(c, w, v, p) PROVE ApiInv'
  <2>1. v \in Ids /\ {q \in ApiVersions : p \in apiRow[q].up} \in SUBSET Ids
    BY <1>0 DEF Resources
  <2>2. {{}} \cup {{q} : q \in ApiVersions} \subseteq SUBSET ApiVersions
    OBVIOUS
  <2> QED
    BY <1>7, <2>1, <2>2, SaveKeepsApi, ReadKeepsApi, ListKeepsApi DEF VersionCalls
<1>8. ASSUME NEW left \in ApiVersions, NEW right \in ApiVersions, DiffPlans(c, w, left, right) PROVE ApiInv'
  <2>1. left \in Ids /\ right \in Ids
    BY <1>0 DEF Resources
  <2>2. \A y \in View(left) \cup View(right) : OwnerIn(apiRow, y) = w
    BY <1>8, <2>1, ViewInScope DEF DiffPlans, ApiInv
  <2> QED
    BY <1>8, <2>2, AnswerKeepsApi DEF DiffPlans, Reads, Gate
<1>9. ASSUME NEW j \in ApiJobs, JobCalls(c, w, j) \/ RunCalls(c, w, j) PROVE ApiInv'
  <2>1. j \in Ids /\ <<"run", j>> \in Ids /\ ApiJobs \in SUBSET Ids
        /\ {<<"run", i>> : i \in ApiJobs} \in SUBSET Ids
    BY ProductKeys
  <2> QED
    BY <1>9, <2>1, ReadKeepsApi, ListKeepsApi DEF JobCalls, RunCalls
<1>10. ASSUME NEW j \in ApiJobs, ArtifactCalls(c, w, j) PROVE ApiInv'
  <2>1. <<"artifact", j>> \in Ids /\ {<<"artifact", i>> : i \in ApiJobs} \in SUBSET Ids
    BY ProductKeys
  <2>2. CASE Read(c, w, <<"artifact", j>>) \/ ReadReport(c, w, j)
    BY <2>1, <2>2, ReadKeepsApi DEF ReadReport
  <2>3. CASE List(c, w, {<<"artifact", i>> : i \in ApiJobs})
    BY <2>1, <2>3, ListKeepsApi
  <2>4. CASE /\ Gate(c, w, {"WorkspaceRead", "ArtifactDownload"}) /\ InScope(<<"artifact", j>>, w)
             /\ UNCHANGED <<apiRow, awaiting>>
             /\ Respond(c, View(<<"artifact", j>>), {})
    <3>1. \A y \in View(<<"artifact", j>>) : OwnerIn(apiRow, y) = w
      BY <2>1, <2>4, ViewInScope DEF ApiInv
    <3> QED
      BY <2>4, <3>1, AnswerKeepsApi DEF Gate
  <2> QED
    BY <1>10, <2>2, <2>3, <2>4 DEF ArtifactCalls
<1>11. ASSUME NEW j \in ApiJobs, ExportCalls(c, w, j) PROVE ApiInv'
  <2> DEFINE x == <<"export", j>>
  <2>1. Present(x) /\ apiRow[<<"run", j>>].ws = w /\ UNCHANGED <<apiRow, awaiting>>
    BY <1>11 DEF ExportCalls, ScopedExportManifest, InScope
  <2>2. apiRow[x].up = {<<"run", j>>}
    BY <2>1 DEF ApiInv, RowsScoped, ExportOf
  <2>3. OwnerIn(apiRow, x) = w /\ OwnerIn(apiRow, <<"run", j>>) = w
    BY <2>1, OwnerOfExport, OwnerOfRow DEF ApiInv
  <2>4. \A y \in View(x) \cup {x} : OwnerIn(apiRow, y) = w
    BY <2>2, <2>3 DEF View
  <2>5. \/ "WorkspaceRead" \in Grants[c][w] /\ Respond(c, View(x), {})
        \/ "WorkspaceWrite" \in Grants[c][w] /\ Respond(c, View(x), {x})
    BY <1>11 DEF ExportCalls, Reads, Writes, Gate
  <2> HIDE DEF x
  <2> QED
    BY <2>1, <2>4, <2>5, AnswerKeepsApi
<1> QED
  BY <1>1, <1>2, <1>3, <1>4, <1>5, <1>6, <1>7, <1>8, <1>9, <1>10, <1>11

(* Every handler of the embedded API: for any Workspaces, callers, roles and    *)
(* interleaving of awaits and commits, nobody is shown or edits a row outside   *)
(* its roles, and no row refers into another Workspace.                         *)
THEOREM TenantsStayIsolated == ApiSpec => []TenantsIsolated
<1>1. ApiInit => ApiInv
  <2> SUFFICES ASSUME ApiInit PROVE ApiInv
    OBVIOUS
  <2>1. /\ \A x \in Ids : apiRow[x] = NoRow
        /\ apiRow = [x \in Ids |-> NoRow] /\ awaiting = {} /\ breaches = {}
    BY DEF ApiInit
  <2>2. NoRow \in ApiRowType /\ NoRow.ws = "nobody" /\ NoRow.ws \notin Tenants /\ NoRow.ws # "none"
    BY ApiServiceAssumption DEF NoRow, ApiRowType, Nobody
  <2>3. RowsScoped
    BY <2>1, <2>2, ProductKeys DEF RowsScoped, Present
  <2> QED
    BY <2>1, <2>3 DEF ApiInv, AwaitingScoped
<1>2. ApiInv /\ [ApiNext]_apiVars => ApiInv'
  <2> SUFFICES ASSUME ApiInv, [ApiNext]_apiVars PROVE ApiInv'
    OBVIOUS
  <2>1. ASSUME NEW call \in awaiting, AnswerAwaited(call) PROVE ApiInv'
    <3>1. /\ call.ws \in Tenants /\ "WorkspaceRead" \in Grants[call.by][call.ws]
          /\ \A x \in call.ids : apiRow[x].ws = call.ws
          /\ Respond(call.by, call.ids, {}) /\ UNCHANGED apiRow /\ awaiting' \subseteq awaiting
      BY <2>1 DEF AnswerAwaited, Resume, ApiInv, AwaitingScoped, CallScoped
    <3>2. \A x \in call.ids : OwnerIn(apiRow, x) = call.ws
      BY <3>1, OwnerOfRow
    <3> QED
      <4>1. \A x \in call.ids \cup {} : OwnerIn(apiRow, x) = call.ws
        BY <3>2
      <4> QED
        BY <3>1, <4>1, AnswerKeepsApi, Zenon
  <2>2. ASSUME NEW call \in awaiting, DiscoverEnds(call) PROVE ApiInv'
    BY <2>2 DEF DiscoverEnds, Resume, ApiInv, RowsScoped, AwaitingScoped, CallScoped, Present, ExportOf
  <2>3. ASSUME UNCHANGED apiVars PROVE ApiInv'
    BY <2>3 DEF apiVars, ApiInv, RowsScoped, AwaitingScoped, CallScoped, Present, ExportOf
  <2>4. ASSUME NEW c \in Callers, NEW w \in Tenants, NEW j \in ApiJobs, NEW s \in ApiSessions,
               NEW v \in ApiVersions,
               \/ SubmitApiJob(c, w, j, s, v, {}) \/ SubmitExport(c, w, j, s, v)
               \/ \E of \in Tenants : SubmitDriftComparison(c, w, of, j, s, v)
        PROVE  ApiInv'
    BY <2>4, SubmitKeepsApi DEF SubmitExport, SubmitDriftComparison
  <2>5. ASSUME NEW c \in Callers, NEW w \in Tenants, NEW from \in ApiVersions, NEW v \in ApiVersions,
               NEW p \in Plans, ClonePlan(c, w, from, p, v)
        PROVE  ApiInv'
    BY <2>5, CloneKeepsApi
  <2> QED
    BY <2>1, <2>2, <2>3, <2>4, <2>5, HandlerKeepsApi, DiscoverKeepsApi, CloneVersionKeepsApi, RunKeepsApi
    DEF ApiNext
<1>3. ApiInv => TenantsIsolated
  <2> SUFFICES ASSUME ApiInv, NEW x \in Ids, NEW y \in apiRow[x].up
               PROVE  Present(y) /\ OwnerIn(apiRow, y) = OwnerIn(apiRow, x)
    BY DEF ApiInv, TenantsIsolated
  <2>0. RowsScoped /\ y \in Ids /\ "nobody" \notin Tenants
    BY PresentHasOwner, ApiServiceAssumption DEF ApiInv, Nobody
  <2>1. CASE apiRow[x].ws \in Tenants
    <3>1. apiRow[y].ws = apiRow[x].ws
      BY <2>0, <2>1 DEF RowsScoped
    <3> QED
      BY <2>0, <2>1, <3>1, OwnerOfRow, PresentHasOwner
  <2>2. CASE apiRow[x].ws = "none"
    <3>1. PICK j \in ApiJobs : x = <<"export", j>>
      BY <2>0, <2>2 DEF RowsScoped
    <3>2. Present(x)
      BY <2>0, <2>2, PresentHasOwner
    <3>3. y = <<"run", j>> /\ apiRow[y].ws \in Tenants
      <4>1. ExportOf(j)
        BY <2>0, <3>1, <3>2 DEF RowsScoped
      <4> QED
        BY <3>1, <4>1 DEF ExportOf
    <3> QED
      BY <2>0, <3>1, <3>2, <3>3, OwnerOfExport, OwnerOfRow, PresentHasOwner
  <2>3. CASE apiRow[x].ws = "nobody"
    BY <2>0, <2>3 DEF RowsScoped, NoRow
  <2> QED
    BY <2>0, <2>1, <2>2, <2>3 DEF RowsScoped, ApiRowType
<1> QED
  BY <1>1, <1>2, <1>3, PTL DEF ApiSpec

-----------------------------------------------------------------------------

(* The least-number principle for a set of naturals.                         *)
LEMMA LeastNatural ==
    ASSUME NEW T \in SUBSET Nat, T # {}
    PROVE  \E m \in T : \A n \in T : m <= n
<1> DEFINE R == OpToRel(<, Nat)
<1>1. IsWellFoundedOn(R, Nat)
  BY NatLessThanWellFounded
<1>2. \A x, y \in Nat : x < y => <<x, y>> \in R
  BY DEF OpToRel
<1> HIDE DEF R
<1>3. PICK x \in T : \A y \in T : ~ (<<y, x>> \in R)
  BY <1>1, WFMin
<1>4. \A y \in T : ~ (y < x)
  BY <1>2, <1>3, Zenon
<1> QED
  BY <1>4, Z3

(* ORDER BY is a strict total order of the rows, and the WHERE of a cursor   *)
(* asks for what comes behind it in that order.                              *)
LEMMA RowOrder ==
    /\ \A x, y \in AllRows : AfterPair(x, y) <=> Precedes(y, x)
    /\ \A x \in AllRows : ~ Precedes(x, x)
    /\ \A x, y \in AllRows : x = y \/ Precedes(x, y) \/ Precedes(y, x)
    /\ \A x, y, z \in AllRows : Precedes(x, y) /\ Precedes(y, z) => Precedes(x, z)
<1>1. \A x \in AllRows : x.time \in Nat /\ x.id \in Nat
  BY ListingAssumption DEF AllRows
<1>2. \A x, y \in AllRows : AfterPair(x, y) <=> Precedes(y, x)
  BY <1>1 DEF AfterPair, Precedes
<1>3. \A x \in AllRows : ~ Precedes(x, x)
  BY <1>1 DEF Precedes
<1>4. \A x, y \in AllRows : x = y \/ Precedes(x, y) \/ Precedes(y, x)
  <2> SUFFICES ASSUME NEW x \in AllRows, NEW y \in AllRows, ~ Precedes(x, y), ~ Precedes(y, x)
               PROVE  x = y
    OBVIOUS
  <2>1. x.time = y.time /\ x.id = y.id
    BY <1>1 DEF Precedes
  <2> QED
    BY <2>1 DEF AllRows
<1>5. \A x, y, z \in AllRows : Precedes(x, y) /\ Precedes(y, z) => Precedes(x, z)
  BY <1>1 DEF Precedes
<1> QED
  BY <1>2, <1>3, <1>4, <1>5

(* Between two found rows the later one has more rows before it.             *)
LEMMA BeforeGrows ==
    ASSUME lsRows \subseteq AllRows, IsFiniteSet(lsRows)
    PROVE  /\ IsFiniteSet(Found)
           /\ \A r \in Found : IsFiniteSet(Before(r)) /\ Cardinality(Before(r)) \in Nat
           /\ \A x, y \in Found : Precedes(x, y) => Cardinality(Before(x)) < Cardinality(Before(y))
<1>1. Found \subseteq lsRows /\ Found \subseteq AllRows
  BY DEF Found
<1>2. IsFiniteSet(Found)
  BY <1>1, FS_Subset
<1>3. \A r \in Found : Before(r) \subseteq Found
  BY DEF Before
<1>4. \A r \in Found : IsFiniteSet(Before(r)) /\ Cardinality(Before(r)) \in Nat
  BY <1>2, <1>3, FS_Subset, FS_CardinalityType
<1>5. ASSUME NEW x \in Found, NEW y \in Found, Precedes(x, y)
      PROVE  Cardinality(Before(x)) < Cardinality(Before(y))
  <2>1. Before(x) \subseteq Before(y)
    BY <1>1, <1>5, RowOrder DEF Before
  <2>2. x \in Before(y) /\ x \notin Before(x)
    BY <1>1, <1>5, RowOrder DEF Before
  <2>3. /\ Cardinality(Before(x)) <= Cardinality(Before(y))
        /\ Cardinality(Before(x)) = Cardinality(Before(y)) => Before(y) = Before(x)
    BY <1>4, <2>1, FS_Subset
  <2> QED
    BY <1>4, <2>2, <2>3
<1> QED
  BY <1>2, <1>4, <1>5

(* The page of a list that finds rows is not empty, and it has a last row,   *)
(* which the cursor becomes.                                                 *)
LEMMA PageHasLast ==
    ASSUME lsRows \subseteq AllRows, IsFiniteSet(lsRows), Found # {}
    PROVE  \E r \in Page : \A x \in Page : x = r \/ Precedes(x, r)
<1>0. Page \subseteq Found /\ Found \subseteq AllRows
  BY DEF Page, Found
<1>1. Page # {}
  <2> DEFINE T == {Cardinality(Before(r)) : r \in Found}
  <2>1. T \in SUBSET Nat /\ T # {}
    BY BeforeGrows
  <2>2. PICK m \in T : \A n \in T : m <= n
    BY <2>1, LeastNatural
  <2>3. PICK r \in Found : m = Cardinality(Before(r))
    OBVIOUS
  <2>4. ASSUME NEW x \in Before(r) PROVE FALSE
    <3>1. x \in Found /\ Precedes(x, r)
      BY <2>4 DEF Before
    <3>2. Cardinality(Before(x)) < m /\ Cardinality(Before(x)) \in T
      BY <2>3, <3>1, BeforeGrows
    <3> QED
      BY <2>1, <2>2, <3>2
  <2>5. Cardinality(Before(r)) = 0
    BY <2>4, FS_EmptySet
  <2> QED
    BY <2>5, ListingAssumption DEF Page
<1>2. \A r \in Page : PageLimit - Cardinality(Before(r)) \in Nat
  BY BeforeGrows, <1>0, ListingAssumption DEF Page
<1> DEFINE U == {PageLimit - Cardinality(Before(r)) : r \in Page}
<1>3. U \in SUBSET Nat /\ U # {}
  BY <1>1, <1>2
<1>4. PICK m \in U : \A n \in U : m <= n
  BY <1>3, LeastNatural
<1>5. PICK r \in Page : m = PageLimit - Cardinality(Before(r))
  OBVIOUS
<1>6. ASSUME NEW x \in Page, Precedes(r, x) PROVE FALSE
  <2>1. Cardinality(Before(r)) < Cardinality(Before(x))
    BY <1>0, <1>6, BeforeGrows
  <2>2. m <= PageLimit - Cardinality(Before(x))
    BY <1>4
  <2> QED
    BY <1>0, <1>5, <2>1, <2>2, BeforeGrows, ListingAssumption
<1> QED
  BY <1>0, <1>6, RowOrder

(* A page without a next one is all the rows found.                          *)
LEMMA LastPageIsWhole ==
    ASSUME lsRows \subseteq AllRows, IsFiniteSet(lsRows), NEW list, ~ HasMore(list)
    PROVE  Page = Found
<1>1. IsFiniteSet(Found) /\ Cardinality(Found) \in Nat
  BY BeforeGrows, FS_CardinalityType
<1>2. Cardinality(Found) <= PageLimit
  BY <1>1, ListingAssumption DEF HasMore
<1>3. ASSUME NEW r \in Found PROVE Cardinality(Before(r)) < PageLimit
  <2>1. Before(r) \subseteq Found \ {r}
    BY RowOrder DEF Before, Found
  <2>2. IsFiniteSet(Found \ {r}) /\ Cardinality(Found \ {r}) = Cardinality(Found) - 1
    BY <1>1, FS_RemoveElement
  <2>3. Cardinality(Before(r)) <= Cardinality(Found \ {r})
    BY <2>1, <2>2, FS_Subset
  <2> QED
    BY <1>1, <1>2, <2>2, <2>3, BeforeGrows, ListingAssumption
<1> QED
  BY <1>3 DEF Page

-----------------------------------------------------------------------------
(* What a walk keeps: what was returned lies at or before the cursor, and    *)
(* every row that stays and was not returned lies behind it.                 *)
WalkInv ==
    /\ lsRows \subseteq AllRows /\ IsFiniteSet(lsRows)
    /\ lsAfter \subseteq AllRows
    /\ lsAll \subseteq lsRows
    /\ lsGiven \in [AllRows -> {0, 1}]
    /\ lsWalk \in {"idle", "walking", "done"}
    /\ lsWalk = "idle" => lsAfter = {} /\ \A r \in AllRows : lsGiven[r] = 0
    /\ lsWalk = "walking" =>
         /\ \A r \in AllRows : lsGiven[r] = 1 => \E c \in lsAfter : ~ AfterPair(r, c)
         /\ \A r \in lsAll \ lsGone : lsGiven[r] = 0 => \A c \in lsAfter : AfterPair(r, c)
    /\ lsWalk = "done" => \A r \in lsAll \ lsGone : lsGiven[r] = 1

(* A page keeps it, whether it moves the cursor or ends the walk.            *)
LEMMA PageInductive ==
    ASSUME WalkInv, NEW list, ListPage(list)
    PROVE  WalkInv'
<1>1. /\ lsRows \subseteq AllRows /\ IsFiniteSet(lsRows) /\ lsAfter \subseteq AllRows
      /\ lsAll \subseteq lsRows /\ lsGiven \in [AllRows -> {0, 1}] /\ lsWalk = "walking"
      /\ \A r \in AllRows : lsGiven[r] = 1 => \E c \in lsAfter : ~ AfterPair(r, c)
      /\ \A r \in lsAll \ lsGone : lsGiven[r] = 0 => \A c \in lsAfter : AfterPair(r, c)
  BY DEF WalkInv, ListPage
<1>2. /\ UNCHANGED <<lsRows, lsGone, lsList, lsAll>>
      /\ lsGiven' = [r \in AllRows |-> IF r \in Page THEN lsGiven[r] + 1 ELSE lsGiven[r]]
  BY DEF ListPage
<1>3. Page \subseteq Found /\ Found \subseteq AllRows /\ Found \subseteq lsRows \ lsGone
  BY <1>1 DEF Page, Found
<1>4. \A r \in Page : lsGiven[r] = 0
  BY <1>1, <1>3 DEF Found
<1>5. /\ lsGiven' \in [AllRows -> {0, 1}]
      /\ \A r \in AllRows : lsGiven'[r] = 1 <=> (r \in Page \/ lsGiven[r] = 1)
  BY <1>1, <1>2, <1>4
<1>6. \A r \in lsAll \ lsGone : r \in Found \/ lsGiven[r] = 1
  BY <1>1 DEF Found
<1>7. \A r, c \in AllRows : AfterPair(r, c)' <=> AfterPair(r, c)
  BY <1>2 DEF AfterPair
<1>8. CASE HasMore(list)
  <2> DEFINE l == CHOOSE r \in Page : \A x \in Page : x = r \/ Precedes(x, r)
  <2>1. lsAfter' = {l} /\ lsWalk' = "walking"
    BY <1>1, <1>8 DEF ListPage
  <2>2. Found # {}
    BY <1>8, FS_EmptySet, ListingAssumption DEF HasMore
  <2>3. l \in Page /\ \A x \in Page : x = l \/ Precedes(x, l)
    BY <1>1, <2>2, PageHasLast
  <2> HIDE DEF l
  <2>4. l \in AllRows /\ \A c \in lsAfter : AfterPair(l, c)
    BY <1>3, <2>3 DEF Page, Found
  <2>5. ASSUME NEW r \in AllRows, lsGiven'[r] = 1 PROVE ~ AfterPair(r, l)
    <3>1. CASE r \in Page
      BY <2>3, <2>4, <3>1, RowOrder
    <3>2. CASE lsGiven[r] = 1
      <4>1. PICK c \in lsAfter : ~ AfterPair(r, c)
        BY <1>1, <3>2
      <4>2. Precedes(c, l) /\ ~ Precedes(c, r) /\ c \in AllRows
        BY <1>1, <2>4, <4>1, RowOrder
      <4> QED
        BY <2>4, <4>2, RowOrder
    <3> QED
      BY <1>5, <2>5, <3>1, <3>2
  <2>6. ASSUME NEW r \in lsAll \ lsGone, lsGiven'[r] = 0 PROVE AfterPair(r, l)
    <3>1. r \in AllRows /\ r \notin Page /\ r \in Found
      BY <1>1, <1>5, <1>6, <2>6
    <3>2. Cardinality(Before(r)) >= PageLimit
      BY <1>1, <3>1, BeforeGrows, ListingAssumption DEF Page
    <3>3. l \in Found /\ Cardinality(Before(l)) < PageLimit
      BY <2>3 DEF Page
    <3>4. ~ Precedes(r, l)
      BY <1>1, <3>1, <3>2, <3>3, BeforeGrows, ListingAssumption
    <3> QED
      BY <2>3, <2>4, <3>1, <3>4, RowOrder
  <2> QED
    BY <1>1, <1>2, <1>5, <1>7, <2>1, <2>4, <2>5, <2>6 DEF WalkInv
<1>9. CASE ~ HasMore(list)
  <2>1. lsWalk' = "done" /\ lsAfter' = lsAfter
    BY <1>9 DEF ListPage
  <2>2. Page = Found
    BY <1>1, <1>9, LastPageIsWhole
  <2>3. \A r \in lsAll \ lsGone : lsGiven'[r] = 1
    BY <1>1, <1>5, <1>6, <2>2
  <2> QED
    BY <1>1, <1>2, <1>5, <2>1, <2>3 DEF WalkInv
<1> QED
  BY <1>8, <1>9

(* list_jobs, list_runs, list_artifact_refs, list_automations,               *)
(* list_automation_history, list_profile_history: whatever is inserted or    *)
(* taken away during the walk, no row is returned twice and every row that   *)
(* was there throughout is returned.                                         *)
THEOREM WalksComplete == LsSpec => []WalkComplete
<1>1. LsInit => WalkInv
  BY FS_EmptySet DEF LsInit, WalkInv
<1>2. WalkInv /\ [LsNext]_lsVars => WalkInv'
  <2> SUFFICES ASSUME WalkInv, [LsNext]_lsVars PROVE WalkInv'
    OBVIOUS
  <2>1. ASSUME NEW r \in AllRows, InsertRow(r) PROVE WalkInv'
    <3>1. IsFiniteSet(lsRows')
      BY <2>1, FS_AddElement DEF InsertRow, WalkInv
    <3> QED
      BY <2>1, <3>1 DEF InsertRow, WalkInv, AfterPair
  <2>2. ASSUME NEW r \in lsRows, LeaveList(r) PROVE WalkInv'
    BY <2>2 DEF LeaveList, WalkInv, AfterPair
  <2>3. ASSUME BeginWalk PROVE WalkInv'
    BY <2>3 DEF BeginWalk, WalkInv
  <2>4. ASSUME UNCHANGED lsVars PROVE WalkInv'
    BY <2>4 DEF lsVars, WalkInv, AfterPair
  <2> QED
    BY <2>1, <2>2, <2>3, <2>4, PageInductive
    DEF LsNext, ListJobs, ListRuns, ListArtifactRefs, ListAutomations, ListAutomationHistory,
        ListProfileEntries
<1>3. WalkInv => WalkComplete
  BY DEF WalkInv, WalkComplete
<1> QED
  BY <1>1, <1>2, <1>3, PTL DEF LsSpec

-----------------------------------------------------------------------------
(* Pages of numbered rows: the first limit numbers of a finite set.          *)
FirstOf(S, limit) == {n \in S : Cardinality({x \in S : x < n}) < limit}

(* Between two numbers of a finite set the larger one has more below it.     *)
LEMMA BelowGrows ==
    ASSUME NEW S \in SUBSET Nat, IsFiniteSet(S)
    PROVE  /\ \A n \in S : Cardinality({x \in S : x < n}) \in Nat
           /\ \A m, n \in S : m < n => Cardinality({x \in S : x < m}) < Cardinality({x \in S : x < n})
<1>0. \A n \in S : n \in Nat
  OBVIOUS
<1>1. ASSUME NEW n \in S PROVE IsFiniteSet({x \in S : x < n}) /\ Cardinality({x \in S : x < n}) \in Nat
  BY FS_Subset, FS_CardinalityType
<1>2. ASSUME NEW m \in S, NEW n \in S, m < n
      PROVE  Cardinality({x \in S : x < m}) < Cardinality({x \in S : x < n})
  <2> DEFINE M == {x \in S : x < m}
             N == {x \in S : x < n}
  <2>0. m \in Nat /\ n \in Nat
    BY <1>0
  <2>9. ASSUME NEW x \in M PROVE x \in N
    <3>1. x \in S /\ x \in Nat /\ x < m
      BY <1>0, <2>9
    <3> QED
      BY <1>2, <2>0, <3>1
  <2>1. M \subseteq N /\ m \in N /\ m \notin M
    <3>1. ~ (m < m)
      BY <2>0
    <3>2. M \subseteq N
      BY <2>9
    <3> QED
      BY <1>2, <3>1, <3>2
  <2>2. IsFiniteSet(N) /\ Cardinality(M) \in Nat /\ Cardinality(N) \in Nat
    BY <1>1
  <2> HIDE DEF M, N
  <2>3. Cardinality(M) <= Cardinality(N) /\ (Cardinality(M) = Cardinality(N) => N = M)
    BY <2>1, <2>2, FS_Subset
  <2>4. Cardinality(M) < Cardinality(N)
    BY <2>1, <2>2, <2>3
  <2> QED
    BY <2>4 DEF M, N
<1> QED
  BY <1>1, <1>2

(* The first numbers of a set that is not empty have a largest one; every    *)
(* number left out is larger; and nothing is left out of a small set.        *)
LEMMA FirstOfIsPrefix ==
    ASSUME NEW S \in SUBSET Nat, IsFiniteSet(S), NEW limit \in Nat \ {0}
    PROVE  /\ S # {} => \E n \in FirstOf(S, limit) : \A x \in FirstOf(S, limit) : x <= n
           /\ \A n \in FirstOf(S, limit), x \in S \ FirstOf(S, limit) : n < x
           /\ Cardinality(S) <= limit => FirstOf(S, limit) = S
<1> DEFINE Below(n) == Cardinality({x \in S : x < n})
<1>0. \A n \in S : n \in Nat
  OBVIOUS
<1>1. /\ \A n \in S : Below(n) \in Nat
      /\ \A m, n \in S : m < n => Below(m) < Below(n)
  BY BelowGrows
<1>2. FirstOf(S, limit) = {n \in S : Below(n) < limit}
  BY DEF FirstOf
<1>3. Cardinality(S) <= limit => FirstOf(S, limit) = S
  <2> SUFFICES ASSUME Cardinality(S) <= limit, NEW n \in S PROVE Below(n) < limit
    BY <1>2
  <2>1. {x \in S : x < n} \subseteq S \ {n}
    OBVIOUS
  <2>2. IsFiniteSet(S \ {n}) /\ Cardinality(S \ {n}) = Cardinality(S) - 1 /\ Cardinality(S) \in Nat
    BY FS_RemoveElement, FS_CardinalityType
  <2>3. Below(n) <= Cardinality(S \ {n})
    BY <2>1, <2>2, FS_Subset
  <2> QED
    BY <1>1, <2>2, <2>3
<1> HIDE DEF Below
<1>4. ASSUME NEW n \in FirstOf(S, limit), NEW x \in S \ FirstOf(S, limit) PROVE n < x
  <2>1. n \in S /\ x \in S /\ Below(n) < limit /\ ~ (Below(x) < limit)
    BY <1>2
  <2>2. n \in Nat /\ x \in Nat /\ Below(n) \in Nat /\ Below(x) \in Nat
    BY <1>0, <1>1, <2>1
  <2>3. x < n => Below(x) < Below(n)
    BY <1>1, <2>1
  <2>4. x # n
    BY <2>1
  <2> QED
    BY <2>1, <2>2, <2>3, <2>4
<1>5. ASSUME S # {} PROVE \E n \in FirstOf(S, limit) : \A x \in FirstOf(S, limit) : x <= n
  <2>1. PICK s \in S : \A n \in S : s <= n
    BY <1>5, LeastNatural
  <2>2. s \in FirstOf(S, limit)
    <3>1. {x \in S : x < s} = {}
      <4> SUFFICES ASSUME NEW x \in S, x < s PROVE FALSE
        OBVIOUS
      <4>1. x \in Nat /\ s \in Nat /\ s <= x
        BY <1>0, <2>1
      <4> QED
        BY <4>1
    <3>2. Below(s) = 0
      BY <3>1, FS_EmptySet DEF Below
    <3> QED
      BY <1>2, <3>2
  <2> DEFINE U == {limit - Below(n) : n \in FirstOf(S, limit)}
  <2>3. U \in SUBSET Nat /\ U # {}
    BY <1>1, <1>2, <2>2
  <2>4. PICK u \in U : \A v \in U : u <= v
    BY <2>3, LeastNatural
  <2>5. PICK n \in FirstOf(S, limit) : u = limit - Below(n)
    OBVIOUS
  <2>6. ASSUME NEW x \in FirstOf(S, limit), ~ (x <= n) PROVE FALSE
    <3>0. n \in S /\ x \in S /\ n \in Nat /\ x \in Nat
      BY <1>0, <1>2
    <3>9. n < x
      BY <2>6, <3>0
    <3>1. Below(n) < Below(x) /\ Below(n) \in Nat /\ Below(x) \in Nat
      BY <1>1, <3>0, <3>9
    <3>2. u <= limit - Below(x)
      BY <2>4
    <3> QED
      BY <2>5, <3>1, <3>2
  <2> QED
    BY <2>6
<1> QED
  BY <1>3, <1>4, <1>5

-----------------------------------------------------------------------------
AuditRow == [event : AuEvents, key : {{}} \cup {{k} : k \in AuKeys}, body : AuBodies,
             sequence : Nat, expired : BOOLEAN]
Sequences1ToN == {r.sequence : r \in auRows} = 1..Cardinality(auRows)
OneRowEach == \A r, s \in auRows : (r.event = s.event \/ (r.key # {} /\ r.key = s.key)) => r = s
AnswersKept ==
    \A d \in Drafts : auAnswer[d] # 0 =>
      \E r \in auRows : r.sequence = auAnswer[d] /\ r.event = d.event /\ r.body = d.body

(* What the walk of query keeps: an event that was there when it began was   *)
(* given, has expired, or lies behind the cursor.                            *)
AuditWalk ==
    /\ auWalk \in {"idle", "walking", "done"} /\ auCursor \in Nat
    /\ auAll \subseteq 1..Cardinality(auRows)
    /\ auWalk = "idle" => auCursor = 0
    /\ auWalk = "walking" =>
         \A r \in auRows : r.sequence \in auAll =>
           r.expired \/ r.sequence \in auGiven \/ r.sequence > auCursor
    /\ auWalk = "done" =>
         \A r \in auRows : r.sequence \in auAll => r.expired \/ r.sequence \in auGiven
AuditInv ==
    /\ auRows \subseteq AuditRow /\ IsFiniteSet(auRows) /\ auAnswer \in [Drafts -> Nat]
    /\ Sequences1ToN /\ OneRowEach /\ AnswersKept /\ AuditWalk

(* COALESCE(MAX(sequence), 0) + 1 is the number after the last.              *)
LEMMA NextIsAfterLast ==
    ASSUME AuditInv
    PROVE  Cardinality(auRows) \in Nat /\ NextSequence = Cardinality(auRows) + 1
<1>1. Cardinality(auRows) \in Nat
  BY FS_CardinalityType DEF AuditInv
<1>2. CASE auRows = {}
  BY <1>2, FS_EmptySet DEF NextSequence
<1>3. CASE auRows # {}
  <2> DEFINE n == Cardinality(auRows)
             Numbers == {r.sequence : r \in auRows}
  <2>1. n # 0
    BY <1>3, FS_EmptySet DEF AuditInv
  <2>2. Numbers = 1..n
    BY DEF AuditInv, Sequences1ToN
  <2>3. n \in Nat
    BY <1>1
  <2>4. \A r \in auRows : r.sequence \in Numbers
    OBVIOUS
  <2>5. \A m \in Numbers : \E r \in auRows : r.sequence = m
    OBVIOUS
  <2> DEFINE top == CHOOSE m \in Numbers : \A r \in auRows : r.sequence <= m
  <2>6. NextSequence = 1 + top
    BY <1>3 DEF NextSequence
  <2> HIDE DEF n, Numbers
  <2>7. n \in Numbers /\ \A r \in auRows : r.sequence <= n
    BY <2>1, <2>2, <2>3, <2>4
  <2>8. ASSUME NEW m \in Numbers, \A r \in auRows : r.sequence <= m PROVE m = n
    <3>1. n <= m
      BY <2>5, <2>7, <2>8
    <3> QED
      BY <2>2, <2>3, <3>1
  <2>9. top = n
    BY <2>7, <2>8
  <2> HIDE DEF top
  <2>10. NextSequence = n + 1
    BY <2>3, <2>6, <2>9
  <2> QED
    BY <2>3, <2>10 DEF n
<1> QED
  BY <1>1, <1>2, <1>3

(* An append of a new event takes the next number.                           *)
LEMMA InsertKeepsAudit ==
    ASSUME AuditInv, NEW d \in Drafts, InsertAudit(d)
    PROVE  AuditInv'
<1> DEFINE n == Cardinality(auRows)
           new == [event |-> d.event, key |-> d.key, body |-> d.body, sequence |-> NextSequence,
                   expired |-> FALSE]
<1>1. n \in Nat /\ NextSequence = n + 1
  BY NextIsAfterLast
<1>2. d.event \in AuEvents /\ d.key \in {{}} \cup {{k} : k \in AuKeys} /\ d.body \in AuBodies
  BY DEF Drafts
<1>3. /\ new \in AuditRow /\ new.event = d.event /\ new.key = d.key /\ new.body = d.body
      /\ new.sequence = n + 1 /\ new.expired = FALSE
  BY <1>1, <1>2 DEF AuditRow
<1>4. auRows' = auRows \cup {new} /\ UNCHANGED <<auCursor, auWalk, auAll, auGiven>>
  BY DEF InsertAudit
<1>5. \A r \in auRows : r.event # d.event /\ (d.key # {} => r.key # d.key)
  BY DEF InsertAudit, SameEvent
<1>6. auAnswer' = [auAnswer EXCEPT ![d] = IF @ = 0 THEN n + 1 ELSE @]
  BY <1>1 DEF InsertAudit
<1> HIDE DEF new
<1>7. new \notin auRows
  BY <1>3, <1>5
<1>8. IsFiniteSet(auRows') /\ Cardinality(auRows') = n + 1
  BY <1>4, <1>7, FS_AddElement DEF AuditInv
<1>9. {r.sequence : r \in auRows} = 1..n
  BY DEF AuditInv, Sequences1ToN
<1> HIDE DEF n
<1>10. Sequences1ToN'
  <2>1. {r.sequence : r \in auRows'} = {r.sequence : r \in auRows} \cup {n + 1}
    BY <1>3, <1>4
  <2>2. 1..(n + 1) = 1..n \cup {n + 1}
    BY <1>1
  <2> QED
    BY <1>8, <1>9, <2>1, <2>2 DEF Sequences1ToN
<1>11. OneRowEach'
  BY <1>3, <1>4, <1>5 DEF AuditInv, OneRowEach
<1>12. AnswersKept'
  <2> SUFFICES ASSUME NEW e \in Drafts, auAnswer'[e] # 0
               PROVE  \E r \in auRows' : r.sequence = auAnswer'[e] /\ r.event = e.event /\ r.body = e.body
    BY DEF AnswersKept
  <2>1. CASE auAnswer'[e] = auAnswer[e]
    BY <1>4, <2>1 DEF AuditInv, AnswersKept
  <2>2. CASE auAnswer'[e] # auAnswer[e]
    <3>1. e = d /\ auAnswer'[e] = n + 1
      BY <1>6, <2>2 DEF AuditInv
    <3> QED
      BY <1>3, <1>4, <3>1
  <2> QED
    BY <2>1, <2>2
<1>13. AuditWalk'
  <2>1. auAll \subseteq 1..n /\ n + 1 \notin auAll
    BY <1>1 DEF AuditInv, AuditWalk, n
  <2>2. auAll' \subseteq 1..Cardinality(auRows')
    BY <1>1, <1>4, <1>8, <2>1
  <2>3. new.sequence \notin auAll'
    BY <1>3, <1>4, <2>1
  <2> QED
    BY <1>4, <2>2, <2>3 DEF AuditInv, AuditWalk
<1>14. auAnswer' \in [Drafts -> Nat]
  BY <1>1, <1>6 DEF AuditInv
<1> QED
  BY <1>3, <1>4, <1>8, <1>10, <1>11, <1>12, <1>13, <1>14 DEF AuditInv

(* expire keeps the row, its number and its content.                         *)
LEMMA ExpireKeepsAudit ==
    ASSUME AuditInv, NEW r \in auRows, ExpireAudit(r)
    PROVE  AuditInv'
<1> DEFINE x == [r EXCEPT !.expired = TRUE]
<1>1. /\ x \in AuditRow /\ x.event = r.event /\ x.key = r.key /\ x.body = r.body
      /\ x.sequence = r.sequence /\ x.expired = TRUE
  BY DEF AuditInv, AuditRow
<1>2. /\ auRows' = (auRows \ {r}) \cup {x}
      /\ UNCHANGED <<auAnswer, auCursor, auWalk, auAll, auGiven>>
  BY DEF ExpireAudit
<1> HIDE DEF x
<1>3. x \notin auRows \ {r}
  BY <1>1 DEF AuditInv, OneRowEach
<1>4. IsFiniteSet(auRows') /\ Cardinality(auRows') = Cardinality(auRows)
  <2>1. IsFiniteSet(auRows \ {r}) /\ Cardinality(auRows \ {r}) = Cardinality(auRows) - 1
    BY FS_RemoveElement DEF AuditInv
  <2> QED
    BY <1>2, <1>3, <2>1, FS_AddElement, NextIsAfterLast
<1>5. {y.sequence : y \in auRows'} = {y.sequence : y \in auRows}
  BY <1>1, <1>2
<1>6. OneRowEach'
  BY <1>1, <1>2 DEF AuditInv, OneRowEach
<1>7. AnswersKept'
  BY <1>1, <1>2 DEF AuditInv, AnswersKept
<1>8. AuditWalk'
  BY <1>1, <1>2, <1>4 DEF AuditInv, AuditWalk
<1> QED
  BY <1>1, <1>2, <1>4, <1>5, <1>6, <1>7, <1>8 DEF AuditInv, Sequences1ToN

(* A page of query moves the cursor to its last number, or ends the walk.    *)
LEMMA QueryKeepsAudit ==
    ASSUME AuditInv, QueryAudit
    PROVE  AuditInv'
<1> DEFINE found == {r.sequence : r \in {x \in auRows : ~ x.expired /\ x.sequence > auCursor}}
           page == FirstOf(found, AuditPage)
<1>1. /\ auWalk = "walking" /\ auGiven' = auGiven \cup page
      /\ UNCHANGED <<auRows, auAnswer, auAll>>
      /\ IF Cardinality(found) > AuditPage
         THEN auCursor' = (CHOOSE n \in page : \A x \in page : x <= n) /\ auWalk' = auWalk
         ELSE auWalk' = "done" /\ auCursor' = auCursor
  BY DEF QueryAudit, FirstOf
<1>2. found \subseteq {r.sequence : r \in auRows}
  OBVIOUS
<1>3. found \in SUBSET Nat /\ IsFiniteSet(found)
  <2>1. {r.sequence : r \in auRows} = 1..Cardinality(auRows)
    BY DEF AuditInv, Sequences1ToN
  <2>2. IsFiniteSet(1..Cardinality(auRows)) /\ 1..Cardinality(auRows) \subseteq Nat
    BY NextIsAfterLast, FS_Interval
  <2> QED
    BY <1>2, <2>1, <2>2, FS_Subset
<1>4. \A r \in auRows : ~ r.expired /\ r.sequence > auCursor => r.sequence \in found
  OBVIOUS
<1>5. AuditPage \in Nat \ {0}
  BY AuditAssumption
<1> HIDE DEF found
<1>6. CASE Cardinality(found) > AuditPage
  <2>1. found # {}
    BY <1>5, <1>6, FS_EmptySet
  <2> DEFINE n == CHOOSE n \in page : \A x \in page : x <= n
  <2>2. n \in page /\ n \in Nat
    BY <1>3, <1>5, <2>1, FirstOfIsPrefix DEF FirstOf
  <2> HIDE DEF n
  <2>3. \A x \in found \ page : n < x
    BY <1>3, <1>5, <2>2, FirstOfIsPrefix
  <2>4. \A r \in auRows : r.sequence \in auAll => r.expired \/ r.sequence \in auGiven' \/ r.sequence > n
    <3> SUFFICES ASSUME NEW r \in auRows, r.sequence \in auAll, ~ r.expired,
                        r.sequence \notin auGiven, r.sequence \notin page
                 PROVE  r.sequence > n
      BY <1>1
    <3>1. r.sequence \in found
      BY <1>1, <1>4 DEF AuditInv, AuditWalk
    <3> QED
      BY <1>3, <2>2, <2>3, <3>1
  <2>5. auCursor' = n /\ auWalk' = "walking"
    BY <1>1, <1>6 DEF n
  <2>6. AuditWalk'
    BY <1>1, <2>2, <2>4, <2>5 DEF AuditInv, AuditWalk
  <2> QED
    BY <1>1, <2>6 DEF AuditInv, Sequences1ToN, OneRowEach, AnswersKept
<1>7. CASE ~ (Cardinality(found) > AuditPage)
  <2>1. page = found
    <3>1. Cardinality(found) \in Nat
      BY <1>3, FS_CardinalityType
    <3>2. Cardinality(found) <= AuditPage
      BY <1>5, <1>7, <3>1
    <3> QED
      BY <1>3, <1>5, <3>2, FirstOfIsPrefix
  <2>2. \A r \in auRows : r.sequence \in auAll => r.expired \/ r.sequence \in auGiven'
    BY <1>1, <1>4, <2>1 DEF AuditInv, AuditWalk
  <2>3. auWalk' = "done" /\ auCursor' = auCursor
    BY <1>1, <1>7
  <2>4. AuditWalk'
    BY <1>1, <2>2, <2>3 DEF AuditInv, AuditWalk
  <2> QED
    BY <1>1, <2>4 DEF AuditInv, Sequences1ToN, OneRowEach, AnswersKept
<1> QED
  BY <1>6, <1>7

(* append, expire, query: for any drafts, retries and page limit an event    *)
(* has one row with the content accepted and the sequence first answered,    *)
(* sequences run from 1 without a gap through every expiry, and a finished   *)
(* walk has returned every event that was there throughout.                  *)
THEOREM AuditTrailKept == AuSpec => []AuditTrail
<1>1. AuInit => AuditInv
  <2> SUFFICES ASSUME AuInit PROVE AuditInv
    OBVIOUS
  <2>1. IsFiniteSet(auRows) /\ Cardinality(auRows) = 0 /\ 1..0 = {}
    BY FS_EmptySet DEF AuInit
  <2> QED
    BY <2>1 DEF AuInit, AuditInv, Sequences1ToN, OneRowEach, AnswersKept, AuditWalk
<1>2. AuditInv /\ [AuNext]_auVars => AuditInv'
  <2> SUFFICES ASSUME AuditInv, [AuNext]_auVars PROVE AuditInv'
    OBVIOUS
  <2>1. ASSUME NEW d \in Drafts, AppendAudit(d) \/ AppendMaintenanceAudit(d) PROVE AuditInv'
    <3>1. CASE InsertAudit(d)
      BY <3>1, InsertKeepsAudit
    <3>2. ASSUME NEW r \in SameEvent(d), r.event = d.event, r.body = d.body,
                 auAnswer' = [auAnswer EXCEPT ![d] = IF @ = 0 THEN r.sequence ELSE @],
                 UNCHANGED <<auRows, auCursor, auWalk, auAll, auGiven>>
          PROVE  AuditInv'
      <4>1. r \in auRows /\ r.sequence \in Nat
        BY DEF SameEvent, AuditInv, AuditRow
      <4>2. auAnswer' \in [Drafts -> Nat]
        BY <3>2, <4>1 DEF AuditInv
      <4>3. AnswersKept'
        BY <3>2, <4>1 DEF AuditInv, AnswersKept
      <4> QED
        BY <3>2, <4>2, <4>3 DEF AuditInv, Sequences1ToN, OneRowEach, AuditWalk
    <3> QED
      BY <2>1, <3>1, <3>2 DEF AppendAudit, AppendMaintenanceAudit
  <2>2. ASSUME NEW r \in auRows, ExpireAudit(r) PROVE AuditInv'
    BY <2>2, ExpireKeepsAudit
  <2>3. ASSUME BeginAuditWalk PROVE AuditInv'
    <3>1. auAll' \subseteq 1..Cardinality(auRows)
      BY <2>3 DEF BeginAuditWalk, AuditInv, Sequences1ToN
    <3>2. \A r \in auRows : r.sequence \in Nat /\ r.sequence \in 1..Cardinality(auRows)
      BY DEF AuditInv, Sequences1ToN, AuditRow
    <3>3. \A r \in auRows : r.sequence > 0
      BY <3>2, NextIsAfterLast
    <3> QED
      BY <2>3, <3>1, <3>3
      DEF BeginAuditWalk, AuditInv, Sequences1ToN, OneRowEach, AnswersKept, AuditWalk
  <2>4. ASSUME UNCHANGED auVars PROVE AuditInv'
    BY <2>4 DEF auVars, AuditInv, Sequences1ToN, OneRowEach, AnswersKept, AuditWalk
  <2> QED
    BY <2>1, <2>2, <2>3, <2>4, QueryKeepsAudit DEF AuNext
<1>3. AuditInv => AuditTrail
  BY DEF AuditInv, Sequences1ToN, OneRowEach, AnswersKept, AuditWalk, AuditTrail
<1> QED
  BY <1>1, <1>2, <1>3, PTL DEF AuSpec

-----------------------------------------------------------------------------
(* s holds the numbers after n, in order and without a gap.                  *)
RunFrom(s, n) == s \in Seq(Nat) /\ \A i \in 1..Len(s) : s[i] = n + i

LEMMA RunTail ==
    ASSUME NEW s, NEW n \in Nat, RunFrom(s, n), s # <<>>
    PROVE  Head(s) = n + 1 /\ RunFrom(Tail(s), n + 1) /\ Len(Tail(s)) = Len(s) - 1 /\ Len(s) \in Nat \ {0}
<1>1. s \in Seq(Nat) /\ \A i \in 1..Len(s) : s[i] = n + i
  BY DEF RunFrom
<1>2. Len(s) \in Nat \ {0} /\ Head(s) = s[1]
  BY <1>1, EmptySeq
<1>3. /\ Tail(s) \in Seq(Nat) /\ Len(Tail(s)) = Len(s) - 1
      /\ \A i \in 1..Len(Tail(s)) : Tail(s)[i] = s[i + 1]
  BY <1>1, HeadTailProperties
<1>4. ASSUME NEW i \in 1..Len(Tail(s)) PROVE Tail(s)[i] = n + 1 + i
  <2>1. i \in Nat /\ i + 1 \in 1..Len(s)
    BY <1>2, <1>3
  <2> QED
    BY <1>1, <1>3, <2>1
<1>5. Head(s) = n + 1
  BY <1>1, <1>2
<1> QED
  BY <1>2, <1>3, <1>4, <1>5 DEF RunFrom

LEMMA RunAppend ==
    ASSUME NEW s, NEW n \in Nat, RunFrom(s, n)
    PROVE  /\ Len(s) \in Nat /\ Len(Append(s, n + Len(s) + 1)) = Len(s) + 1
           /\ RunFrom(Append(s, n + Len(s) + 1), n)
<1> DEFINE e == n + Len(s) + 1
           t == Append(s, e)
<1>1. s \in Seq(Nat) /\ Len(s) \in Nat /\ e \in Nat
  BY DEF RunFrom
<1>2. /\ t \in Seq(Nat) /\ Len(t) = Len(s) + 1
      /\ \A i \in 1..Len(s) : t[i] = s[i]
      /\ t[Len(s) + 1] = e
  BY <1>1, AppendProperties
<1> HIDE DEF t
<1>3. ASSUME NEW i \in 1..Len(t) PROVE t[i] = n + i
  <2>1. CASE i = Len(s) + 1
    BY <1>1, <1>2, <2>1
  <2>2. CASE i # Len(s) + 1
    <3>1. i \in 1..Len(s)
      BY <1>1, <1>2, <2>2
    <3> QED
      BY <1>2, <3>1 DEF RunFrom
  <2> QED
    BY <2>1, <2>2
<1>4. RunFrom(t, n)
  BY <1>2, <1>3 DEF RunFrom
<1> QED
  BY <1>1, <1>2, <1>4 DEF t

LEMMA RunConcat ==
    ASSUME NEW s, NEW t, NEW n \in Nat, RunFrom(s, n), RunFrom(t, n + Len(s))
    PROVE  RunFrom(s \o t, n)
<1>1. s \in Seq(Nat) /\ t \in Seq(Nat) /\ Len(s) \in Nat /\ Len(t) \in Nat
  BY DEF RunFrom
<1>2. /\ s \o t \in Seq(Nat) /\ Len(s \o t) = Len(s) + Len(t)
      /\ \A i \in 1..Len(s) + Len(t) : (s \o t)[i] = IF i <= Len(s) THEN s[i] ELSE t[i - Len(s)]
  BY <1>1, ConcatProperties
<1>3. ASSUME NEW i \in 1..Len(s \o t) PROVE (s \o t)[i] = n + i
  <2>0. i \in 1..Len(s) + Len(t) /\ i \in Nat
    BY <1>1, <1>2
  <2>1. CASE i <= Len(s)
    <3>1. i \in 1..Len(s) /\ (s \o t)[i] = s[i]
      BY <1>1, <1>2, <2>0, <2>1
    <3> QED
      BY <3>1 DEF RunFrom
  <2>2. CASE ~ (i <= Len(s))
    <3>1. i - Len(s) \in 1..Len(t) /\ (s \o t)[i] = t[i - Len(s)]
      BY <1>1, <1>2, <2>0, <2>2
    <3>2. t[i - Len(s)] = (n + Len(s)) + (i - Len(s))
      BY <3>1 DEF RunFrom
    <3> QED
      BY <1>1, <2>0, <3>1, <3>2
  <2> QED
    BY <2>1, <2>2
<1> QED
  BY <1>2, <1>3 DEF RunFrom

(* A run that begins at n is the function of its numbers.                    *)
LEMMA RunIs ==
    ASSUME NEW s, NEW n \in Nat, RunFrom(s, n)
    PROVE  s = [i \in DOMAIN s |-> n + i]
<1>1. DOMAIN s = 1..Len(s) /\ s \in [1..Len(s) -> Nat]
  BY LenProperties DEF RunFrom
<1> QED
  BY <1>1 DEF RunFrom

(* list_events returns the events after the cursor, and some if there are.   *)
LEMMA ListedRun ==
    ASSUME NEW after \in Nat, NEW limit \in Nat \ {0}, NEW n \in Nat, n = Len(evLog), after <= n
    PROVE  /\ RunFrom(ListEvents(after, limit), after)
           /\ Len(ListEvents(after, limit)) \in Nat /\ after + Len(ListEvents(after, limit)) <= n
<1> DEFINE found == [i \in 1..(n - after) |-> after + i]
           m == IF n - after < limit THEN n - after ELSE limit
<1>1. found \in Seq(Nat) /\ Len(found) = n - after
  <2>1. n - after \in Nat /\ found \in [1..(n - after) -> Nat]
    OBVIOUS
  <2>2. found \in Seq(Nat)
    BY <2>1, SeqDef
  <2> QED
    BY <2>1, <2>2, LenProperties
<1>2. ListEvents(after, limit) = SubSeq(found, 1, m)
  BY <1>1 DEF ListEvents
<1>3. m \in Nat /\ m <= n - after
  OBVIOUS
<1>4. \A i \in 1..m : found[i] = after + i
  BY <1>3
<1> HIDE DEF found, m
<1>5. /\ SubSeq(found, 1, m) \in Seq(Nat)
      /\ Len(SubSeq(found, 1, m)) = IF 1 <= m THEN m - 1 + 1 ELSE 0
      /\ \A i \in 1..(m - 1 + 1) : SubSeq(found, 1, m)[i] = found[1 + i - 1]
  <2>1. \A i \in 1..m : found[i] \in Nat
    BY <1>3, <1>4
  <2> QED
    BY <1>3, <2>1, SubSeqProperties
<1>6. Len(SubSeq(found, 1, m)) = m
  BY <1>3, <1>5
<1>7. ASSUME NEW i \in 1..m PROVE SubSeq(found, 1, m)[i] = after + i
  <2>1. i \in 1..(m - 1 + 1) /\ 1 + i - 1 = i
    BY <1>3
  <2> QED
    BY <1>4, <1>5, <2>1
<1>8. RunFrom(SubSeq(found, 1, m), after)
  BY <1>5, <1>6, <1>7 DEF RunFrom
<1> QED
  BY <1>2, <1>3, <1>6, <1>8

(* A frame of the stream agrees with the Job's row.                          *)
FramesAgree == \A n \in 1..Len(evLog) : FrameOk(n)

(* While a subscription is open, replay, channel and the pump's page are one *)
(* run of numbers from the client's cursor into the stream.                  *)
PipelineRuns ==
    /\ RunFrom(evReplay, evCursor)
    /\ RunFrom(evChannel, evCursor + Len(evReplay))
    /\ evPump.cursor = evCursor + Len(evReplay) + Len(evChannel)
    /\ RunFrom(evPump.page, evPump.cursor)
    /\ evPump.cursor + Len(evPump.page) <= Len(evLog)
    /\ evPump.pc = "send" => evPump.page # <<>>
StreamInv ==
    /\ evLog \in Seq({"accepted", "progress"} \cup StreamEnded) /\ FramesAgree
    /\ evJob \in {"queued"} \cup StreamEnded
    /\ evCursor \in Nat /\ evCursor <= Len(evLog)
    /\ RunFrom(evTaken, 0) /\ Len(evTaken) = evCursor
    /\ evPump \in [pc : {"none", "poll", "send", "stopped"}, cursor : Nat, page : Seq(Nat)]
    /\ evPump.pc # "none" => PipelineRuns
    /\ evError # "terminal_state_mismatch"

(* An event is appended with the Job's state, and never after a terminal one. *)
LEMMA AppendKeepsStream ==
    ASSUME StreamInv, NEW type \in {"progress"} \cup StreamEnded, AppendEvent(type)
    PROVE  StreamInv'
<1> DEFINE Types == {"accepted", "progress"} \cup StreamEnded
<1>1. evLog \in Seq(Types) /\ type \in Types /\ Len(evLog) \in Nat
  BY DEF StreamInv
<1>2. /\ evLog' = Append(evLog, type) /\ evJob \notin StreamEnded
      /\ evJob' = IF type \in StreamEnded THEN type ELSE evJob
      /\ UNCHANGED <<evReplay, evChannel, evPump, evError, evCursor, evTaken, evOpened>>
  BY DEF AppendEvent
<1>3. /\ evLog' \in Seq(Types) /\ Len(evLog') = Len(evLog) + 1
      /\ \A n \in 1..Len(evLog) : evLog'[n] = evLog[n]
      /\ evLog'[Len(evLog) + 1] = type
  BY <1>1, <1>2, AppendProperties
<1>4. \A n \in 1..Len(evLog) : evLog[n] \notin StreamEnded
  BY <1>2 DEF StreamInv, FramesAgree, FrameOk
<1>5. FramesAgree'
  <2> SUFFICES ASSUME NEW n \in 1..Len(evLog'), evLog'[n] \in StreamEnded PROVE evJob' = evLog'[n]
    BY DEF FramesAgree, FrameOk
  <2>1. n = Len(evLog) + 1
    BY <1>1, <1>3, <1>4
  <2> QED
    BY <1>2, <1>3, <2>1
<1>6. evCursor' <= Len(evLog') /\ (evPump'.pc # "none" => PipelineRuns')
  <2>1. evCursor \in Nat /\ evCursor <= Len(evLog)
    BY DEF StreamInv
  <2>2. evPump.pc # "none" => evPump.cursor + Len(evPump.page) \in Nat
    BY DEF StreamInv
  <2> QED
    BY <1>1, <1>2, <1>3, <2>1, <2>2 DEF StreamInv, PipelineRuns
<1> QED
  BY <1>1, <1>2, <1>3, <1>5, <1>6 DEF StreamInv

(* A subscription starts its pump behind the page it replays.                *)
LEMMA SubscribeKeepsStream ==
    ASSUME StreamInv, Subscribe
    PROVE  StreamInv'
<1> DEFINE page == ListEvents(evCursor, ReplayLimit)
<1>1. /\ evReplay' = page /\ evChannel' = <<>> /\ evError' = "none"
      /\ evPump' = [pc |-> "poll", cursor |-> StartCursor(page), page |-> <<>>]
      /\ UNCHANGED <<evLog, evJob, evCursor, evTaken>>
  BY DEF Subscribe, Replay
<1>2. evCursor \in Nat /\ evCursor <= Len(evLog) /\ Len(evLog) \in Nat
  BY DEF StreamInv
<1>3. RunFrom(page, evCursor) /\ Len(page) \in Nat /\ evCursor + Len(page) <= Len(evLog)
  BY <1>2, ListedRun, EventStreamAssumption
<1> HIDE DEF page
<1>4. StartCursor(page) = evCursor + Len(page)
  <2>1. CASE page = <<>>
    BY <1>2, <2>1 DEF StartCursor
  <2>2. CASE page # <<>>
    <3>1. Len(page) \in 1..Len(page)
      BY <1>2, <1>3, <2>2, RunTail
    <3> QED
      BY <1>3, <2>2, <3>1 DEF StartCursor, Last, RunFrom
  <2> QED
    BY <2>1, <2>2
<1>5. RunFrom(<<>>, evCursor + Len(page)) /\ Len(<<>>) = 0 /\ <<>> \in Seq(Nat)
  BY DEF RunFrom
<1>6. /\ evPump'.pc = "poll" /\ evPump'.cursor = evCursor + Len(page) /\ evPump'.page = <<>>
      /\ evPump' \in [pc : {"none", "poll", "send", "stopped"}, cursor : Nat, page : Seq(Nat)]
  BY <1>1, <1>2, <1>3, <1>4, <1>5
<1>7. PipelineRuns'
  BY <1>1, <1>2, <1>3, <1>5, <1>6 DEF PipelineRuns
<1> QED
  BY <1>1, <1>6, <1>7 DEF StreamInv, FramesAgree, FrameOk

(* The pump reads the next page behind what it has sent.                     *)
LEMMA PollKeepsStream ==
    ASSUME StreamInv, PumpPoll
    PROVE  StreamInv'
<1> DEFINE page == ListEvents(evPump.cursor, PumpPage)
<1>1. /\ evPump.pc = "poll" /\ page # <<>>
      /\ evPump' = [evPump EXCEPT !.pc = "send", !.page = page]
      /\ UNCHANGED <<evLog, evJob, evReplay, evChannel, evError, evCursor, evTaken, evOpened>>
  BY DEF PumpPoll
<1>2. /\ evPump \in [pc : {"none", "poll", "send", "stopped"}, cursor : Nat, page : Seq(Nat)]
      /\ Len(evLog) \in Nat /\ PipelineRuns
  BY <1>1 DEF StreamInv
<1>3. evPump.cursor \in Nat /\ evPump.cursor <= Len(evLog)
  BY <1>2 DEF PipelineRuns
<1>4. RunFrom(page, evPump.cursor) /\ Len(page) \in Nat /\ evPump.cursor + Len(page) <= Len(evLog)
  BY <1>2, <1>3, ListedRun, EventStreamAssumption
<1>5. page \in Seq(Nat)
  BY <1>4 DEF RunFrom
<1> HIDE DEF page
<1>6. /\ evPump'.pc = "send" /\ evPump'.cursor = evPump.cursor /\ evPump'.page = page
      /\ evPump' \in [pc : {"none", "poll", "send", "stopped"}, cursor : Nat, page : Seq(Nat)]
  BY <1>1, <1>2, <1>5
<1>7. PipelineRuns'
  BY <1>1, <1>2, <1>4, <1>6 DEF PipelineRuns
<1> QED
  BY <1>1, <1>6, <1>7 DEF StreamInv, FramesAgree, FrameOk

(* The pump sends the next number of its page, or stops as a slow consumer's. *)
LEMMA SendKeepsStream ==
    ASSUME StreamInv, PumpSend
    PROVE  StreamInv'
<1> DEFINE next == Head(evPump.page)
           rest == Tail(evPump.page)
<1>1. /\ evPump.pc = "send"
      /\ UNCHANGED <<evLog, evJob, evReplay, evCursor, evTaken, evOpened>>
      /\ IF ~ FrameOk(next) \/ Len(evChannel) = StreamBuffer
         THEN /\ evError' = IF FrameOk(next) THEN "slow_consumer" ELSE "terminal_state_mismatch"
              /\ evPump' = [evPump EXCEPT !.pc = "stopped"] /\ evChannel' = evChannel
         ELSE /\ evChannel' = Append(evChannel, next)
              /\ evPump' = [pc |-> IF rest = <<>> THEN "poll" ELSE "send", cursor |-> next, page |-> rest]
              /\ evError' = evError
  BY DEF PumpSend
<1>2. /\ evPump \in [pc : {"none", "poll", "send", "stopped"}, cursor : Nat, page : Seq(Nat)]
      /\ Len(evLog) \in Nat /\ evCursor \in Nat
      /\ RunFrom(evReplay, evCursor) /\ RunFrom(evChannel, evCursor + Len(evReplay))
      /\ evPump.cursor = evCursor + Len(evReplay) + Len(evChannel)
      /\ RunFrom(evPump.page, evPump.cursor) /\ evPump.cursor + Len(evPump.page) <= Len(evLog)
      /\ evPump.page # <<>>
  BY <1>1 DEF StreamInv, PipelineRuns
<1>3. evPump.cursor \in Nat /\ Len(evReplay) \in Nat /\ Len(evChannel) \in Nat
  BY <1>2 DEF RunFrom
<1>4. /\ next = evPump.cursor + 1 /\ RunFrom(rest, next)
      /\ Len(rest) = Len(evPump.page) - 1 /\ Len(evPump.page) \in Nat \ {0}
  BY <1>2, <1>3, RunTail
<1>5. FrameOk(next)
  <2>1. next \in 1..Len(evLog)
    BY <1>2, <1>3, <1>4
  <2> QED
    BY <2>1 DEF StreamInv, FramesAgree
<1> HIDE DEF next, rest
<1>6. CASE Len(evChannel) = StreamBuffer
  <2>1. /\ evError' = "slow_consumer" /\ evPump' = [evPump EXCEPT !.pc = "stopped"]
        /\ evChannel' = evChannel
    BY <1>1, <1>5, <1>6
  <2>2. /\ evPump'.pc = "stopped" /\ evPump'.cursor = evPump.cursor /\ evPump'.page = evPump.page
        /\ evPump' \in [pc : {"none", "poll", "send", "stopped"}, cursor : Nat, page : Seq(Nat)]
    BY <1>2, <2>1
  <2>3. PipelineRuns'
    BY <1>1, <1>2, <2>1, <2>2 DEF PipelineRuns
  <2> QED
    BY <1>1, <2>1, <2>2, <2>3 DEF StreamInv, FramesAgree, FrameOk
<1>7. CASE Len(evChannel) # StreamBuffer
  <2>1. /\ evChannel' = Append(evChannel, next) /\ evError' = evError
        /\ evPump' = [pc |-> IF rest = <<>> THEN "poll" ELSE "send", cursor |-> next, page |-> rest]
    BY <1>1, <1>5, <1>7
  <2>2. next = (evCursor + Len(evReplay)) + Len(evChannel) + 1 /\ next \in Nat
    BY <1>2, <1>3, <1>4
  <2>3. RunFrom(evChannel', evCursor + Len(evReplay)) /\ Len(evChannel') = Len(evChannel) + 1
    BY <1>2, <1>3, <2>1, <2>2, RunAppend
  <2>4. rest \in Seq(Nat)
    BY <1>4 DEF RunFrom
  <2>5. /\ evPump'.pc = (IF rest = <<>> THEN "poll" ELSE "send") /\ evPump'.cursor = next
        /\ evPump'.page = rest
        /\ evPump' \in [pc : {"none", "poll", "send", "stopped"}, cursor : Nat, page : Seq(Nat)]
    BY <2>1, <2>2, <2>4
  <2>6. evPump'.cursor = evCursor + Len(evReplay) + Len(evChannel')
    BY <1>2, <1>3, <2>2, <2>3, <2>5
  <2>7. evPump'.cursor + Len(evPump'.page) <= Len(evLog)
    BY <1>2, <1>3, <1>4, <2>5
  <2>8. PipelineRuns'
    BY <1>1, <1>2, <1>4, <2>3, <2>5, <2>6, <2>7 DEF PipelineRuns
  <2> QED
    BY <1>1, <2>1, <2>5, <2>8 DEF StreamInv, FramesAgree, FrameOk
<1> QED
  BY <1>6, <1>7

(* The client takes the number behind its cursor, from the replay first.     *)
LEMMA NextKeepsStream ==
    ASSUME StreamInv, NextEvent
    PROVE  StreamInv'
<1>1. /\ evPump.pc # "none" /\ UNCHANGED <<evLog, evJob, evPump, evError, evOpened>>
      /\ evReplay # <<>> =>
           /\ evTaken' = Append(evTaken, Head(evReplay)) /\ evCursor' = Head(evReplay)
           /\ evReplay' = Tail(evReplay) /\ evChannel' = evChannel
      /\ evReplay = <<>> =>
           /\ evChannel # <<>> /\ evTaken' = Append(evTaken, Head(evChannel))
           /\ evCursor' = Head(evChannel) /\ evReplay' = evReplay /\ evChannel' = Tail(evChannel)
  BY DEF NextEvent
<1>2. /\ Len(evLog) \in Nat /\ evCursor \in Nat
      /\ RunFrom(evReplay, evCursor) /\ RunFrom(evChannel, evCursor + Len(evReplay))
      /\ evPump.cursor = evCursor + Len(evReplay) + Len(evChannel)
      /\ RunFrom(evTaken, 0) /\ Len(evTaken) = evCursor
      /\ evPump.cursor <= Len(evLog)
  <2>1. PipelineRuns
    BY <1>1 DEF StreamInv
  <2>2. evPump.cursor \in Nat /\ Len(evPump.page) \in Nat
    BY DEF StreamInv
  <2>3. evPump.cursor + Len(evPump.page) <= Len(evLog) /\ Len(evLog) \in Nat
    BY <2>1 DEF StreamInv, PipelineRuns
  <2>4. evPump.cursor <= Len(evLog)
    BY <2>2, <2>3
  <2> QED
    BY <2>1, <2>3, <2>4 DEF StreamInv, PipelineRuns
<1>3. Len(evReplay) \in Nat /\ Len(evChannel) \in Nat
  BY <1>2 DEF RunFrom
<1>4. /\ evCursor' = evCursor + 1 /\ evTaken' = Append(evTaken, evCursor + 1)
      /\ RunFrom(evReplay', evCursor + 1) /\ RunFrom(evChannel', evCursor + 1 + Len(evReplay'))
      /\ Len(evReplay') + Len(evChannel') + 1 = Len(evReplay) + Len(evChannel)
      /\ Len(evReplay') \in Nat /\ Len(evChannel') \in Nat
  <2>1. CASE evReplay # <<>>
    <3>1. Head(evReplay) = evCursor + 1 /\ RunFrom(Tail(evReplay), evCursor + 1)
          /\ Len(Tail(evReplay)) = Len(evReplay) - 1 /\ Len(evReplay) \in Nat \ {0}
      BY <1>2, <2>1, RunTail
    <3>2. evCursor + 1 + Len(Tail(evReplay)) = evCursor + Len(evReplay)
      BY <1>2, <3>1
    <3>3. /\ evTaken' = Append(evTaken, evCursor + 1) /\ evCursor' = evCursor + 1
          /\ evReplay' = Tail(evReplay) /\ evChannel' = evChannel
      BY <1>1, <2>1, <3>1
    <3>4. RunFrom(evChannel', evCursor + 1 + Len(evReplay'))
      BY <1>2, <3>2, <3>3
    <3>5. Len(evReplay') = Len(evReplay) - 1 /\ Len(evChannel') = Len(evChannel)
      BY <3>1, <3>3
    <3>6. /\ Len(evReplay') + Len(evChannel') + 1 = Len(evReplay) + Len(evChannel)
          /\ Len(evReplay') \in Nat /\ Len(evChannel') \in Nat
      BY <1>3, <3>1, <3>5
    <3> QED
      BY <3>1, <3>3, <3>4, <3>6
  <2>2. CASE evReplay = <<>>
    <3>1. Len(evReplay) = 0 /\ evCursor + Len(evReplay) = evCursor
      BY <1>2, <2>2
    <3>2. Head(evChannel) = evCursor + 1 /\ RunFrom(Tail(evChannel), evCursor + 1)
          /\ Len(Tail(evChannel)) = Len(evChannel) - 1 /\ Len(evChannel) \in Nat \ {0}
      BY <1>1, <1>2, <2>2, <3>1, RunTail
    <3>3. RunFrom(<<>>, evCursor + 1)
      BY DEF RunFrom
    <3>4. /\ evTaken' = Append(evTaken, evCursor + 1) /\ evCursor' = evCursor + 1
          /\ evReplay' = <<>> /\ evChannel' = Tail(evChannel)
      BY <1>1, <2>2, <3>2
    <3>5. Len(evReplay') = 0 /\ Len(evChannel') = Len(evChannel) - 1
      BY <3>2, <3>4
    <3>6. evCursor + 1 + Len(evReplay') = evCursor + 1
      BY <1>2, <3>5
    <3>7. /\ Len(evReplay') + Len(evChannel') + 1 = Len(evReplay) + Len(evChannel)
          /\ Len(evReplay') \in Nat /\ Len(evChannel') \in Nat
      BY <3>1, <3>2, <3>5
    <3> QED
      BY <3>2, <3>3, <3>4, <3>6, <3>7
  <2> QED
    BY <2>1, <2>2
<1>5. RunFrom(evTaken', 0) /\ Len(evTaken') = evCursor + 1
  <2>1. evCursor + 1 = 0 + Len(evTaken) + 1
    BY <1>2
  <2> QED
    BY <1>2, <1>4, <2>1, RunAppend, 0 \in Nat
<1>6. evCursor' \in Nat /\ evCursor' <= Len(evLog')
  BY <1>1, <1>2, <1>3, <1>4
<1>7. evPump'.cursor = evCursor' + Len(evReplay') + Len(evChannel')
  <2>1. evPump'.cursor = evCursor + Len(evReplay) + Len(evChannel)
    BY <1>1, <1>2
  <2>2. evCursor + Len(evReplay) + Len(evChannel) = (evCursor + 1) + Len(evReplay') + Len(evChannel')
    <3>1. /\ Len(evReplay') + Len(evChannel') + 1 = Len(evReplay) + Len(evChannel)
          /\ Len(evReplay') \in Nat /\ Len(evChannel') \in Nat /\ evCursor \in Nat
      BY <1>2, <1>4
    <3> QED
      BY <1>3, <3>1
  <2> QED
    BY <1>4, <2>1, <2>2
<1>8. PipelineRuns'
  <2>1. PipelineRuns
    BY <1>1 DEF StreamInv
  <2> QED
    BY <1>1, <1>4, <1>7, <2>1 DEF PipelineRuns
<1> QED
  BY <1>1, <1>4, <1>5, <1>6, <1>8 DEF StreamInv, FramesAgree, FrameOk

(* subscribe, pump_events, next_event: for any length of the stream, any page *)
(* limits, any buffer and any number of subscriptions the client is given     *)
(* every event once and in order, and no frame disagrees with its Job.        *)
THEOREM StreamDelivered == EvSpec => []DeliveredInOrder
<1>1. EvInit => StreamInv
  <2> SUFFICES ASSUME EvInit PROVE StreamInv
    OBVIOUS
  <2>1. evLog \in Seq({"accepted", "progress"} \cup StreamEnded) /\ Len(evLog) = 1 /\ evLog[1] = "accepted"
    BY DEF EvInit
  <2>2. FramesAgree
    BY <2>1 DEF FramesAgree, FrameOk, StreamEnded
  <2>3. RunFrom(evTaken, 0) /\ Len(evTaken) = 0
    BY DEF EvInit, RunFrom
  <2>4. evPump \in [pc : {"none", "poll", "send", "stopped"}, cursor : Nat, page : Seq(Nat)]
        /\ evPump.pc = "none"
    BY DEF EvInit, NoPump
  <2> QED
    BY <2>1, <2>2, <2>3, <2>4 DEF EvInit, StreamInv
<1>2. StreamInv /\ [EvNext]_evVars => StreamInv'
  <2> SUFFICES ASSUME StreamInv, [EvNext]_evVars PROVE StreamInv'
    OBVIOUS
  <2>1. ASSUME DropSubscription PROVE StreamInv'
    <3>1. evPump' = NoPump /\ UNCHANGED <<evLog, evJob, evError, evCursor, evTaken, evOpened>>
      BY <2>1 DEF DropSubscription
    <3>2. evPump'.pc = "none"
          /\ evPump' \in [pc : {"none", "poll", "send", "stopped"}, cursor : Nat, page : Seq(Nat)]
      BY <3>1 DEF NoPump
    <3> QED
      BY <3>1, <3>2 DEF StreamInv, FramesAgree, FrameOk
  <2>2. ASSUME UNCHANGED evVars PROVE StreamInv'
    BY <2>2 DEF evVars, StreamInv, PipelineRuns, FramesAgree, FrameOk
  <2> QED
    BY <2>1, <2>2, AppendKeepsStream, SubscribeKeepsStream, PollKeepsStream, SendKeepsStream,
       NextKeepsStream DEF EvNext
<1>3. StreamInv => DeliveredInOrder
  <2> SUFFICES ASSUME StreamInv PROVE DeliveredInOrder
    OBVIOUS
  <2> DEFINE due == evReplay \o evChannel
  <2>1. evTaken = [i \in DOMAIN evTaken |-> 0 + i]
    BY RunIs DEF StreamInv
  <2>2. DOMAIN evTaken \subseteq Nat
    BY LenProperties DEF StreamInv, RunFrom
  <2>3. evTaken = [i \in DOMAIN evTaken |-> i]
    <3>1. \A i \in DOMAIN evTaken : 0 + i = i
      BY <2>2
    <3> QED
      BY <2>1, <3>1
  <2>4. ASSUME evPump.pc # "none" PROVE due = [i \in DOMAIN due |-> evCursor + i]
    <3>1. evCursor \in Nat /\ RunFrom(due, evCursor)
      BY <2>4, RunConcat DEF StreamInv, PipelineRuns
    <3> QED
      BY <3>1, RunIs
  <2> QED
    BY <2>3, <2>4 DEF StreamInv, DeliveredInOrder
<1> QED
  BY <1>1, <1>2, <1>3, PTL DEF EvSpec

-----------------------------------------------------------------------------
(* The paged reads of ApiPaging.                                             *)

(* Induction, over the set of the numbers that have a property.              *)
LEMMA CountUp ==
    ASSUME NEW S \in SUBSET Nat, 0 \in S, \A n \in S : n + 1 \in S
    PROVE  S = Nat
<1> SUFFICES ASSUME Nat \ S # {} PROVE FALSE
    OBVIOUS
<1>1. PICK m \in Nat \ S : \A n \in Nat \ S : m <= n
  BY LeastNatural
<1>2. m - 1 \in Nat /\ ~ (m <= m - 1) /\ (m - 1) + 1 = m
  BY <1>1
<1> QED
  BY <1>1, <1>2

(* One step of the filter, and its first n steps.                            *)
KeptOf(g, d, f, first, n) ==
    IF n < first THEN <<>> ELSE IF Matches(d, n, f) THEN Append(g[n - 1], n) ELSE g[n - 1]
KeptUpTo(g, d, f, first, m) == DOMAIN g = 0..m /\ \A n \in 0..m : g[n] = KeptOf(g, d, f, first, n)

LEMMA KeptUnique ==
    ASSUME NEW d, NEW f, NEW first \in Nat \ {0}, NEW k \in Nat, NEW m \in Nat, NEW g, NEW h,
           KeptUpTo(g, d, f, first, k), KeptUpTo(h, d, f, first, m), NEW n \in Nat, n <= k, n <= m
    PROVE  g[n] = h[n]
<1> DEFINE S == {i \in Nat : i <= k /\ i <= m => g[i] = h[i]}
<1>1. 0 \in S
  BY DEF KeptUpTo, KeptOf
<1>2. ASSUME NEW i \in S PROVE i + 1 \in S
  <2> SUFFICES ASSUME i + 1 <= k, i + 1 <= m PROVE g[i + 1] = h[i + 1]
    OBVIOUS
  <2>1. g[i] = h[i] /\ (i + 1) - 1 = i /\ i + 1 \in 0..k /\ i + 1 \in 0..m
    OBVIOUS
  <2> QED BY <2>1 DEF KeptUpTo, KeptOf
<1> HIDE DEF S
<1>3. S = Nat
  BY <1>1, <1>2, CountUp DEF S
<1> QED
  BY <1>3 DEF S

LEMMA KeptExists ==
    ASSUME NEW d, NEW f, NEW first \in Nat \ {0}
    PROVE  \A m \in Nat : \E g : KeptUpTo(g, d, f, first, m)
<1> DEFINE S == {m \in Nat : \E g : KeptUpTo(g, d, f, first, m)}
<1>1. 0 \in S
  <2>1. KeptUpTo([n \in 0..0 |-> <<>>], d, f, first, 0)
    BY DEF KeptUpTo, KeptOf
  <2> QED BY <2>1
<1>2. ASSUME NEW m \in S PROVE m + 1 \in S
  <2>1. PICK g : KeptUpTo(g, d, f, first, m)
    OBVIOUS
  <2> DEFINE h == [n \in 0..(m + 1) |-> IF n = m + 1 THEN KeptOf(g, d, f, first, m + 1) ELSE g[n]]
  <2>2. ASSUME NEW n \in 0..(m + 1) PROVE h[n] = KeptOf(h, d, f, first, n)
    <3>1. CASE n = 0
      BY <2>1, <3>1 DEF KeptUpTo, KeptOf
    <3>2. CASE n # 0
      <4>1. n - 1 \in 0..(m + 1) /\ n - 1 # m + 1
        BY <3>2
      <4>2. h[n - 1] = g[n - 1]
        BY <4>1
      <4>3. h[n] = KeptOf(g, d, f, first, n)
        <5>1. CASE n = m + 1
          BY <5>1
        <5>2. CASE n # m + 1
          <6>1. n \in 0..m /\ h[n] = g[n]
            BY <5>2
          <6> QED BY <2>1, <6>1 DEF KeptUpTo
        <5> QED BY <5>1, <5>2
      <4> HIDE DEF h
      <4> QED BY <4>2, <4>3 DEF KeptOf
    <3> QED BY <3>1, <3>2
  <2>3. KeptUpTo(h, d, f, first, m + 1)
    <3>1. DOMAIN h = 0..(m + 1)
      OBVIOUS
    <3> HIDE DEF h
    <3> QED BY <2>2, <3>1 DEF KeptUpTo
  <2> HIDE DEF h
  <2> QED BY <2>3
<1> HIDE DEF S
<1>3. S = Nat
  BY <1>1, <1>2, CountUp DEF S
<1> QED
  BY <1>3 DEF S

(* The filter item by item: the definition of MatchingIn has a solution.     *)
LEMMA MatchingSolves ==
    ASSUME NEW d, NEW f, NEW first \in Nat \ {0}
    PROVE  \E kept : /\ \A n \in Nat : MatchingIn(d, f, first, n) = kept[n]
                     /\ \A n \in Nat : kept[n] = KeptOf(kept, d, f, first, n)
<1> DEFINE Steps(g) == [n \in Nat |-> IF n < first THEN <<>>
                                      ELSE IF Matches(d, n, f) THEN Append(g[n - 1], n) ELSE g[n - 1]]
           kept == CHOOSE g : g = Steps(g)
           Upto(m) == CHOOSE g : KeptUpTo(g, d, f, first, m)
           whole == [n \in Nat |-> Upto(n)[n]]
<1>1. ASSUME NEW m \in Nat PROVE KeptUpTo(Upto(m), d, f, first, m)
  BY KeptExists
<1> HIDE DEF Upto
<1>2. ASSUME NEW n \in Nat PROVE whole[n] = Steps(whole)[n]
  <2>1. whole[n] = KeptOf(Upto(n), d, f, first, n)
    BY <1>1 DEF KeptUpTo
  <2>2. CASE n < first
    BY <2>1, <2>2 DEF KeptOf
  <2>3. CASE ~ (n < first)
    <3>1. n - 1 \in Nat /\ n - 1 <= n /\ n - 1 <= n - 1
      BY <2>3
    <3>2. Upto(n)[n - 1] = Upto(n - 1)[n - 1]
      <4>1. KeptUpTo(Upto(n), d, f, first, n) /\ KeptUpTo(Upto(n - 1), d, f, first, n - 1)
        BY <1>1, <3>1
      <4> QED BY <3>1, <4>1, KeptUnique
    <3>3. whole[n - 1] = Upto(n)[n - 1]
      BY <3>1, <3>2
    <3> QED BY <2>1, <2>3, <3>3 DEF KeptOf
  <2> QED BY <2>2, <2>3
<1>3. whole = Steps(whole)
  BY <1>2
<1>4. kept = Steps(kept)
  <2> HIDE DEF whole, Steps
  <2> QED BY <1>3
<1>5. \A n \in Nat : MatchingIn(d, f, first, n) = kept[n]
  BY DEF MatchingIn
<1> HIDE DEF kept
<1>6. \A n \in Nat : kept[n] = KeptOf(kept, d, f, first, n)
  BY <1>4 DEF KeptOf
<1> QED
  BY <1>5, <1>6

(* As a function of the range: the provers do not take numbers as the        *)
(* arguments of an operator.                                                 *)
Filtered(d, f) == [first \in Nat |-> [last \in Nat |-> MatchingIn(d, f, first, last)]]

LEMMA FilteredIs ==
    ASSUME NEW d, NEW f, NEW first \in Nat, NEW last \in Nat
    PROVE  MatchingIn(d, f, first, last) = Filtered(d, f)[first][last]
BY DEF Filtered

LEMMA FilteredByItem ==
    ASSUME NEW d, NEW f, NEW first \in Nat \ {0}, NEW last \in Nat
    PROVE  /\ last < first => Filtered(d, f)[first][last] = <<>>
           /\ last >= first =>
                \/ Filtered(d, f)[first][last] = Filtered(d, f)[first][last - 1] /\ ~Matches(d, last, f)
                \/ Filtered(d, f)[first][last] = Append(Filtered(d, f)[first][last - 1], last) /\ Matches(d, last, f)
<1>1. PICK kept : /\ \A n \in Nat : MatchingIn(d, f, first, n) = kept[n]
                  /\ \A n \in Nat : kept[n] = KeptOf(kept, d, f, first, n)
  BY MatchingSolves
<1>2. \A n \in Nat : Filtered(d, f)[first][n] = kept[n]
  BY <1>1 DEF Filtered
<1>3. CASE last < first
  BY <1>1, <1>2, <1>3 DEF KeptOf
<1>4. CASE last >= first
  <2>1. last - 1 \in Nat /\ ~ (last < first)
    BY <1>4
  <2>2. Filtered(d, f)[first][last - 1] = kept[last - 1] /\ Filtered(d, f)[first][last] = KeptOf(kept, d, f, first, last)
    BY <1>1, <1>2, <2>1
  <2>3. CASE Matches(d, last, f)
    BY <2>1, <2>2, <2>3, Zenon DEF KeptOf
  <2>4. CASE ~Matches(d, last, f)
    BY <2>1, <2>2, <2>4, Zenon DEF KeptOf
  <2> QED BY <2>3, <2>4
<1> QED
  BY <1>3, <1>4

LEMMA FilteredIsSeq ==
    ASSUME NEW d, NEW f, NEW first \in Nat \ {0}, NEW last \in Nat
    PROVE  Filtered(d, f)[first][last] \in Seq(Nat)
<1> DEFINE S == {n \in Nat : Filtered(d, f)[first][n] \in Seq(Nat)}
<1>1. 0 \in S
  <2>1. Filtered(d, f)[first][0] = <<>>
    BY FilteredByItem
  <2>2. Filtered(d, f)[first][0] \in Seq(Nat)
    BY <2>1
  <2> QED BY <2>2, Zenon
<1>2. ASSUME NEW n \in S PROVE n + 1 \in S
  <2>1. (n + 1) - 1 = n /\ n + 1 \in Nat /\ Filtered(d, f)[first][n] \in Seq(Nat)
    OBVIOUS
  <2>2. \/ Filtered(d, f)[first][n + 1] = <<>>
        \/ Filtered(d, f)[first][n + 1] = Filtered(d, f)[first][n]
        \/ Filtered(d, f)[first][n + 1] = Append(Filtered(d, f)[first][n], n + 1)
    <3> DEFINE k == n + 1
    <3>1. k \in Nat /\ k - 1 = n
      OBVIOUS
    <3> HIDE DEF k
    <3>2. \/ Filtered(d, f)[first][k] = <<>>
          \/ Filtered(d, f)[first][k] = Filtered(d, f)[first][n]
          \/ Filtered(d, f)[first][k] = Append(Filtered(d, f)[first][n], k)
      BY <3>1, FilteredByItem
    <3> QED BY <3>2 DEF k
  <2>3. Append(Filtered(d, f)[first][n], n + 1) \in Seq(Nat) /\ <<>> \in Seq(Nat)
    BY <2>1, AppendProperties
  <2>4. Filtered(d, f)[first][n + 1] \in Seq(Nat)
    BY <2>1, <2>2, <2>3, Zenon
  <2> QED BY <2>1, <2>4, Zenon
<1> HIDE DEF S
<1>3. S = Nat
  BY <1>1, <1>2, CountUp DEF S
<1> QED
  BY <1>3 DEF S

(* What is appended to the second of two sequences is appended to their      *)
(* concatenation.                                                            *)
LEMMA AppendBehind ==
    ASSUME NEW s \in Seq(Nat), NEW t \in Seq(Nat), NEW k \in Nat
    PROVE  s \o Append(t, k) = Append(s \o t, k)
<1>1. /\ Append(t, k) = t \o <<k>>
      /\ <<k>> \in Seq(Nat)
  OBVIOUS
<1>2. s \o t \in Seq(Nat) /\ Append(s \o t, k) = (s \o t) \o <<k>>
  OBVIOUS
<1>3. PICK u \in Seq(Nat) : u = <<k>>
  BY <1>1
<1>4. (s \o t) \o u = s \o (t \o u)
  BY ConcatAssociative
<1> QED
  BY <1>1, <1>2, <1>3, <1>4

(* Two neighbouring pages, filtered, are their common range filtered.        *)
LEMMA FilteredJoins ==
    ASSUME NEW d, NEW f, NEW mid \in Nat, NEW last \in Nat, mid <= last
    PROVE  Filtered(d, f)[1][mid] \o Filtered(d, f)[mid + 1][last] = Filtered(d, f)[1][last]
<1> DEFINE F == Filtered(d, f)
           S == {n \in Nat : F[1][mid] \o F[mid + 1][mid + n] = F[1][mid + n]}
<1>0. F[1][mid] \in Seq(Nat)
  BY FilteredIsSeq
<1>1. 0 \in S
  <2>1. F[mid + 1][mid] = <<>>
    BY FilteredByItem
  <2>3. mid + 0 = mid
    OBVIOUS
  <2> HIDE DEF F
  <2>2. F[1][mid] \o F[mid + 1][mid + 0] = F[1][mid + 0]
    BY <1>0, <2>1, <2>3, ConcatEmptySeq, Zenon
  <2> QED BY <2>2, Zenon
<1>2. ASSUME NEW n \in S PROVE n + 1 \in S
  <2> DEFINE k == mid + (n + 1)
             from == mid + 1
  <2>1. k \in Nat /\ k - 1 = mid + n /\ mid + n \in Nat /\ k >= 1 /\ k >= from /\ from \in Nat \ {0}
        /\ 1 \in Nat \ {0}
    OBVIOUS
  <2>a. F[1][mid] \o F[from][mid + n] = F[1][mid + n]
    OBVIOUS
  <2> HIDE DEF k, from
  <2>2. /\ \/ F[1][k] = F[1][k - 1] /\ ~Matches(d, k, f)
           \/ F[1][k] = Append(F[1][k - 1], k) /\ Matches(d, k, f)
        /\ \/ F[from][k] = F[from][k - 1] /\ ~Matches(d, k, f)
           \/ F[from][k] = Append(F[from][k - 1], k) /\ Matches(d, k, f)
    BY <2>1, FilteredByItem
  <2>3. F[from][mid + n] \in Seq(Nat)
    BY <2>1, FilteredIsSeq
  <2> HIDE DEF F
  <2>4. \A s, t \in Seq(Nat) : s \o Append(t, k) = Append(s \o t, k)
    BY <2>1, AppendBehind, Zenon
  <2>5. F[1][mid] \o F[from][k] = F[1][k]
    BY <1>0, <2>a, <2>1, <2>2, <2>3, <2>4
  <2>6. n + 1 \in Nat
    OBVIOUS
  <2> QED BY <2>5, <2>6, Zenon DEF k, from
<1> HIDE DEF S, F
<1>3. S = Nat
  BY <1>1, <1>2, CountUp DEF S
<1>4. last - mid \in Nat /\ mid + (last - mid) = last
  OBVIOUS
<1> QED
  BY <1>3, <1>4 DEF S, F

(* What a walk has been given is what its position says.  The history counts  *)
(* the entries of the store, every other walk what it returns.               *)
PagOps == {"findings", "history", "files", "download", "content"}
PagGiven(w) ==
    /\ w.op = "history" =>
         /\ w.pos <= Len1(w.doc) /\ w.got = Filtered(w.doc, w.filter)[1][w.pos]
         /\ w.done => w.pos = Len1(w.doc)
    /\ w.op # "history" =>
         /\ w.pos <= Len(Wanted(w)) /\ w.got = SubSeq(Wanted(w), 1, w.pos)
         /\ w.done => w.pos = Len(Wanted(w))
PagWalk(w) ==
    /\ DOMAIN w = {"op", "doc", "filter", "size", "pos", "got", "done"}
    /\ w.op \in PagOps /\ w.doc \in DOMAIN Documents /\ w.pos \in Nat
    /\ PagGiven(w)
PagInv == \A w \in walks : PagWalk(w)

LEMMA PagIndexes ==
    ASSUME NEW d \in DOMAIN Documents
    PROVE  /\ Len1(d) \in Nat /\ Indexes(d) \in Seq(Nat) /\ Len(Indexes(d)) = Len1(d)
<1>1. Len1(d) \in Nat
  BY DocumentsAssumption DEF Len1
<1> QED
  BY <1>1 DEF Indexes

LEMMA PagWanted ==
    ASSUME NEW w, w.doc \in DOMAIN Documents
    PROVE  /\ Wanted(w) \in Seq(Nat) /\ Len(Wanted(w)) \in Nat
           /\ w.op \in {"findings", "history"} => Wanted(w) = Filtered(w.doc, w.filter)[1][Len1(w.doc)]
           /\ w.op \notin {"findings", "history"} => Wanted(w) = Indexes(w.doc) /\ Len(Wanted(w)) = Len1(w.doc)
<1>1. Len1(w.doc) \in Nat /\ Indexes(w.doc) \in Seq(Nat) /\ Len(Indexes(w.doc)) = Len1(w.doc)
  BY PagIndexes
<1>2. CASE w.op \in {"findings", "history"}
  <2>1. Wanted(w) = MatchingIn(w.doc, w.filter, 1, Len1(w.doc))
    BY <1>2, Zenon DEF Wanted, Matching
  <2>2. 1 \in Nat
    OBVIOUS
  <2>3. Wanted(w) = Filtered(w.doc, w.filter)[1][Len1(w.doc)]
    <3>1. PICK one \in Nat : one = 1
      BY <2>2
    <3>2. PICK n \in Nat : n = Len1(w.doc)
      BY <1>1
    <3>3. MatchingIn(w.doc, w.filter, one, n) = Filtered(w.doc, w.filter)[one][n]
      BY FilteredIs
    <3> QED BY <2>1, <3>1, <3>2, <3>3, Zenon
  <2>4. Wanted(w) \in Seq(Nat)
    BY <1>1, <2>3, FilteredIsSeq
  <2> QED BY <1>2, <2>3, <2>4
<1>3. CASE w.op \notin {"findings", "history"}
  BY <1>1, <1>3 DEF Wanted
<1> QED
  BY <1>2, <1>3

(* A page moves one walk on.                                                 *)
LEMMA PagMoves ==
    ASSUME PagInv, NEW w \in walks, NEW end \in Nat, NEW items, NEW done, Serve(w, end, items, done),
           w.op = "history" =>
             /\ end <= Len1(w.doc) /\ w.got \o items = Filtered(w.doc, w.filter)[1][end]
             /\ done => end = Len1(w.doc),
           w.op # "history" =>
             /\ end <= Len(Wanted(w)) /\ w.got \o items = SubSeq(Wanted(w), 1, end)
             /\ done => end = Len(Wanted(w))
    PROVE  PagInv'
<1>1. PagWalk(w)
  BY DEF PagInv
<1>2. PICK v : v = [w EXCEPT !.pos = end, !.got = @ \o items, !.done = done]
  OBVIOUS
<1>3. /\ DOMAIN v = {"op", "doc", "filter", "size", "pos", "got", "done"}
      /\ v.op = w.op /\ v.doc = w.doc /\ v.filter = w.filter /\ v.pos = end /\ v.got = w.got \o items /\ v.done = done
  BY <1>1, <1>2 DEF PagWalk
<1>4. Wanted(v) = Wanted(w)
  BY <1>3 DEF Wanted
<1>5. PagWalk(v)
  BY <1>1, <1>3, <1>4 DEF PagWalk, PagGiven
<1>6. walks' = (walks \ {w}) \cup {v}
  BY <1>2 DEF Serve
<1> QED
  BY <1>5, <1>6 DEF PagInv

(* A page that takes what is wanted from one position to another.            *)
LEMMA PagNextPart ==
    ASSUME PagInv, NEW w \in walks, w.op # "history", NEW end \in Nat, NEW done,
           w.pos <= end, end <= Len(Wanted(w)), done => end = Len(Wanted(w)),
           Serve(w, end, SubSeq(Wanted(w), w.pos + 1, end), done)
    PROVE  PagInv'
<1>1. PagWalk(w) /\ w.pos \in Nat /\ Wanted(w) \in Seq(Nat) /\ Len(Wanted(w)) \in Nat
  BY PagWanted DEF PagInv, PagWalk
<1>2. w.got = SubSeq(Wanted(w), 1, w.pos)
  BY <1>1 DEF PagWalk, PagGiven
<1>3. SubSeq(Wanted(w), 1, w.pos) \o SubSeq(Wanted(w), w.pos + 1, end) = SubSeq(Wanted(w), 1, end)
  <2>1. /\ 1 \in 1..(Len(Wanted(w)) + 1) /\ w.pos \in (1 - 1)..Len(Wanted(w)) /\ end \in w.pos..Len(Wanted(w))
    BY <1>1
  <2> QED BY <1>1, <2>1, ConcatAdjacentSubSeq
<1> QED
  BY <1>2, <1>3, PagMoves

LEMMA PagFits ==
    ASSUME NEW d \in DOMAIN Documents, NEW from \in Nat \ {0}, NEW maxRows, NEW maxBytes
    PROVE  LastThatFits(d, from, maxRows, maxBytes) \in Nat /\ LastThatFits(d, from, maxRows, maxBytes) <= Len1(d)
<1> DEFINE stop == {i \in from..Len1(d) : ~Fits(d, from, i, maxRows, maxBytes)}
<1>1. Len1(d) \in Nat
  BY PagIndexes
<1>2. stop \subseteq from..Len1(d)
  OBVIOUS
<1> DEFINE end == IF stop = {} THEN Len1(d) ELSE (CHOOSE i \in stop : \A k \in stop : i <= k) - 1
<1>4. LastThatFits(d, from, maxRows, maxBytes) = end
  BY DEF LastThatFits
<1> HIDE DEF stop
<1>5. end \in Nat /\ end <= Len1(d)
  <2>1. CASE stop = {}
    BY <1>1, <2>1
  <2>2. CASE stop # {}
    <3>1. stop \in SUBSET Nat
      BY <1>1, <1>2
    <3>2. \E i \in stop : \A k \in stop : i <= k
      BY <2>2, <3>1, LeastNatural
    <3>3. PICK i \in stop : end = i - 1
      BY <2>2, <3>2
    <3>4. i \in from..Len1(d)
      BY <1>2, <3>3
    <3> QED BY <1>1, <3>3, <3>4
  <2> QED BY <2>1, <2>2
<1> HIDE DEF end
<1> QED
  BY <1>4, <1>5, Zenon

LEMMA PagHistory ==
    ASSUME PagInv, NEW w \in walks, NEW d \in DOMAIN Documents, NEW f, NEW limit \in Nat,
           ListProfileHistory(w, d, f, limit)
    PROVE  PagInv'
<1>1. PagWalk(w) /\ w.pos \in Nat /\ w.op = "history" /\ w.doc = d /\ w.filter = f
  BY Zenon DEF PagInv, PagWalk, ListProfileHistory, Open, CursorMatches
<1>2. Len1(d) \in Nat /\ Indexes(d) \in Seq(Nat) /\ Len(Indexes(d)) = Len1(d) /\ w.pos <= Len1(d)
      /\ w.got = Filtered(d, f)[1][w.pos]
  BY <1>1, PagIndexes DEF PagWalk, PagGiven
<1>3. PICK end : /\ end = IF w.pos + limit < Len1(d) THEN w.pos + limit ELSE Len1(d)
                 /\ Serve(w, PositionOfPage(w, SubSeq(Indexes(d), w.pos + 1, end)),
                          MatchingIn(d, f, w.pos + 1, end), end >= Len1(d))
  BY Zenon DEF ListProfileHistory
<1>4. end \in Nat /\ w.pos <= end /\ end <= Len1(d) /\ (end >= Len1(d) => end = Len1(d))
  BY <1>1, <1>2, <1>3
<1>5. PositionOfPage(w, SubSeq(Indexes(d), w.pos + 1, end)) = end
  <2>1. Len(SubSeq(Indexes(d), w.pos + 1, end)) = end - w.pos
    BY <1>1, <1>2, <1>4
  <2> QED BY <1>1, <1>4, <2>1 DEF PositionOfPage
<1>6. MatchingIn(d, f, w.pos + 1, end) = Filtered(d, f)[w.pos + 1][end]
  <2>1. PICK next \in Nat : next = w.pos + 1
    BY <1>1
  <2>2. MatchingIn(d, f, next, end) = Filtered(d, f)[next][end]
    BY <1>4, FilteredIs
  <2> QED BY <2>1, <2>2, Zenon
<1>7. w.got \o Filtered(d, f)[w.pos + 1][end] = Filtered(d, f)[1][end]
  <2>1. PICK mid \in Nat : mid = w.pos
    BY <1>1
  <2>2. Filtered(d, f)[1][mid] \o Filtered(d, f)[mid + 1][end] = Filtered(d, f)[1][end]
    BY <1>4, <2>1, FilteredJoins
  <2> QED BY <1>2, <2>1, <2>2, Zenon
<1>8. Serve(w, end, Filtered(d, f)[w.pos + 1][end], end >= Len1(d))
  BY <1>3, <1>5, <1>6, Zenon
<1> QED
  BY <1>1, <1>4, <1>7, <1>8, PagMoves

LEMMA PagStep ==
    ASSUME PagInv, NEW w \in walks, NEW d \in DOMAIN Documents, NEW f, NEW limit \in Nat, NEW bytes,
           \/ ListReportFindings(w, d, f, limit) \/ ListExportFiles(w, d, limit)
           \/ DownloadExport(w, d, limit) \/ ReadArtifactContent(w, d, limit, bytes)
    PROVE  PagInv'
<1>0. PagWalk(w) /\ w.pos \in Nat /\ Wanted(w) \in Seq(Nat) /\ Len(Wanted(w)) \in Nat
      /\ Len1(d) \in Nat
  BY PagWanted, PagIndexes DEF PagInv, PagWalk
<1>1. CASE ListReportFindings(w, d, f, limit)
  <2>1. w.op = "findings" /\ w.doc = d /\ w.filter = f
    BY <1>1, Zenon DEF ListReportFindings, Open, CursorMatches
  <2>2. Wanted(w) = Matching(d, f)
    BY <2>1 DEF Wanted
  <2>3. PICK end : /\ end = IF w.pos + limit < Len(Wanted(w)) THEN w.pos + limit ELSE Len(Wanted(w))
                   /\ w.pos <= Len(Wanted(w))
                   /\ Serve(w, end, SubSeq(Wanted(w), w.pos + 1, end), end >= Len(Wanted(w)))
    BY <1>1, <2>2, Zenon DEF ListReportFindings
  <2>4. end \in Nat /\ w.pos <= end /\ end <= Len(Wanted(w)) /\ (end >= Len(Wanted(w)) => end = Len(Wanted(w)))
    BY <1>0, <2>3
  <2>5. w.op # "history"
    BY <2>1
  <2> DEFINE done == end >= Len(Wanted(w))
  <2>6. Serve(w, end, SubSeq(Wanted(w), w.pos + 1, end), done) /\ (done => end = Len(Wanted(w)))
    BY <2>3, <2>4
  <2> HIDE DEF done
  <2> QED BY <2>4, <2>5, <2>6, PagNextPart
<1>2. CASE ListExportFiles(w, d, limit) \/ DownloadExport(w, d, limit)
  <2>1. w.op \in {"files", "download"} /\ w.doc = d
    BY <1>2, Zenon DEF ListExportFiles, DownloadExport, Open, CursorMatches
  <2>2. Wanted(w) = Indexes(d) /\ Len(Wanted(w)) = Len1(d) /\ w.pos <= Len(Wanted(w))
    BY <1>0, <2>1, PagWanted DEF PagWalk, PagGiven
  <2>3. PICK end : /\ end = IF w.pos + limit < Len1(d) THEN w.pos + limit ELSE Len1(d)
                   /\ Serve(w, end, SubSeq(Indexes(d), w.pos + 1, end), end >= Len1(d))
    BY <1>2, Zenon DEF ListExportFiles, DownloadExport
  <2>4. end \in Nat /\ w.pos <= end /\ end <= Len(Wanted(w)) /\ (end >= Len1(d) => end = Len(Wanted(w)))
    BY <1>0, <2>2, <2>3
  <2>5. Serve(w, end, SubSeq(Wanted(w), w.pos + 1, end), end >= Len1(d))
    BY <2>2, <2>3
  <2> QED BY <2>1, <2>4, <2>5, PagNextPart
<1>3. CASE ReadArtifactContent(w, d, limit, bytes)
  <2>1. w.op = "content" /\ w.doc = d
    BY <1>3, Zenon DEF ReadArtifactContent
  <2>2. Wanted(w) = Indexes(d) /\ Len(Wanted(w)) = Len1(d)
    BY <1>0, <2>1, PagWanted DEF PagWalk
  <2>3. PICK end : /\ end = LastThatFits(d, w.pos + 1, limit, bytes) /\ end > w.pos
                   /\ Serve(w, end, SubSeq(Indexes(d), w.pos + 1, end), end = Len1(d))
    BY <1>3, Zenon DEF ReadArtifactContent
  <2>4. end \in Nat /\ end <= Len1(d)
    <3>1. w.pos + 1 \in Nat \ {0}
      BY <1>0
    <3> QED BY <2>3, <3>1, PagFits, Zenon
  <2>5. w.pos <= end
    BY <1>0, <2>3, <2>4
  <2>6. Serve(w, end, SubSeq(Wanted(w), w.pos + 1, end), end = Len1(d))
    BY <2>2, <2>3
  <2> QED BY <2>1, <2>2, <2>4, <2>5, <2>6, PagNextPart
<1> QED
  BY <1>1, <1>2, <1>3

LEMMA PagBegin ==
    ASSUME PagInv, NEW op \in PagOps, NEW d \in DOMAIN Documents, NEW f, NEW size, BeginApiWalk(op, d, f, size)
    PROVE  PagInv'
<1>1. PICK w : w = NewWalk(op, d, f, size)
  OBVIOUS
<1>2. /\ DOMAIN w = {"op", "doc", "filter", "size", "pos", "got", "done"}
      /\ w.op = op /\ w.doc = d /\ w.filter = f /\ w.pos = 0 /\ w.got = <<>> /\ w.done = FALSE
  BY <1>1 DEF NewWalk
<1>3. Wanted(w) \in Seq(Nat) /\ Len(Wanted(w)) \in Nat /\ Len1(d) \in Nat
  BY <1>2, PagWanted, PagIndexes
<1>4. SubSeq(Wanted(w), 1, 0) = <<>>
  BY <1>3
<1>5. Filtered(d, f)[1][0] = <<>>
  BY FilteredByItem
<1>6. PagWalk(w)
  BY <1>2, <1>3, <1>4, <1>5 DEF PagWalk, PagGiven
<1>7. walks' = walks \cup {w}
  BY <1>1 DEF BeginApiWalk
<1> QED
  BY <1>6, <1>7 DEF PagInv

LEMMA PagInductive == PagInv /\ [PagNext]_pagVars => PagInv'
<1> SUFFICES ASSUME PagInv, [PagNext]_pagVars PROVE PagInv'
    OBVIOUS
<1>1. CASE UNCHANGED pagVars
  BY <1>1 DEF PagInv, pagVars
<1>2. ASSUME NEW d \in DOMAIN Documents, NEW f \in Filters, NEW size \in PageSizes,
             \/ \E op \in {"findings", "history"} : BeginApiWalk(op, d, f, size)
             \/ \E op \in {"files", "download", "content"} : BeginApiWalk(op, d, AnyTag, size)
      PROVE  PagInv'
  BY <1>2, PagBegin DEF PagOps
<1>3. ASSUME NEW w \in walks, NEW d \in DOMAIN Documents, NEW f \in Filters, NEW limit \in PageSizes,
             \/ ListReportFindings(w, d, f, limit)
             \/ ListExportFiles(w, d, limit)
             \/ ListProfileHistory(w, d, f, limit)
             \/ DownloadExport(w, d, limit)
             \/ \E bytes \in PageSizes : ReadArtifactContent(w, d, limit, bytes)
      PROVE  PagInv'
  <2>1. limit \in Nat
    BY DocumentsAssumption
  <2> QED BY <1>3, <2>1, PagStep, PagHistory
<1> QED
  BY <1>1, <1>2, <1>3, Zenon DEF PagNext

LEMMA PagInvImplies == PagInv => WalksWhole
<1> SUFFICES ASSUME PagInv, NEW w \in walks
             PROVE  IsPrefix(w.got, Wanted(w)) /\ (w.done => w.got = Wanted(w))
    BY DEF WalksWhole
<1> DEFINE all == Wanted(w)
<1>1. PagWalk(w) /\ w.pos \in Nat /\ all \in Seq(Nat) /\ Len(all) \in Nat /\ Len1(w.doc) \in Nat
  BY PagWanted, PagIndexes DEF PagInv, PagWalk
<1>2. CASE w.op # "history"
  <2>1. w.pos <= Len(all) /\ w.got = SubSeq(all, 1, w.pos) /\ (w.done => w.pos = Len(all))
    BY <1>1, <1>2 DEF PagWalk, PagGiven
  <2> HIDE DEF all
  <2>2. Len(SubSeq(all, 1, w.pos)) = w.pos /\ SubSeq(SubSeq(all, 1, w.pos), 1, w.pos) = SubSeq(all, 1, w.pos)
        /\ SubSeq(all, 1, Len(all)) = all
    BY <1>1, <2>1
  <2>3. IsPrefix(w.got, all) /\ (w.done => w.got = all)
    BY <2>1, <2>2 DEF IsPrefix
  <2> QED BY <2>3 DEF all
<1>3. CASE w.op = "history"
  <2> DEFINE rest == Filtered(w.doc, w.filter)[w.pos + 1][Len1(w.doc)]
  <2>1. w.pos <= Len1(w.doc) /\ w.got = Filtered(w.doc, w.filter)[1][w.pos] /\ (w.done => w.pos = Len1(w.doc))
        /\ all = Filtered(w.doc, w.filter)[1][Len1(w.doc)]
    BY <1>1, <1>3, PagWanted DEF PagWalk, PagGiven
  <2>2. w.got \o rest = all
    <3>1. PICK mid \in Nat : mid = w.pos
      BY <1>1
    <3>2. PICK n \in Nat : n = Len1(w.doc)
      BY <1>1
    <3>3. PICK d, f : d = w.doc /\ f = w.filter
      OBVIOUS
    <3>4. mid <= n
      BY <2>1, <3>1, <3>2
    <3>5. Filtered(d, f)[1][mid] \o Filtered(d, f)[mid + 1][n] = Filtered(d, f)[1][n]
      BY <3>4, FilteredJoins
    <3> QED BY <2>1, <3>1, <3>2, <3>3, <3>5, Zenon
  <2>3. w.got \in Seq(Nat) /\ rest \in Seq(Nat)
    BY <1>1, <2>1, FilteredIsSeq
  <2> HIDE DEF all, rest
  <2>4. /\ Len(w.got) <= Len(w.got \o rest)
        /\ SubSeq(w.got, 1, Len(w.got)) = SubSeq(w.got \o rest, 1, Len(w.got))
    BY <2>3
  <2>5. IsPrefix(w.got, all) /\ (w.done => w.got = all)
    BY <2>1, <2>2, <2>4 DEF IsPrefix
  <2> QED BY <2>5 DEF all
<1> QED
  BY <1>2, <1>3

(* list_report_findings, list_export_files, list_profile_history,            *)
(* download_export and read_artifact_content: for any documents, filters and *)
(* page sizes, and any number of clients.                                    *)
THEOREM PagedReadsWhole == PagSpec => []WalksWhole
<1>1. PagInit => PagInv
  BY DEF PagInit, PagInv
<1> QED
  BY <1>1, PagInductive, PagInvImplies, PTL DEF PagSpec

===============================================================================
