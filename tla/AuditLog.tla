------------------------------- MODULE AuditLog -------------------------------
(***************************************************************************)
(* The audit log of one Workspace (stillflow-storage/src/audit.rs):        *)
(* appends that may be retried, expiry that keeps the row, and a query     *)
(* that walks the log page by page.  append and expire are immediate       *)
(* transactions.  The digest of an event covers its identity and its       *)
(* content, not its idempotency key.                                       *)
(***************************************************************************)
EXTENDS Integers, FiniteSets

CONSTANTS
    AuEvents, AuKeys, AuBodies,  \* event identities, idempotency keys, contents
    AuditPage                    \* page limit of the walk

ASSUME AuditAssumption == IsFiniteSet(AuEvents) /\ AuditPage \in Nat \ {0}

VARIABLES
    auRows,    \* audit_events: [event, key, body, sequence, expired]
    auAnswer,  \* history: the sequence append first answered for a draft (0: none)
    auCursor,  \* the walk's cursor
    auWalk,    \* "idle" | "walking" | "done"
    auAll,     \* history: sequences not expired when the walk began
    auGiven    \* history: sequences returned by the walk, with repetitions dropped

auVars == <<auRows, auAnswer, auCursor, auWalk, auAll, auGiven>>

Drafts == [event : AuEvents, key : {{}} \cup {{k} : k \in AuKeys}, body : AuBodies]

AuInit ==
    /\ auRows = {} /\ auAnswer = [d \in Drafts |-> 0]
    /\ auCursor = 0 /\ auWalk = "idle" /\ auAll = {} /\ auGiven = {}

\* COALESCE(MAX(sequence), 0) + 1.  The mutant does not see expired rows.
NextOfActive == 1 + Cardinality({r \in auRows : ~r.expired})
NextSequence == IF auRows = {} THEN 1
                ELSE 1 + (CHOOSE n \in {r.sequence : r \in auRows} : \A r \in auRows : r.sequence <= n)

\* Any row with the event's identity or its key answers (LIMIT 1): the same
\* digest is the earlier append again, another one is refused.
SameEvent(d) == {r \in auRows : r.event = d.event \/ (d.key # {} /\ r.key = d.key)}
InsertAudit(d) ==
    /\ SameEvent(d) = {}
    /\ auRows' = auRows \cup {[event |-> d.event, key |-> d.key, body |-> d.body,
                               sequence |-> NextSequence, expired |-> FALSE]}
    /\ auAnswer' = [auAnswer EXCEPT ![d] = IF @ = 0 THEN NextSequence ELSE @]
    /\ UNCHANGED <<auCursor, auWalk, auAll, auGiven>>
AppendAudit(d) ==
    \/ InsertAudit(d)
    \/ /\ \E r \in SameEvent(d) :
            /\ r.event = d.event /\ r.body = d.body
            /\ auAnswer' = [auAnswer EXCEPT ![d] = IF @ = 0 THEN r.sequence ELSE @]
       /\ UNCHANGED <<auRows, auCursor, auWalk, auAll, auGiven>>

\* append_maintenance_audit_tx, in the transaction of the maintenance it
\* records: the same insertion; a receipt that is there already is accepted
\* silently and another one rolls the maintenance back.
AppendMaintenanceAudit(d) == InsertAudit(d)

ExpireAudit(r) ==
    /\ r \in auRows
    /\ auRows' = (auRows \ {r}) \cup {[r EXCEPT !.expired = TRUE]}
    /\ UNCHANGED <<auAnswer, auCursor, auWalk, auAll, auGiven>>

BeginAuditWalk ==
    /\ auWalk = "idle" /\ auWalk' = "walking"
    /\ auAll' = {r.sequence : r \in {x \in auRows : ~x.expired}}
    /\ UNCHANGED <<auRows, auAnswer, auCursor, auGiven>>

\* query without expired rows: limit + 1 rows after the cursor.
QueryAudit ==
    LET found == {r.sequence : r \in {x \in auRows : ~x.expired /\ x.sequence > auCursor}}
        page == {n \in found : Cardinality({x \in found : x < n}) < AuditPage} IN
    /\ auWalk = "walking"
    /\ auGiven' = auGiven \cup page
    /\ IF Cardinality(found) > AuditPage
       THEN auCursor' = (CHOOSE n \in page : \A x \in page : x <= n) /\ UNCHANGED auWalk
       ELSE auWalk' = "done" /\ UNCHANGED auCursor
    /\ UNCHANGED <<auRows, auAnswer, auAll>>

AuNext ==
    \/ \E d \in Drafts : AppendAudit(d) \/ AppendMaintenanceAudit(d)
    \/ \E r \in auRows : ExpireAudit(r)
    \/ BeginAuditWalk \/ QueryAudit
AuSpec == AuInit /\ [][AuNext]_auVars

-----------------------------------------------------------------------------
\* append, expire and query: an event has one row whatever is retried, with the
\* content that was accepted and the sequence first answered; sequences are 1
\* to n with no gap, also after expiry; and a finished walk has returned every
\* event that was there when it began and has not expired since.
AuditTrail ==
    /\ {r.sequence : r \in auRows} = 1..Cardinality(auRows)
    /\ \A r, s \in auRows : (r.event = s.event \/ (r.key # {} /\ r.key = s.key)) => r = s
    /\ \A d \in Drafts : auAnswer[d] # 0 =>
         \E r \in auRows : r.sequence = auAnswer[d] /\ r.event = d.event /\ r.body = d.body
    /\ auWalk = "done" =>
         \A r \in auRows : r.sequence \in auAll => r.expired \/ r.sequence \in auGiven
=============================================================================
