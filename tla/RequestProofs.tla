---------------------------- MODULE RequestProofs ----------------------------
(***************************************************************************)
(* What concurrent and retried requests keep: editors that save one graph  *)
(* (GraphRevisions), triggers that are retried with their key              *)
(* (ManualTrigger), typed Jobs whose inputs are taken away (TypedJobs),    *)
(* drift Runs over a history that grows and is tombstoned (ProfileDrift),  *)
(* Sessions, assets and plan versions whose check and write are two steps  *)
(* (WorkspaceResources), and the requests the automation scheduler makes   *)
(* however many ticks race, whenever the process dies and however the      *)
(* clock is set (AutomationScheduler, inductive invariant AutInv).         *)
(***************************************************************************)
EXTENDS GraphRevisions, ManualTrigger, TypedJobs, ProfileDrift, WorkspaceResources, AutomationScheduler,
        FiniteSetTheorems, SequenceTheorems, TLAPS

(* The revisions of a graph.                                               *)

Revisions == [content : Contents, format : Formats, parent : Nat, link : BOOLEAN]
Saves == [op : {"save"}, at : Nat, parent : Nat, content : Contents, format : Formats, basis : Int]
Links == [op : {"link"}, at : Nat, parent : Nat]

GrTyped ==
    /\ grRevisions \in Seq(Revisions)
    /\ grBasis \in Seq(Int) /\ Len(grBasis) = Current
    /\ grBase \in [Editors -> Nat]
    /\ grTx \in [Editors -> SUBSET (Saves \cup Links)]
    /\ grCommits \in Nat

\* An open transaction that SQLite would still let commit read the newest
\* revision, differs from it, and names it if it names one.
TxSound(tx) ==
    /\ tx.at <= grCommits
    /\ tx.at = grCommits =>
         /\ tx.parent = Current
         /\ tx.op = "link" => Current > 0
         /\ tx.op = "save" =>
              tx.basis \in {-1, Current} /\ ~SameContent(tx.content, tx.format)

GrInv == GrTyped /\ NoLostUpdate /\ \A e \in Editors : \A tx \in grTx[e] : TxSound(tx)

LEMMA OpenKeepsGraph ==
    ASSUME GrInv, NEW e \in Editors, NEW tx \in Saves \cup Links, TxSound(tx),
           grTx' = [grTx EXCEPT ![e] = {tx}], UNCHANGED <<grRevisions, grBase, grCommits, grBasis>>
    PROVE  GrInv'
<1>1. GrTyped' /\ NoLostUpdate'
  BY DEF GrInv, GrTyped, NoLostUpdate, Current
<1>2. \A x : TxSound(x) => TxSound(x)'
  BY DEF TxSound, Current, SameContent
<1>3. \A x \in Editors : \A y \in grTx'[x] : TxSound(y)'
  BY <1>2 DEF GrInv, GrTyped
<1> QED BY <1>1, <1>3 DEF GrInv

\* A commit makes every other open transaction's snapshot stale.
LEMMA CommitKeepsTransactions ==
    ASSUME GrInv, NEW e \in Editors, grTx' = [grTx EXCEPT ![e] = {}], grCommits' = grCommits + 1
    PROVE  \A x \in Editors : \A y \in grTx'[x] : TxSound(y)'
<1> SUFFICES ASSUME NEW x \in Editors, NEW y \in grTx'[x] PROVE TxSound(y)'
    OBVIOUS
<1>1. y \in grTx[x] /\ y \in Saves \cup Links
  BY DEF GrInv, GrTyped
<1>2. y.at \in Nat /\ y.at <= grCommits
  BY <1>1 DEF GrInv, TxSound, Saves, Links
<1> QED BY <1>2 DEF GrInv, GrTyped, TxSound

LEMMA LinkKeepsGraph ==
    ASSUME GrInv, NEW n \in 1..Current, Len(grRevisions) = Current,
           grRevisions' = [grRevisions EXCEPT ![n].link = TRUE], UNCHANGED grBasis
    PROVE  /\ grRevisions' \in Seq(Revisions) /\ Len(grRevisions') = Len(grRevisions) /\ NoLostUpdate'
<1> DEFINE row == [grRevisions[n] EXCEPT !.link = TRUE]
<1>1. grRevisions \in Seq(Revisions) /\ n \in 1..Len(grRevisions) /\ grRevisions[n] \in Revisions
  BY DEF GrInv, GrTyped, Current
<1>2. row \in Revisions
  BY <1>1 DEF Revisions
<1>3. row.content = grRevisions[n].content /\ row.format = grRevisions[n].format
      /\ row.parent = grRevisions[n].parent
  BY <1>1 DEF Revisions
<1>4. grRevisions' = [grRevisions EXCEPT ![n] = row]
  BY <1>1
<1> HIDE DEF row
<1>5. grRevisions' \in Seq(Revisions) /\ Len(grRevisions') = Len(grRevisions)
  <2>1. grRevisions \in [1..Len(grRevisions) -> Revisions] /\ Len(grRevisions) \in Nat
    BY <1>1
  <2>2. grRevisions' \in [1..Len(grRevisions) -> Revisions]
    BY <2>1, <1>2, <1>4
  <2>3. grRevisions' \in Seq(Revisions)
    BY <2>1, <2>2, SeqDef
  <2>4. DOMAIN grRevisions' = 1..Len(grRevisions)
    BY <2>2
  <2> QED BY <2>1, <2>3, <2>4
<1>6. \A k \in 1..Len(grRevisions) :
        /\ grRevisions'[k].content = grRevisions[k].content
        /\ grRevisions'[k].format = grRevisions[k].format
        /\ grRevisions'[k].parent = grRevisions[k].parent
  BY <1>1, <1>3, <1>4
<1>7. NoLostUpdate'
  <2> SUFFICES ASSUME NEW k \in 1..Len(grRevisions)
               PROVE  /\ grRevisions'[k].parent = k - 1
                      /\ grBasis[k] # -1 => grBasis[k] = k - 1
                      /\ k > 1 => <<grRevisions'[k].content, grRevisions'[k].format>>
                                   # <<grRevisions'[k-1].content, grRevisions'[k-1].format>>
      BY <1>5 DEF NoLostUpdate, Current
  <2>1. k > 1 => k - 1 \in 1..Len(grRevisions)
    BY <1>1
  <2> QED BY <2>1, <1>6 DEF GrInv, NoLostUpdate, Current
<1> QED BY <1>5, <1>7

LEMMA SaveKeepsGraph ==
    ASSUME GrInv, NEW row \in Revisions, NEW basis \in {-1, Current}, row.parent = Current,
           ~SameContent(row.content, row.format),
           grRevisions' = Append(grRevisions, row), grBasis' = Append(grBasis, basis)
    PROVE  /\ grRevisions' \in Seq(Revisions) /\ Len(grRevisions') = Len(grRevisions) + 1
           /\ grBasis' \in Seq(Int) /\ Len(grBasis') = Len(grRevisions') /\ NoLostUpdate'
<1>1. /\ grRevisions \in Seq(Revisions) /\ grBasis \in Seq(Int) /\ Len(grBasis) = Len(grRevisions)
      /\ basis \in Int
  BY DEF GrInv, GrTyped, Current
<1>2. /\ grRevisions' \in Seq(Revisions) /\ Len(grRevisions') = Len(grRevisions) + 1
      /\ grBasis' \in Seq(Int) /\ Len(grBasis') = Len(grRevisions')
  BY <1>1
<1>3. \A k \in 1..Len(grRevisions) : grRevisions'[k] = grRevisions[k] /\ grBasis'[k] = grBasis[k]
  BY <1>1
<1>4. grRevisions'[Len(grRevisions) + 1] = row /\ grBasis'[Len(grRevisions) + 1] = basis
  BY <1>1
<1> SUFFICES ASSUME NEW k \in 1..Len(grRevisions')
             PROVE  /\ grRevisions'[k].parent = k - 1
                    /\ grBasis'[k] # -1 => grBasis'[k] = k - 1
                    /\ k > 1 => <<grRevisions'[k].content, grRevisions'[k].format>>
                                 # <<grRevisions'[k-1].content, grRevisions'[k-1].format>>
    BY <1>2 DEF NoLostUpdate, Current
<1>5. CASE k \in 1..Len(grRevisions)
  <2>1. k > 1 => k - 1 \in 1..Len(grRevisions)
    BY <1>1, <1>5
  <2> QED BY <2>1, <1>3, <1>5 DEF GrInv, NoLostUpdate, Current
<1>6. CASE k = Len(grRevisions) + 1
  <2>1. k - 1 = Len(grRevisions) /\ Len(grRevisions) \in Nat
    BY <1>1, <1>6
  <2>2. k > 1 => grRevisions'[k-1] = grRevisions[Len(grRevisions)]
    BY <2>1, <1>3
  <2>3. /\ grRevisions'[k] = row /\ grBasis'[k] = basis /\ row.parent = k - 1
        /\ basis # -1 => basis = k - 1
    BY <2>1, <1>4, <1>6 DEF Current
  <2>4. k > 1 => <<row.content, row.format>>
                  # <<grRevisions[Len(grRevisions)].content, grRevisions[Len(grRevisions)].format>>
    BY <2>1 DEF SameContent, Current
  <2> QED BY <2>2, <2>3, <2>4
<1> QED BY <1>1, <1>2, <1>5, <1>6

LEMMA WriteKeepsGraph ==
    ASSUME GrInv, NEW e \in Editors, WriteRevision(e) PROVE GrInv'
<1>0. /\ grTx \in [Editors -> SUBSET (Saves \cup Links)] /\ grTx' = [grTx EXCEPT ![e] = {}]
      /\ grRevisions \in Seq(Revisions) /\ grBase \in [Editors -> Nat] /\ grCommits \in Nat
      /\ grTx' \in [Editors -> SUBSET (Saves \cup Links)]
  BY DEF GrInv, GrTyped, WriteRevision
<1>1. PICK tx \in grTx[e] :
        IF ~SnapshotIsCurrent(tx) THEN UNCHANGED <<grRevisions, grBase, grCommits, grBasis>>
        ELSE /\ grCommits < MaxRevisions /\ grCommits' = grCommits + 1
             /\ IF tx.op = "link"
                THEN /\ grRevisions' = [grRevisions EXCEPT ![tx.parent].link = TRUE]
                     /\ UNCHANGED <<grBase, grBasis>>
                ELSE /\ grRevisions' = Append(grRevisions,
                          [content |-> tx.content, format |-> tx.format, parent |-> tx.parent, link |-> FALSE])
                     /\ grBasis' = Append(grBasis, tx.basis)
                     /\ grBase' = [grBase EXCEPT ![e] = tx.parent + 1]
  BY DEF WriteRevision
<1>2. tx \in Saves \cup Links /\ TxSound(tx)
  BY <1>0 DEF GrInv
<1>3. CASE ~SnapshotIsCurrent(tx)
  <2>1. UNCHANGED <<grRevisions, grBase, grCommits, grBasis>>
    BY <1>1, <1>3
  <2>2. \A x : TxSound(x) => TxSound(x)'
    BY <2>1 DEF TxSound, Current, SameContent
  <2>3. \A x \in Editors : \A y \in grTx'[x] : TxSound(y)'
    BY <2>2, <1>0 DEF GrInv
  <2>4. GrTyped' /\ NoLostUpdate'
    BY <2>1, <1>0 DEF GrInv, GrTyped, NoLostUpdate, Current
  <2> QED BY <2>3, <2>4 DEF GrInv
<1>4. CASE SnapshotIsCurrent(tx)
  <2>1. tx.parent = Current /\ tx.at = grCommits /\ grCommits' = grCommits + 1
    BY <1>1, <1>2, <1>4 DEF SnapshotIsCurrent, TxSound
  <2>2. \A x \in Editors : \A y \in grTx'[x] : TxSound(y)'
    BY <2>1, <1>0, CommitKeepsTransactions
  <2>3. CASE tx.op = "link"
    <3>1. tx.parent \in 1..Current
      BY <2>1, <2>3, <1>0, <1>2 DEF TxSound, Current
    <3>2. grRevisions' = [grRevisions EXCEPT ![tx.parent].link = TRUE] /\ UNCHANGED <<grBase, grBasis>>
      BY <1>1, <1>4, <2>3
    <3>3. grRevisions' \in Seq(Revisions) /\ Len(grRevisions') = Len(grRevisions) /\ NoLostUpdate'
      BY <3>1, <3>2, LinkKeepsGraph DEF Current
    <3> QED BY <3>2, <3>3, <2>1, <2>2, <1>0 DEF GrInv, GrTyped, Current
  <2>4. CASE tx.op # "link"
    <3> DEFINE row == [content |-> tx.content, format |-> tx.format, parent |-> tx.parent, link |-> FALSE]
    <3>1. tx \in Saves /\ tx.op = "save"
      BY <1>2, <2>4 DEF Saves, Links
    <3>2. row \in Revisions /\ row.parent = Current /\ row.content = tx.content /\ row.format = tx.format
      BY <3>1, <2>1 DEF Revisions, Saves
    <3>3. tx.basis \in {-1, Current} /\ ~SameContent(row.content, row.format)
      BY <3>1, <3>2, <1>2, <2>1 DEF TxSound
    <3>4. /\ grRevisions' = Append(grRevisions, row) /\ grBasis' = Append(grBasis, tx.basis)
          /\ grBase' = [grBase EXCEPT ![e] = tx.parent + 1]
      BY <1>1, <1>4, <2>4
    <3> HIDE DEF row
    <3>5. /\ grRevisions' \in Seq(Revisions) /\ Len(grRevisions') = Len(grRevisions) + 1
          /\ grBasis' \in Seq(Int) /\ Len(grBasis') = Len(grRevisions') /\ NoLostUpdate'
      BY <3>2, <3>3, <3>4, SaveKeepsGraph
    <3>6. grBase' \in [Editors -> Nat]
      BY <3>4, <3>1, <1>0 DEF Saves
    <3> QED BY <3>5, <3>6, <2>1, <2>2, <1>0 DEF GrInv, GrTyped, Current
  <2> QED BY <2>3, <2>4
<1> QED BY <1>3, <1>4

\* Whatever editors read, save, migrate and link at the same time, the revisions
\* stay one chain in which no update is lost (save, append_migrated).
THEOREM RevisionsChain == GrSpec => []NoLostUpdate
<1>1. GrInit => GrInv
  BY DEF GrInit, GrInv, GrTyped, NoLostUpdate, Current
<1>2. ASSUME GrInv, [GrNext]_grVars PROVE GrInv'
  <2>0. Current \in Nat /\ grCommits \in Nat /\ grRevisions \in Seq(Revisions) /\ grBase \in [Editors -> Nat]
    BY <1>2 DEF GrInv, GrTyped, Current
  <2>1. ASSUME NEW e \in Editors, ReadRevision(e) PROVE GrInv'
    <3>1. \A x : TxSound(x) => TxSound(x)'
      BY <2>1 DEF ReadRevision, TxSound, Current, SameContent
    <3> QED BY <1>2, <2>0, <2>1, <3>1 DEF GrInv, GrTyped, NoLostUpdate, Current, ReadRevision
  <2>2. ASSUME NEW e \in Editors, OpenLink(e) PROVE GrInv'
    <3> DEFINE tx == [op |-> "link", at |-> grCommits, parent |-> Current]
    <3>1. tx \in Links /\ tx.op = "link" /\ tx.at = grCommits /\ tx.parent = Current
      BY <2>0 DEF Links
    <3>2. grTx' = [grTx EXCEPT ![e] = {tx}] /\ UNCHANGED <<grRevisions, grBase, grCommits, grBasis>> /\ Current > 0
      BY <2>2 DEF OpenLink
    <3> HIDE DEF tx
    <3>3. TxSound(tx)
      BY <3>1, <3>2, <2>0 DEF TxSound
    <3> QED BY <3>1, <3>2, <3>3, <1>2, OpenKeepsGraph
  <2>3. ASSUME NEW e \in Editors, NEW format \in Formats, OpenMigration(e, format) PROVE GrInv'
    <3> DEFINE tx == [op |-> "save", at |-> grCommits, parent |-> Current,
                      content |-> grRevisions[Current].content, format |-> format, basis |-> grBase[e]]
    <3>1. /\ grTx' = [grTx EXCEPT ![e] = {tx}] /\ UNCHANGED <<grRevisions, grBase, grCommits, grBasis>>
          /\ Current > 0 /\ grBase[e] = Current /\ grRevisions[Current].format < format
      BY <2>3 DEF OpenMigration, MigrationAccepted
    <3>2. grRevisions[Current] \in Revisions
      BY <2>0, <3>1 DEF Current
    <3>3. /\ tx \in Saves /\ tx.op = "save" /\ tx.at = grCommits /\ tx.parent = Current
          /\ tx.format = format /\ tx.basis = Current
      BY <2>0, <3>1, <3>2 DEF Saves, Revisions
    <3>4. grRevisions[Current].format # format
      BY <3>1, <3>2, GraphRevisionsAssumption DEF GraphRevisionsAssumption, Revisions
    <3> HIDE DEF tx
    <3>5. TxSound(tx)
      BY <3>3, <3>4, <2>0 DEF TxSound, SameContent
    <3> QED BY <3>1, <3>3, <3>5, <1>2, OpenKeepsGraph
  <2>4. ASSUME NEW e \in Editors, NEW content \in Contents, NEW expects \in BOOLEAN, NEW digest,
               OpenSave(e, content, expects, digest)
        PROVE  GrInv'
    <3> DEFINE basis == IF expects THEN grBase[e] ELSE -1
               tx == [op |-> "save", at |-> grCommits, parent |-> Current, content |-> content,
                      format |-> 1, basis |-> basis]
    <3>1. /\ grTx' = [grTx EXCEPT ![e] = {tx}] /\ UNCHANGED <<grRevisions, grBase, grCommits, grBasis>>
          /\ ~SameContent(content, 1) /\ (expects => grBase[e] = Current)
      BY <2>4 DEF OpenSave, ExpectedMatches
    <3>2. basis \in {-1, Current} /\ basis \in Int
      BY <3>1, <2>0
    <3> HIDE DEF basis
    <3>3. /\ tx \in Saves /\ tx.op = "save" /\ tx.at = grCommits /\ tx.parent = Current
          /\ tx.content = content /\ tx.format = 1 /\ tx.basis = basis
      BY <2>0, <3>2, GraphRevisionsAssumption DEF Saves, GraphRevisionsAssumption
    <3> HIDE DEF tx
    <3>4. TxSound(tx)
      BY <3>1, <3>2, <3>3, <2>0 DEF TxSound
    <3> QED BY <3>1, <3>3, <3>4, <1>2, OpenKeepsGraph
  <2>5. CASE UNCHANGED grVars
    BY <1>2, <2>5 DEF grVars, GrInv, GrTyped, NoLostUpdate, Current, TxSound, SameContent
  <2> QED BY <1>2, <2>1, <2>2, <2>3, <2>4, <2>5, WriteKeepsGraph DEF GrNext
<1>3. GrInv => NoLostUpdate
  BY DEF GrInv
<1> QED BY <1>1, <1>2, <1>3, PTL DEF GrSpec
-----------------------------------------------------------------------------
(* Manual triggers.                                                        *)

Digests    == TriggerKeys \X Templates
Executions == [key : TriggerKeys, digest : Digests, job : Nat, state : {"accepted", "submitted"}]
TriggerJobs == [id : Nat, key : Digests]
TriggerCalls == [id : Nat, key : TriggerKeys, template : Templates, execution : SUBSET Executions,
                 pc : {"record", "submit", "mark", "audit"}]

TrTyped ==
    /\ trSchedule.template \in Templates
    /\ trExecutions \subseteq Executions /\ trAudit \subseteq Executions
    /\ trJobs \subseteq TriggerJobs
    /\ trCalls \subseteq TriggerCalls
    /\ trStarted \in Nat

SameRequest(x, y) == x.key = y.key /\ x.digest = y.digest /\ x.job = y.job
HasJob(x) == \E j \in trJobs : j.id = x.job /\ j.key = x.digest

ExecutionsSound ==
    /\ \A x \in trExecutions : x.digest[1] = x.key
    /\ \A x, y \in trExecutions : x.key = y.key => x = y
    /\ \A x \in trExecutions : x.state = "submitted" => HasJob(x)

JobsNamed ==
    /\ \A j \in trJobs : \E x \in trExecutions : x.job = j.id /\ x.digest = j.key
    /\ \A i, j \in trJobs : i.key = j.key => i = j

\* A call past its first transaction works on an execution that is recorded,
\* and past its second on one whose Job exists.
CallSound(c) ==
    c.pc # "record" =>
      \E x \in Executions :
        /\ c.execution = {x} /\ x.state = "accepted"
        /\ \E y \in trExecutions : SameRequest(x, y)
        /\ c.pc \in {"mark", "audit"} => HasJob(x)

TrInv ==
    /\ TrTyped /\ ExecutionsSound /\ JobsNamed
    /\ \A c \in trCalls : CallSound(c)
    /\ \A x \in trAudit : HasJob(x)

LEMMA AtMostOne ==
    ASSUME NEW S, \A a, b \in S : a = b
    PROVE  Cardinality(S) <= 1
<1>1. CASE S = {}
  BY <1>1, FS_EmptySet
<1>2. CASE S # {}
  <2>1. PICK a \in S : TRUE
    BY <1>2
  <2>2. S = {a}
    BY <2>1
  <2>3. Cardinality({a}) = 1
    BY FS_Singleton
  <2> QED BY <2>2, <2>3
<1> QED BY <1>1, <1>2

LEMMA TriggerSound == TrInv => OneJobPerTrigger
<1> SUFFICES ASSUME TrInv PROVE OneJobPerTrigger
    OBVIOUS
<1>1. ASSUME NEW k \in TriggerKeys PROVE Cardinality({j \in trJobs : j.key[1] = k}) <= 1
  <2>1. ASSUME NEW i \in trJobs, NEW j \in trJobs, i.key[1] = k, j.key[1] = k PROVE i = j
    <3>1. PICK x \in trExecutions : x.digest = i.key
      BY DEF TrInv, JobsNamed
    <3>2. PICK y \in trExecutions : y.digest = j.key
      BY DEF TrInv, JobsNamed
    <3>3. x.key = y.key
      BY <2>1, <3>1, <3>2 DEF TrInv, ExecutionsSound
    <3>4. i.key = j.key
      BY <3>1, <3>2, <3>3 DEF TrInv, ExecutionsSound
    <3> QED BY <3>4 DEF TrInv, JobsNamed
  <2> DEFINE S == {j \in trJobs : j.key[1] = k}
  <2>2. \A a, b \in S : a = b
    BY <2>1
  <2> HIDE DEF S
  <2>3. Cardinality(S) <= 1
    BY <2>2, AtMostOne
  <2> QED BY <2>3 DEF S
<1>2. ASSUME NEW k \in TriggerKeys PROVE Cardinality({x \in trExecutions : x.key = k}) <= 1
  <2> DEFINE S == {x \in trExecutions : x.key = k}
  <2>1. \A a, b \in S : a = b
    BY DEF TrInv, ExecutionsSound
  <2> HIDE DEF S
  <2>2. Cardinality(S) <= 1
    BY <2>1, AtMostOne
  <2> QED BY <2>2 DEF S
<1>3. \A j \in trJobs : \E x \in trExecutions : x.job = j.id /\ x.digest = j.key
  BY DEF TrInv, JobsNamed
<1>4. \A x \in trExecutions : x.state = "submitted" => \E j \in trJobs : j.id = x.job
  BY DEF TrInv, ExecutionsSound, HasJob
<1>5. \A x \in trAudit : \E j \in trJobs : j.id = x.job
  BY DEF TrInv, HasJob
<1> QED BY <1>1, <1>2, <1>3, <1>4, <1>5 DEF OneJobPerTrigger

\* Calls come, proceed and go; executions and Jobs stay as they are.
LEMMA CallsKeepTrigger ==
    ASSUME TrInv, UNCHANGED <<trExecutions, trJobs, trAudit>>, trStarted' \in Nat,
           trSchedule'.template \in Templates,
           \A c \in trCalls' : c \in trCalls \/ (c \in TriggerCalls /\ CallSound(c))
    PROVE  TrInv'
<1>1. \A c : CallSound(c) => CallSound(c)'
  BY DEF CallSound, SameRequest, HasJob
<1>2. \A c \in trCalls' : c \in TriggerCalls /\ CallSound(c)'
  BY <1>1 DEF TrInv, TrTyped
<1>3. TrTyped'
  BY <1>2 DEF TrInv, TrTyped
<1>4. ExecutionsSound' /\ JobsNamed' /\ \A x \in trAudit' : HasJob(x)'
  BY DEF TrInv, ExecutionsSound, JobsNamed, HasJob
<1> QED BY <1>2, <1>3, <1>4 DEF TrInv

LEMMA RecordKeepsTrigger ==
    ASSUME TrInv, NEW c \in trCalls, RecordExecution(c) PROVE TrInv'
<1> DEFINE existing == {x \in trExecutions : SameExecution(x, c)}
           fresh == [key |-> c.key, digest |-> <<c.key, c.template>>, job |-> c.id, state |-> "accepted"]
<1>0. /\ c \in TriggerCalls /\ c.pc = "record" /\ UNCHANGED <<trSchedule, trJobs, trAudit, trStarted>>
      /\ trExecutions \subseteq Executions
  BY DEF TrInv, TrTyped, RecordExecution
<1>00. trStarted' \in Nat /\ trSchedule'.template \in Templates
  BY <1>0 DEF TrInv, TrTyped
<1>1. CASE /\ existing = {} /\ trExecutions' = trExecutions \cup {fresh}
           /\ Proceed(c, {[c EXCEPT !.pc = "submit", !.execution = {fresh}]})
  <2> DEFINE next == [c EXCEPT !.pc = "submit", !.execution = {fresh}]
  <2>1. /\ fresh \in Executions /\ fresh.key = c.key /\ fresh.digest = <<c.key, c.template>>
        /\ fresh.state = "accepted" /\ fresh.digest[1] = fresh.key
    BY <1>0 DEF Executions, Digests, TriggerCalls
  <2>2. \A x \in trExecutions : x.key # fresh.key
    BY <1>1, <2>1 DEF SameExecution
  <2> HIDE DEF fresh
  <2>3. next \in TriggerCalls /\ next.pc = "submit" /\ next.execution = {fresh}
    BY <2>1, <1>0 DEF TriggerCalls
  <2> HIDE DEF next
  <2>4. trCalls' = (trCalls \ {c}) \cup {next} /\ trExecutions' = trExecutions \cup {fresh}
    BY <1>1 DEF Proceed, next
  <2>5. \A d : CallSound(d) => CallSound(d)'
    BY <2>4, <1>0 DEF CallSound, SameRequest, HasJob
  <2>6. CallSound(next)'
    BY <2>1, <2>3, <2>4 DEF CallSound, SameRequest
  <2>7. \A d \in trCalls' : d \in TriggerCalls /\ CallSound(d)'
    BY <2>3, <2>4, <2>5, <2>6 DEF TrInv, TrTyped
  <2>8. TrTyped'
    BY <2>1, <2>4, <2>7, <1>0 DEF TrInv, TrTyped
  <2>9. ExecutionsSound'
    <3>1. \A x \in trExecutions' : x \in trExecutions \/ x = fresh
      BY <2>4
    <3> QED BY <3>1, <2>1, <2>2, <1>0 DEF TrInv, ExecutionsSound, HasJob
  <2>10. JobsNamed' /\ \A x \in trAudit' : HasJob(x)'
    BY <2>4, <1>0 DEF TrInv, JobsNamed, HasJob
  <2> QED BY <2>7, <2>8, <2>9, <2>10 DEF TrInv
<1>2. ASSUME NEW x \in existing, UNCHANGED trExecutions, x.digest = <<c.key, c.template>>,
             x.state # "submitted", Proceed(c, {[c EXCEPT !.pc = "submit", !.execution = {x}]})
      PROVE  TrInv'
  <2> DEFINE next == [c EXCEPT !.pc = "submit", !.execution = {x}]
  <2>1. x \in trExecutions /\ x \in Executions /\ x.state = "accepted"
    BY <1>0, <1>2 DEF Executions
  <2>2. next \in TriggerCalls /\ next.pc = "submit" /\ next.execution = {x}
    BY <2>1, <1>0 DEF TriggerCalls
  <2>3. trCalls' = (trCalls \ {c}) \cup {next}
    BY <1>2 DEF Proceed
  <2> HIDE DEF next
  <2>4. CallSound(next)
    BY <2>1, <2>2 DEF CallSound, SameRequest
  <2> QED BY <2>2, <2>3, <2>4, <1>0, <1>00, <1>2, CallsKeepTrigger
<1>3. ASSUME UNCHANGED trExecutions, Proceed(c, {}) PROVE TrInv'
  BY <1>0, <1>00, <1>3, CallsKeepTrigger DEF Proceed
<1> QED BY <1>1, <1>2, <1>3 DEF RecordExecution

LEMMA SubmitKeepsTrigger ==
    ASSUME TrInv, NEW c \in trCalls, NEW accepted \in BOOLEAN, SubmitExecution(c, accepted) PROVE TrInv'
<1>0. /\ c \in TriggerCalls /\ c.pc = "submit" /\ UNCHANGED <<trSchedule, trExecutions, trAudit, trStarted>>
      /\ trExecutions \subseteq Executions /\ trJobs \subseteq TriggerJobs
      /\ trStarted' \in Nat /\ trSchedule'.template \in Templates
  BY DEF TrInv, TrTyped, SubmitExecution
<1>1. PICK x \in Executions : /\ c.execution = {x} /\ x.state = "accepted"
                              /\ \E y \in trExecutions : SameRequest(x, y)
  BY <1>0 DEF TrInv, CallSound
<1>2. PICK y \in trExecutions : SameRequest(x, y)
  BY <1>1
<1>3. CASE ~accepted
  <2>1. UNCHANGED trJobs /\ Proceed(c, {})
    BY <1>3, <1>1 DEF SubmitExecution
  <2> QED BY <2>1, <1>0, CallsKeepTrigger DEF Proceed
<1>4. CASE accepted
  <2> DEFINE next == [c EXCEPT !.pc = "mark"]
             submitted == [id |-> x.job, key |-> x.digest]
  <2>1. /\ trJobs' = IF \E j \in trJobs : j.key = x.digest THEN trJobs ELSE trJobs \cup {submitted}
        /\ trCalls' = (trCalls \ {c}) \cup {next}
    BY <1>4, <1>1 DEF SubmitExecution, Proceed
  <2>2. next \in TriggerCalls /\ next.pc = "mark" /\ next.execution = {x}
    BY <1>0, <1>1 DEF TriggerCalls
  <2>3. submitted \in TriggerJobs /\ submitted.id = x.job /\ submitted.key = x.digest
    BY <1>1 DEF TriggerJobs, Executions
  <2> HIDE DEF next, submitted
  <2>4. CASE \E j \in trJobs : j.key = x.digest
    <3>1. PICK j \in trJobs : j.key = x.digest
      BY <2>4
    <3>2. PICK z \in trExecutions : z.job = j.id /\ z.digest = j.key
      BY DEF TrInv, JobsNamed
    <3>3. z.key = y.key
      BY <3>1, <3>2, <1>2 DEF TrInv, ExecutionsSound, SameRequest
    <3>4. z = y
      BY <3>3 DEF TrInv, ExecutionsSound
    <3>5. HasJob(x)
      BY <3>1, <3>2, <3>4, <1>2 DEF HasJob, SameRequest
    <3>6. CallSound(next)
      BY <3>5, <2>2, <1>1 DEF CallSound
    <3>7. UNCHANGED trJobs
      BY <2>1, <2>4
    <3> QED BY <3>6, <3>7, <2>1, <2>2, <1>0, CallsKeepTrigger
  <2>5. CASE ~\E j \in trJobs : j.key = x.digest
    <3>1. trJobs' = trJobs \cup {submitted}
      BY <2>1, <2>5
    <3>2. \A d : HasJob(d) => HasJob(d)'
      BY <3>1 DEF HasJob
    <3>3. \A d : CallSound(d) => CallSound(d)'
      BY <3>2, <1>0 DEF CallSound
    <3>4. HasJob(x)'
      BY <3>1, <2>3 DEF HasJob
    <3>5. CallSound(next)'
      BY <3>4, <2>2, <1>0, <1>1 DEF CallSound
    <3>6. \A d \in trCalls' : d \in TriggerCalls /\ CallSound(d)'
      BY <3>3, <3>5, <2>1, <2>2 DEF TrInv, TrTyped
    <3>7. TrTyped'
      BY <3>1, <3>6, <2>3, <1>0 DEF TrInv, TrTyped
    <3>8. ExecutionsSound' /\ \A d \in trAudit' : HasJob(d)'
      BY <3>2, <1>0 DEF TrInv, ExecutionsSound
    <3>9. JobsNamed'
      <4>1. \A j \in trJobs' : j \in trJobs \/ j = submitted
        BY <3>1
      <4>2. y.job = submitted.id /\ y.digest = submitted.key
        BY <2>3, <1>2 DEF SameRequest
      <4>3. \A j \in trJobs' : \E d \in trExecutions' : d.job = j.id /\ d.digest = j.key
        BY <4>1, <4>2, <1>0 DEF TrInv, JobsNamed
      <4>4. \A i, j \in trJobs' : i.key = j.key => i = j
        BY <4>1, <2>3, <2>5 DEF TrInv, JobsNamed
      <4> QED BY <4>3, <4>4 DEF JobsNamed
    <3> QED BY <3>6, <3>7, <3>8, <3>9 DEF TrInv
  <2> QED BY <2>4, <2>5
<1> QED BY <1>3, <1>4

LEMMA MarkKeepsTrigger ==
    ASSUME TrInv, NEW c \in trCalls, MarkSubmitted(c) PROVE TrInv'
<1> DEFINE Marked(x) == IF [x EXCEPT !.state = "accepted"] \in c.execution
                        THEN [x EXCEPT !.state = "submitted"] ELSE x
           next == [c EXCEPT !.pc = "audit"]
<1>0. /\ c \in TriggerCalls /\ c.pc = "mark" /\ UNCHANGED <<trSchedule, trJobs, trAudit, trStarted>>
      /\ trExecutions \subseteq Executions
      /\ trExecutions' = {Marked(x) : x \in trExecutions}
      /\ trCalls' = (trCalls \ {c}) \cup {next}
  BY DEF TrInv, TrTyped, MarkSubmitted, Proceed
<1>1. PICK e \in Executions : c.execution = {e} /\ e.state = "accepted" /\ HasJob(e)
                              /\ \E y \in trExecutions : SameRequest(e, y)
  BY <1>0 DEF TrInv, CallSound
<1>2. next \in TriggerCalls /\ next.pc = "audit" /\ next.execution = {e}
  BY <1>0, <1>1 DEF TriggerCalls
<1>3. ASSUME NEW x \in trExecutions
      PROVE  /\ Marked(x) \in Executions /\ SameRequest(Marked(x), x)
             /\ Marked(x) = x \/ (Marked(x).state = "submitted" /\ HasJob(x))
  <2>1. x \in Executions
    BY <1>0
  <2>2. CASE [x EXCEPT !.state = "accepted"] \in c.execution
    <3> DEFINE plain == [x EXCEPT !.state = "accepted"]
               sent == [x EXCEPT !.state = "submitted"]
    <3>1. /\ sent \in Executions /\ SameRequest(sent, x) /\ sent.state = "submitted"
          /\ SameRequest(plain, x)
      BY <2>1 DEF Executions, SameRequest
    <3>2. plain = e
      BY <2>2, <1>1
    <3>3. HasJob(x)
      BY <3>1, <3>2, <1>1 DEF HasJob, SameRequest
    <3>4. Marked(x) = sent
      BY <2>2
    <3> HIDE DEF sent, Marked
    <3> QED BY <3>1, <3>3, <3>4
  <2>3. CASE [x EXCEPT !.state = "accepted"] \notin c.execution
    BY <2>1, <2>3 DEF SameRequest
  <2> QED BY <2>2, <2>3
<1> HIDE DEF Marked, next
<1>4. \A d : CallSound(d) => CallSound(d)'
  <2>1. \A d, y : y \in trExecutions /\ SameRequest(d, y) => \E z \in trExecutions' : SameRequest(d, z)
    BY <1>0, <1>3 DEF SameRequest
  <2>2. \A d : HasJob(d) => HasJob(d)'
    BY <1>0 DEF HasJob
  <2> QED BY <2>1, <2>2 DEF CallSound
<1>5. CallSound(next)
  BY <1>1, <1>2 DEF CallSound
<1>6. \A d \in trCalls' : d \in TriggerCalls /\ CallSound(d)'
  BY <1>0, <1>2, <1>4, <1>5 DEF TrInv, TrTyped
<1>7. TrTyped'
  BY <1>0, <1>3, <1>6 DEF TrInv, TrTyped
<1>8. ExecutionsSound'
  <2>1. \A z \in trExecutions' : z.digest[1] = z.key
    BY <1>0, <1>3 DEF TrInv, ExecutionsSound, SameRequest
  <2>2. \A y, z \in trExecutions' : y.key = z.key => y = z
    <3> SUFFICES ASSUME NEW a \in trExecutions, NEW b \in trExecutions, Marked(a).key = Marked(b).key
                 PROVE  a = b
        BY <1>0
    <3> QED BY <1>3 DEF TrInv, ExecutionsSound, SameRequest
  <2>3. \A z \in trExecutions' : z.state = "submitted" => HasJob(z)'
    <3> SUFFICES ASSUME NEW a \in trExecutions, Marked(a).state = "submitted" PROVE HasJob(Marked(a))
        BY <1>0 DEF HasJob
    <3>1. HasJob(a)
      BY <1>3 DEF TrInv, ExecutionsSound
    <3> QED BY <3>1, <1>3 DEF HasJob, SameRequest
  <2> QED BY <2>1, <2>2, <2>3 DEF ExecutionsSound
<1>9. JobsNamed'
  <2> SUFFICES ASSUME NEW j \in trJobs PROVE \E z \in trExecutions' : z.job = j.id /\ z.digest = j.key
      BY <1>0 DEF TrInv, JobsNamed
  <2>1. PICK x \in trExecutions : x.job = j.id /\ x.digest = j.key
    BY DEF TrInv, JobsNamed
  <2>2. Marked(x) \in trExecutions' /\ SameRequest(Marked(x), x)
    BY <1>0, <1>3
  <2> QED BY <2>1, <2>2 DEF SameRequest
<1>10. \A x \in trAudit' : HasJob(x)'
  BY <1>0 DEF TrInv, HasJob
<1> QED BY <1>6, <1>7, <1>8, <1>9, <1>10 DEF TrInv

LEMMA AuditKeepsTrigger ==
    ASSUME TrInv, NEW c \in trCalls, AuditTrigger(c) PROVE TrInv'
<1>0. /\ c \in TriggerCalls /\ c.pc = "audit" /\ UNCHANGED <<trSchedule, trExecutions, trJobs, trStarted>>
      /\ trAudit' = trAudit \cup c.execution /\ trCalls' \subseteq trCalls
  BY DEF TrInv, TrTyped, AuditTrigger, Proceed
<1>1. c.execution \subseteq Executions /\ \A x \in c.execution : HasJob(x)
  BY <1>0 DEF TrInv, CallSound
<1>2. TrTyped'
  BY <1>0, <1>1 DEF TrInv, TrTyped
<1>3. ExecutionsSound' /\ JobsNamed' /\ \A x \in trAudit' : HasJob(x)'
  BY <1>0, <1>1 DEF TrInv, ExecutionsSound, JobsNamed, HasJob
<1>4. \A d \in trCalls' : CallSound(d)'
  BY <1>0 DEF TrInv, CallSound, SameRequest, HasJob
<1> QED BY <1>2, <1>3, <1>4 DEF TrInv

\* Whatever retries of a trigger race, die between their transactions and meet
\* a changed template, its key runs one Job, and an execution is submitted and
\* audited only with its Job (trigger_automation).
THEOREM TriggersRunOnce == TrSpec => []OneJobPerTrigger
<1>1. TrInit => TrInv
  BY DEF TrInit, TrInv, TrTyped, ExecutionsSound, JobsNamed
<1>2. ASSUME TrInv, [TrNext]_trVars PROVE TrInv'
  <2>0. trStarted \in Nat /\ trSchedule.template \in Templates
    BY <1>2 DEF TrInv, TrTyped
  <2>1. ASSUME NEW state, NEW template \in Templates, WriteSchedule(state, template) PROVE TrInv'
    BY <1>2, <2>0, <2>1, CallsKeepTrigger DEF WriteSchedule
  <2>2. CASE \E t \in Templates : UpdateAutomation(t)
    BY <2>1, <2>2 DEF UpdateAutomation
  <2>3. CASE \E s \in {"active", "paused"} : TransitionAutomation(s)
    BY <2>0, <2>1, <2>3 DEF TransitionAutomation
  <2>4. CASE DeleteAutomation
    BY <2>0, <2>1, <2>4 DEF DeleteAutomation
  <2>5. ASSUME NEW key \in TriggerKeys, StartTrigger(key) PROVE TrInv'
    <3> DEFINE call == [id |-> trStarted + 1, key |-> key, template |-> trSchedule.template,
                        execution |-> {}, pc |-> "record"]
    <3>1. call \in TriggerCalls /\ CallSound(call)
      BY <2>0 DEF TriggerCalls, CallSound
    <3>2. trCalls' = trCalls \cup {call} /\ trStarted' = trStarted + 1
          /\ UNCHANGED <<trSchedule, trExecutions, trJobs, trAudit>>
      BY <2>5 DEF StartTrigger
    <3> HIDE DEF call
    <3>3. trStarted' \in Nat /\ trSchedule'.template \in Templates
      BY <3>2, <2>0
    <3> QED BY <1>2, <3>1, <3>2, <3>3, CallsKeepTrigger
  <2>6. CASE DieInTrigger
    BY <1>2, <2>0, <2>6, CallsKeepTrigger DEF DieInTrigger
  <2>7. CASE UNCHANGED trVars
    BY <1>2, <2>0, <2>7, CallsKeepTrigger DEF trVars
  <2> QED BY <1>2, <2>2, <2>3, <2>4, <2>5, <2>6, <2>7, RecordKeepsTrigger, SubmitKeepsTrigger,
             MarkKeepsTrigger, AuditKeepsTrigger DEF TrNext
<1> QED BY <1>1, <1>2, TriggerSound, PTL DEF TrSpec
-----------------------------------------------------------------------------
(* Typed Jobs.                                                             *)

RequestDigests == [op : OperationKinds, inputs : SUBSET {"asset", "input"}, policy : 1..2,
                   plan : {{}, {"plan"}, {"otherPlan"}}]
JobRows == [sub : Submissions, digest : RequestDigests, state : {"queued", "running", "succeeded", "failed"},
            outputs : SUBSET OutputKinds, liveAtEnd : BOOLEAN]
RefRows == [kind : OutputKinds, body : BOOLEAN, state : {"staged", "committed", "failed"}]
KeyRows == [key : SubmitKeys, digest : RequestDigests, job : TypedIds]

TjTyped ==
    /\ tjJobs \in [TypedIds -> SUBSET JobRows] /\ \A j \in TypedIds : \A a, b \in tjJobs[j] : a = b
    /\ tjRefs \in [TypedIds -> SUBSET RefRows] /\ \A j \in TypedIds : IsFiniteSet(tjRefs[j])
    /\ tjKeys \subseteq KeyRows

Kinds(s) == {Staging(s)[n] : n \in DOMAIN Staging(s)}

\* The refs of a Run are in the state the Run's own state calls for.
RefsFollow(row, refs) ==
    /\ row.state = "queued" => refs = {}
    /\ row.state = "running" => \A r \in refs : r.state = "staged"
    /\ row.state = "succeeded" => \A r \in refs : r.state = "committed"
    /\ row.state = "failed" => \A r \in refs : r.state = "failed"

Succeeded(j, row) ==
    /\ row.liveAtEnd
    /\ row.outputs = Kinds(row.sub) \cup (IF HasProduct(row.sub.op) THEN {"product"} ELSE {})
    /\ HasProduct(row.sub.op) => j \in tjProducts

TypedRowOK(j, row) ==
    /\ JobReads(row) /\ RefsFollow(row, tjRefs[j])
    /\ row.state = "succeeded" => Succeeded(j, row)

TypedKeysOK ==
    \A e \in tjKeys :
        /\ \A o \in tjKeys : o.key = e.key => o = e
        /\ tjJobs[e.job] # {} /\ \A row \in tjJobs[e.job] : row.digest = e.digest

TjInv ==
    /\ TjTyped /\ TypedKeysOK
    /\ \A j \in TypedIds : (tjJobs[j] = {} => tjRefs[j] = {}) /\ \A row \in tjJobs[j] : TypedRowOK(j, row)

LEMMA TypedSound == TjInv => TypedJobsSound
<1> SUFFICES ASSUME TjInv PROVE TypedJobsSound
    OBVIOUS
<1>1. ASSUME NEW j \in TypedIds, NEW row \in tjJobs[j]
      PROVE  /\ JobReads(row)
             /\ row.state \in {"succeeded", "failed"} => RefsStaged(j) = {}
             /\ row.state # "succeeded" => \A r \in tjRefs[j] : r.state # "committed"
             /\ row.state = "succeeded" => Succeeded(j, row) /\ \A r \in tjRefs[j] : r.state = "committed"
  <2>1. row \in JobRows /\ TypedRowOK(j, row)
    BY DEF TjInv, TjTyped
  <2> QED BY <2>1 DEF TypedRowOK, RefsFollow, RefsStaged, JobRows
<1>2. TypedRowsSound
  BY <1>1 DEF TypedRowsSound, TjInv, TypedKeysOK
<1>3. TypedSuccessSound
  BY <1>1 DEF TypedSuccessSound, Succeeded, Kinds
<1> QED BY <1>2, <1>3 DEF TypedJobsSound

\* The kinds an operation stages are kinds a Job may list.
LEMMA StagedKinds == ASSUME NEW s \in Submissions PROVE Staging(s) \in Seq(OutputKinds)
<1>1. /\ <<"validation", "dedup">> \in Seq(OutputKinds) /\ <<"rejected">> \in Seq(OutputKinds)
      /\ <<"profile", "quality">> \in Seq(OutputKinds) /\ <<"export">> \in Seq(OutputKinds)
      /\ <<"drift">> \in Seq(OutputKinds) /\ <<>> \in Seq(OutputKinds)
  BY DEF OutputKinds
<1>2. VerificationRefs(s.policy) \in Seq(OutputKinds)
  BY <1>1, ConcatProperties DEF VerificationRefs
<1>3. ProfileRefs \in Seq(OutputKinds) /\ ExportRefs \in Seq(OutputKinds) /\ DriftRefs(s.policy) \in Seq(OutputKinds)
  BY <1>1 DEF ProfileRefs, ExportRefs, DriftRefs
<1>4. CASE s.op = "verification"
  BY <1>2, <1>4 DEF Staging
<1>5. CASE s.op = "profile"
  BY <1>3, <1>5 DEF Staging
<1>6. CASE s.op = "export"
  BY <1>3, <1>6 DEF Staging
<1>7. CASE s.op = "drift"
  BY <1>3, <1>7 DEF Staging
<1>8. CASE s.op \notin {"verification", "profile", "export", "drift"}
  BY <1>1, <1>8 DEF Staging
<1> QED BY <1>4, <1>5, <1>6, <1>7, <1>8

\* A step on one Job's row and refs.
LEMMA RowKeepsTyped ==
    ASSUME TjInv, NEW j \in TypedIds, NEW old \in tjJobs[j], NEW row \in JobRows, NEW refs \in SUBSET RefRows,
           IsFiniteSet(refs), tjJobs' = [tjJobs EXCEPT ![j] = {row}], tjRefs' = [tjRefs EXCEPT ![j] = refs],
           UNCHANGED tjKeys, tjProducts \subseteq tjProducts',
           row.sub = old.sub, row.digest = old.digest,
           RefsFollow(row, refs), row.state = "succeeded" \/ row.outputs = {},
           row.state = "succeeded" => Succeeded(j, row)
    PROVE  TjInv'
<1>0. tjJobs \in [TypedIds -> SUBSET JobRows] /\ tjRefs \in [TypedIds -> SUBSET RefRows]
      /\ tjKeys \subseteq KeyRows /\ old \in JobRows
  BY DEF TjInv, TjTyped
<1>1. /\ tjJobs'[j] = {row} /\ tjRefs'[j] = refs
      /\ \A i \in TypedIds \ {j} : tjJobs'[i] = tjJobs[i] /\ tjRefs'[i] = tjRefs[i]
  BY <1>0
<1>2. TjTyped'
  <2>1. \A i \in TypedIds : IsFiniteSet(tjRefs'[i]) /\ \A a, b \in tjJobs'[i] : a = b
    BY <1>1 DEF TjInv, TjTyped
  <2> QED BY <2>1, <1>0 DEF TjTyped
<1>3. \A i, r : Succeeded(i, r) => Succeeded(i, r)'
  BY DEF Succeeded
<1>4. JobReads(row)
  <2>1. JobReads(old)
    BY DEF TjInv, TypedRowOK
  <2>2. OperationReads(row) /\ RequestDigest([row.sub EXCEPT !.plan = PlanOfVersion]) = row.digest
    BY <2>1 DEF JobReads, OperationReads
  <2> QED BY <2>2 DEF JobReads, OutputsRead, RunReads, JobRows
<1>5. ASSUME NEW i \in TypedIds
      PROVE  (tjJobs'[i] = {} => tjRefs'[i] = {}) /\ \A r \in tjJobs'[i] : TypedRowOK(i, r)'
  <2>1. CASE i = j
    BY <2>1, <1>1, <1>3, <1>4 DEF TypedRowOK
  <2>2. CASE i # j
    BY <2>2, <1>1, <1>3 DEF TjInv, TypedRowOK
  <2> QED BY <2>1, <2>2
<1>6. TypedKeysOK'
  <2> SUFFICES ASSUME NEW e \in tjKeys
               PROVE  tjJobs'[e.job] # {} /\ \A r \in tjJobs'[e.job] : r.digest = e.digest
      BY DEF TjInv, TypedKeysOK
  <2>1. e.job \in TypedIds /\ tjJobs[e.job] # {} /\ \A r \in tjJobs[e.job] : r.digest = e.digest
    BY <1>0 DEF TjInv, TypedKeysOK, KeyRows
  <2>2. CASE e.job = j
    BY <2>1, <2>2, <1>1
  <2>3. CASE e.job # j
    BY <2>1, <2>3, <1>1
  <2> QED BY <2>2, <2>3
<1> QED BY <1>2, <1>5, <1>6 DEF TjInv

LEMMA SubmitKeepsTyped ==
    ASSUME TjInv, NEW j \in TypedIds, NEW k \in SubmitKeys, NEW s \in Submissions, SubmitTyped(j, k, s)
    PROVE  TjInv'
<1> DEFINE digest == ResolvedDigest(s)
           row == [sub |-> s, digest |-> digest, state |-> "queued", outputs |-> {}, liveAtEnd |-> TRUE]
           entry == [key |-> k, digest |-> digest, job |-> j]
<1>0. tjJobs \in [TypedIds -> SUBSET JobRows] /\ tjRefs \in [TypedIds -> SUBSET RefRows]
      /\ tjKeys \subseteq KeyRows /\ UNCHANGED <<tjRefs, tjProducts>>
  BY DEF TjInv, TjTyped, SubmitTyped
<1>1. CASE UNCHANGED <<tjJobs, tjKeys>>
  BY <1>0, <1>1 DEF TjInv, TjTyped, TypedKeysOK, TypedRowOK, Succeeded
<1>2. CASE /\ {e \in tjKeys : e.key = k} = {} /\ tjJobs[j] = {} /\ SubmissionValid(s)
           /\ tjJobs' = [tjJobs EXCEPT ![j] = {row}] /\ tjKeys' = tjKeys \cup {entry}
  <2>1. digest \in RequestDigests /\ digest = RequestDigest([s EXCEPT !.plan = PlanOfVersion])
    BY DEF ResolvedDigest, RequestDigest, RequestDigests, Submissions, PlanOfVersion
  <2> HIDE DEF digest
  <2>2. /\ row \in JobRows /\ row.sub = s /\ row.digest = digest /\ row.state = "queued" /\ row.outputs = {}
    BY <2>1 DEF JobRows
  <2>3. entry \in KeyRows /\ entry.key = k /\ entry.digest = digest /\ entry.job = j
    BY <2>1 DEF KeyRows
  <2> HIDE DEF row, entry
  <2>4. /\ tjJobs'[j] = {row} /\ \A i \in TypedIds \ {j} : tjJobs'[i] = tjJobs[i]
        /\ tjJobs' \in [TypedIds -> SUBSET JobRows]
    BY <1>0, <1>2, <2>2
  <2>5. tjRefs[j] = {}
    BY <1>2 DEF TjInv
  <2>6. JobReads(row)
    <3>1. s.op \in OperationKinds
      BY DEF Submissions
    <3> QED BY <3>1, <1>2, <2>1, <2>2 DEF JobReads, OperationReads, OutputsRead, RunReads, SubmissionValid
  <2>7. TypedRowOK(j, row)'
    BY <2>2, <2>5, <2>6, <1>0 DEF TypedRowOK, RefsFollow
  <2>8. \A i, r : TypedRowOK(i, r) => TypedRowOK(i, r)'
    BY <1>0 DEF TypedRowOK, Succeeded
  <2>9. \A i \in TypedIds : (tjJobs'[i] = {} => tjRefs'[i] = {}) /\ \A r \in tjJobs'[i] : TypedRowOK(i, r)'
    <3> SUFFICES ASSUME NEW i \in TypedIds
                 PROVE  (tjJobs'[i] = {} => tjRefs'[i] = {}) /\ \A r \in tjJobs'[i] : TypedRowOK(i, r)'
        OBVIOUS
    <3>1. CASE i = j
      BY <3>1, <2>4, <2>7
    <3>2. CASE i # j
      BY <3>2, <2>4, <2>8, <1>0 DEF TjInv
    <3> QED BY <3>1, <3>2
  <2>10. TypedKeysOK'
    <3>1. \A e \in tjKeys : e.key # k /\ e.job # j /\ e.job \in TypedIds
      BY <1>0, <1>2 DEF TjInv, TypedKeysOK, KeyRows
    <3>2. \A e \in tjKeys' : e \in tjKeys \/ e = entry
      BY <1>2
    <3>3. \A e \in tjKeys' : \A o \in tjKeys' : o.key = e.key => o = e
      BY <3>1, <3>2, <2>3 DEF TjInv, TypedKeysOK
    <3>4. \A e \in tjKeys' : tjJobs'[e.job] # {} /\ \A r \in tjJobs'[e.job] : r.digest = e.digest
      BY <3>1, <3>2, <2>2, <2>3, <2>4 DEF TjInv, TypedKeysOK
    <3> QED BY <3>3, <3>4 DEF TypedKeysOK
  <2>11. TjTyped'
    BY <1>0, <1>2, <2>3, <2>4 DEF TjTyped, TjInv
  <2> QED BY <2>9, <2>10, <2>11 DEF TjInv
<1> QED BY <1>1, <1>2 DEF SubmitTyped

LEMMA EndKeepsTyped ==
    ASSUME TjInv, NEW j \in TypedIds, NEW old \in tjJobs[j], old.state = "running", NEW ok \in BOOLEAN,
           ok => OutputSetValid(j, old.sub), EndTyped(j, old, ok)
    PROVE  TjInv'
<1> DEFINE kinds == {r.kind : r \in RefsStaged(j)}
           outputs == IF ok THEN kinds \cup (IF HasProduct(old.sub.op) THEN {"product"} ELSE {}) ELSE {}
           state == IF ok THEN "succeeded" ELSE "failed"
           ref == IF ok THEN "committed" ELSE "failed"
           row == [old EXCEPT !.state = state, !.outputs = outputs, !.liveAtEnd = InputsLive(old.sub.op)]
           refs == {[r EXCEPT !.state = ref] : r \in tjRefs[j]}
<1>0. /\ tjJobs \in [TypedIds -> SUBSET JobRows] /\ tjRefs \in [TypedIds -> SUBSET RefRows]
      /\ old \in JobRows /\ tjRefs[j] \subseteq RefRows /\ old.sub \in Submissions
  BY DEF TjInv, TjTyped, JobRows
<1>1. tjJobs' = [tjJobs EXCEPT ![j] = {row}] /\ UNCHANGED <<tjProducts, tjKeys>>
  BY DEF EndTyped, SetJob
<1>2. tjRefs' = [tjRefs EXCEPT ![j] = refs]
  BY DEF EndTyped
<1>3. outputs \in SUBSET OutputKinds
  BY <1>0 DEF RefsStaged, RefRows, OutputKinds
<1>4. InputsLive(old.sub.op) \in BOOLEAN
  BY DEF InputsLive
<1>5. state \in {"succeeded", "failed"} /\ ref \in {"committed", "failed"}
  OBVIOUS
<1>6. ok => kinds = Kinds(old.sub) /\ InputsLive(old.sub.op)
            /\ (HasProduct(old.sub.op) => j \in tjProducts)
  <2> SUFFICES ASSUME ok PROVE kinds = Kinds(old.sub) /\ InputsLive(old.sub.op)
                               /\ (HasProduct(old.sub.op) => j \in tjProducts)
      OBVIOUS
  <2>1. OutputSetValid(j, old.sub)
    OBVIOUS
  <2>2. InputsLive(old.sub.op)
    BY <2>1 DEF OutputSetValid, InputsLiveAtEnd
  <2>3. CASE old.sub.op = "materialize"
    <3>1. RefsStaged(j) = {} /\ j \in tjProducts
      BY <2>1, <2>3 DEF OutputSetValid, SnapshotPublished
    <3>2. Staging(old.sub) = <<>>
      BY <2>3 DEF Staging
    <3>3. Kinds(old.sub) = {}
      BY <3>2 DEF Kinds
    <3> QED BY <3>1, <3>3, <2>2
  <2>4. CASE old.sub.op = "verification"
    BY <2>1, <2>2, <2>4 DEF OutputSetValid, BundlePublished, StagedExactly, Kinds
  <2>5. CASE old.sub.op \notin {"materialize", "verification"}
    BY <2>1, <2>2, <2>5 DEF OutputSetValid, StagedExactly, Kinds, HasProduct
  <2> QED BY <2>3, <2>4, <2>5
<1>7. RefsFollow(row, refs) /\ refs \in SUBSET RefRows
  <2>1. \A r \in refs : r \in RefRows /\ r.state = ref
    BY <1>0, <1>5 DEF RefRows
  <2>2. row.state = state
    BY <1>0 DEF JobRows
  <2> HIDE DEF refs, row
  <2> QED BY <2>1, <2>2 DEF RefsFollow
<1> HIDE DEF outputs, refs
<1>11. IsFiniteSet(refs)
  <2>1. IsFiniteSet(tjRefs[j])
    BY DEF TjInv, TjTyped
  <2> DEFINE f == [r \in tjRefs[j] |-> [r EXCEPT !.state = ref]]
  <2>2. f \in Surjection(tjRefs[j], refs)
    BY DEF Surjection, refs
  <2> QED BY <2>1, <2>2, FS_Surjection
<1>8. /\ row \in JobRows /\ row.sub = old.sub /\ row.digest = old.digest /\ row.state = state
      /\ row.outputs = outputs /\ row.liveAtEnd = InputsLive(old.sub.op)
  BY <1>0, <1>3, <1>4, <1>5 DEF JobRows
<1> HIDE DEF row
<1>9. row.state = "succeeded" \/ row.outputs = {}
  BY <1>8 DEF outputs
<1>10. row.state = "succeeded" => Succeeded(j, row)
  BY <1>6, <1>8 DEF Succeeded, outputs
<1> QED BY <1>1, <1>2, <1>7, <1>8, <1>9, <1>10, <1>11, RowKeepsTyped

\* Whatever takes a typed Job's inputs away on its way, its rows read back, its
\* key stays its own, and it succeeds only with its whole output set, its product
\* published and its inputs live (submit_job, claim_job, the terminal transition).
THEOREM TypedJobsKept == TjSpec => []TypedJobsSound
<1>1. TjInit => TjInv
  <2>1. IsFiniteSet({})
    BY FS_EmptySet
  <2> QED BY <2>1 DEF TjInit, TjInv, TjTyped, TypedKeysOK
<1>2. ASSUME TjInv, [TjNext]_tjVars PROVE TjInv'
  <2>0. tjJobs \in [TypedIds -> SUBSET JobRows] /\ tjRefs \in [TypedIds -> SUBSET RefRows]
    BY <1>2 DEF TjInv, TjTyped
  <2>1. ASSUME NEW j \in TypedIds, ClaimTyped(j) PROVE TjInv'
    <3>1. PICK old \in tjJobs[j] :
            /\ old.state = "queued"
            /\ SetJob(j, [old EXCEPT !.state = IF InputsLive(old.sub.op) THEN "running" ELSE "failed"])
            /\ UNCHANGED <<tjWorld, tjRefs, tjProducts, tjKeys, tjAnswer, tjCount>>
      BY <2>1 DEF ClaimTyped
    <3> DEFINE state == IF InputsLive(old.sub.op) THEN "running" ELSE "failed"
               row == [old EXCEPT !.state = state]
    <3>2. old \in JobRows /\ TypedRowOK(j, old) /\ state \in {"running", "failed"}
      BY <1>2, <2>0 DEF TjInv
    <3>3. tjJobs' = [tjJobs EXCEPT ![j] = {row}] /\ UNCHANGED <<tjRefs, tjProducts, tjKeys>>
      BY <3>1 DEF SetJob
    <3>4. tjRefs[j] = {} /\ old.outputs = {}
      BY <3>1, <3>2 DEF TypedRowOK, RefsFollow, JobReads, RunReads
    <3>5. tjRefs' = [tjRefs EXCEPT ![j] = {}] /\ {} \in SUBSET RefRows
      BY <3>3, <3>4, <2>0
    <3> HIDE DEF state
    <3>6. row \in JobRows /\ row.sub = old.sub /\ row.digest = old.digest /\ row.state = state /\ row.outputs = {}
      BY <3>2, <3>4 DEF JobRows
    <3> HIDE DEF row
    <3>7. RefsFollow(row, {}) /\ row.state # "succeeded" /\ IsFiniteSet({})
      BY <3>2, <3>6, FS_EmptySet DEF RefsFollow
    <3> QED BY <1>2, <3>2, <3>3, <3>5, <3>6, <3>7, RowKeepsTyped
  <2>2. ASSUME NEW j \in TypedIds, PublishProduct(j) PROVE TjInv'
    <3>1. tjProducts \subseteq tjProducts' /\ UNCHANGED <<tjJobs, tjRefs, tjKeys>>
      BY <2>2 DEF PublishProduct
    <3> QED BY <1>2, <3>1 DEF TjInv, TjTyped, TypedKeysOK, TypedRowOK, Succeeded
  <2>3. ASSUME NEW j \in TypedIds, StageRef(j) PROVE TjInv'
    <3> DEFINE n == Cardinality(tjRefs[j]) + 1
    <3>1. PICK old \in tjJobs[j] :
            /\ old.state = "running" /\ n <= Len(Staging(old.sub))
            /\ tjRefs' = [tjRefs EXCEPT ![j] = tjRefs[j] \cup {[kind |-> Staging(old.sub)[n],
                              body |-> CarriesBody(Staging(old.sub)[n]), state |-> "staged"]}]
      BY <2>3 DEF StageRef
    <3> DEFINE kind == Staging(old.sub)[n]
               ref == [kind |-> kind, body |-> CarriesBody(kind), state |-> "staged"]
               refs == tjRefs[j] \cup {ref}
    <3>2. /\ old \in JobRows /\ old.sub \in Submissions /\ TypedRowOK(j, old)
          /\ tjRefs[j] \subseteq RefRows /\ IsFiniteSet(tjRefs[j])
      BY <1>2, <2>0 DEF TjInv, TjTyped, JobRows
    <3>3. n \in Nat /\ n >= 1
      BY <3>2, FS_CardinalityType
    <3> HIDE DEF n
    <3>4. kind \in OutputKinds
      <4>1. Staging(old.sub) \in Seq(OutputKinds)
        BY <3>2, StagedKinds
      <4> QED BY <4>1, <3>1, <3>3
    <3> HIDE DEF kind
    <3>5. ref \in RefRows /\ ref.state = "staged"
      BY <3>4 DEF RefRows, CarriesBody
    <3>6. UNCHANGED <<tjJobs, tjKeys, tjProducts>>
      BY <2>3 DEF StageRef
    <3>7. tjRefs' = [tjRefs EXCEPT ![j] = refs]
      BY <3>1 DEF kind
    <3> HIDE DEF ref
    <3>8. refs \in SUBSET RefRows /\ IsFiniteSet(refs)
      BY <3>2, <3>5, FS_AddElement
    <3>9. \A r \in refs : r.state = "staged"
      BY <3>1, <3>2, <3>5 DEF TypedRowOK, RefsFollow
    <3> HIDE DEF refs
    <3>10. tjJobs[j] = {old}
      BY <1>2 DEF TjInv, TjTyped
    <3>11. tjJobs' = [tjJobs EXCEPT ![j] = {old}]
      BY <3>6, <3>10, <2>0
    <3>12. RefsFollow(old, refs) /\ old.outputs = {}
      BY <3>1, <3>2, <3>9 DEF RefsFollow, TypedRowOK, JobReads, RunReads
    <3> QED BY <1>2, <3>1, <3>2, <3>6, <3>7, <3>8, <3>11, <3>12, RowKeepsTyped
  <2>4. ASSUME NEW j \in TypedIds, FinishTyped(j) PROVE TjInv'
    <3>1. PICK old \in tjJobs[j] : old.state = "running" /\ EndTyped(j, old, OutputSetValid(j, old.sub))
      BY <2>4 DEF FinishTyped
    <3>2. OutputSetValid(j, old.sub) \in BOOLEAN
      BY DEF OutputSetValid, SnapshotPublished, BundlePublished, StagedExactly, InputsLiveAtEnd, InputsLive
    <3> QED BY <1>2, <3>1, <3>2, EndKeepsTyped
  <2>5. ASSUME NEW j \in TypedIds, FailTyped(j) PROVE TjInv'
    BY <1>2, <2>5, EndKeepsTyped DEF FailTyped
  <2>6. ASSUME NEW what, TakeAway(what) PROVE TjInv'
    BY <1>2, <2>6 DEF TakeAway, TjInv, TjTyped, TypedKeysOK, TypedRowOK, Succeeded
  <2>7. CASE UNCHANGED tjVars
    BY <1>2, <2>7 DEF tjVars, TjInv, TjTyped, TypedKeysOK, TypedRowOK, Succeeded
  <2> QED BY <1>2, <2>1, <2>2, <2>3, <2>4, <2>5, <2>6, <2>7, SubmitKeepsTyped DEF TjNext
<1> QED BY <1>1, <1>2, TypedSound, PTL DEF TjSpec
-----------------------------------------------------------------------------
(* Profile history and drift.                                              *)

ArtifactRows == [body : ProfileBodies, whole : BOOLEAN, version : Nat, state : {"committed", "tombstoned"}]
EntryRows == [profile : Profiles, kind : ProfileKinds, state : {"active", "tombstoned"}]
Ended == [candidate : Nat, latest : BOOLEAN, phase : {"failed", "no_report"}]
Compared == [candidate : Nat, latest : BOOLEAN, baseline : Nat, key : ProfileBodies \X ProfileBodies,
             phase : {"compared", "publishing", "reused", "failed", "committed", "answered"}]
ComparisonRows == [key : ProfileBodies \X ProfileBodies, baseline : Nat, candidate : Nat, job : DriftJobs,
                   latest : BOOLEAN, active : BOOLEAN]

PdTyped ==
    /\ DOMAIN pdArtifacts \subseteq Profiles
    /\ \A p \in DOMAIN pdArtifacts : pdArtifacts[p] \in ArtifactRows
    /\ pdArtifacts = [p \in DOMAIN pdArtifacts |-> pdArtifacts[p]]
    /\ pdUnrecorded \subseteq DOMAIN pdArtifacts
    /\ pdHistory \in Seq(EntryRows)
    /\ pdJobs \in [DriftJobs -> SUBSET (Ended \cup Compared)]
    /\ pdComparisons \subseteq ComparisonRows

\* An entry describes the artifact it was recorded for.
EntriesDescribe ==
    \A n \in DOMAIN pdHistory :
        pdHistory[n].profile \in DOMAIN pdArtifacts /\ pdHistory[n].kind.version = Profile(n).version

\* Baseline b and candidate c of a comparison under key.
Pair(b, c, key) ==
    /\ b \in DOMAIN pdHistory /\ c \in DOMAIN pdHistory /\ b < c
    /\ key = Key(b, c) /\ pdHistory[b].kind.version = pdHistory[c].kind.version

\* No entry eligible for the candidate is newer than the baseline; what is
\* eligible only becomes less.
NoneNewer(b, c) == pdHistory[b].kind.whole /\ \A m \in Eligible(c) : m <= b

DriftJobOK(dj) ==
    dj \in Compared =>
        /\ Pair(dj.baseline, dj.candidate, dj.key)
        /\ dj.latest => NoneNewer(dj.baseline, dj.candidate)
        /\ dj.phase \in {"committed", "reused"} =>
             \E c \in pdComparisons : c.key = dj.key /\ c.candidate = dj.candidate /\ c.baseline = dj.baseline

ComparisonsOK ==
    \A c \in pdComparisons :
        /\ Pair(c.baseline, c.candidate, c.key) /\ c.latest /\ c.active
        /\ \A d \in pdComparisons : d.key = c.key => d = c

PdInv ==
    /\ PdTyped /\ EntriesDescribe /\ ComparisonsOK
    /\ \A j \in DriftJobs : \A dj \in pdJobs[j] : DriftJobOK(dj)

LEMMA DriftFollows == PdInv => DriftSound
<1> SUFFICES ASSUME PdInv PROVE DriftSound
    OBVIOUS
<1>1. ComparisonSound
  <2> SUFFICES ASSUME NEW c \in pdComparisons
               PROVE  /\ c.key = Key(c.baseline, c.candidate) /\ c.baseline < c.candidate
                      /\ Profile(c.baseline).version = Profile(c.candidate).version
                      /\ c.latest /\ c.active
                      /\ \A d \in pdComparisons : d.key = c.key => d = c
      BY DEF ComparisonSound
  <2>1. Pair(c.baseline, c.candidate, c.key) /\ c.latest /\ c.active
        /\ \A d \in pdComparisons : d.key = c.key => d = c
    BY DEF PdInv, ComparisonsOK
  <2>2. Profile(c.baseline).version = Profile(c.candidate).version
    BY <2>1 DEF PdInv, EntriesDescribe, Pair
  <2> QED BY <2>1, <2>2 DEF Pair
<1>2. DriftOutputOwn
  <2> SUFFICES ASSUME NEW j \in DriftJobs, NEW dj \in pdJobs[j], dj.phase \in {"committed", "reused"}
               PROVE  \E c \in pdComparisons : c.key = dj.key /\ c.candidate = dj.candidate /\ c.baseline = dj.baseline
      BY DEF DriftOutputOwn
  <2>1. dj \in Compared /\ DriftJobOK(dj)
    BY DEF PdInv, PdTyped, Ended
  <2> QED BY <2>1 DEF DriftJobOK
<1> QED BY <1>1, <1>2 DEF DriftSound

\* The history and the artifacts only grow and end: bodies, versions, profiles
\* and kinds stay, and nothing tombstoned comes back.
HistoryGrows ==
    /\ \A n \in DOMAIN pdHistory :
         /\ n \in DOMAIN pdHistory'
         /\ pdHistory'[n].profile = pdHistory[n].profile /\ pdHistory'[n].kind = pdHistory[n].kind
         /\ pdHistory'[n].state = "active" => pdHistory[n].state = "active"
    /\ \A p \in DOMAIN pdArtifacts :
         /\ p \in DOMAIN pdArtifacts'
         /\ pdArtifacts'[p].body = pdArtifacts[p].body /\ pdArtifacts'[p].version = pdArtifacts[p].version
         /\ pdArtifacts'[p].state = "committed" => pdArtifacts[p].state = "committed"

LEMMA GrowthKeepsDrift ==
    ASSUME PdInv, PdTyped', EntriesDescribe', HistoryGrows, UNCHANGED <<pdJobs, pdComparisons>>
    PROVE  PdInv'
<1>0. pdHistory \in Seq(EntryRows) /\ DOMAIN pdHistory = 1..Len(pdHistory) /\ Len(pdHistory) \in Nat
  BY DEF PdInv, PdTyped
<1>1. ASSUME NEW b, NEW c, NEW key, Pair(b, c, key) PROVE Pair(b, c, key)'
  <2>1. b \in DOMAIN pdHistory' /\ c \in DOMAIN pdHistory' /\ pdHistory'[b].kind.version = pdHistory'[c].kind.version
    BY <1>1 DEF Pair, HistoryGrows
  <2>2. pdHistory[b].profile \in DOMAIN pdArtifacts /\ pdHistory[c].profile \in DOMAIN pdArtifacts
    BY <1>1 DEF Pair, PdInv, EntriesDescribe
  <2>3. Key(b, c)' = Key(b, c)
    BY <1>1, <2>2 DEF Pair, HistoryGrows, Key, Profile
  <2> QED BY <1>1, <2>1, <2>3 DEF Pair
<1>2. ASSUME NEW b \in DOMAIN pdHistory, NEW c \in DOMAIN pdHistory, NoneNewer(b, c) PROVE NoneNewer(b, c)'
  <2>1. ASSUME NEW m \in Eligible(c)' PROVE m \in Eligible(c)
    <3>1. /\ m \in 1..(c - 1) /\ pdHistory'[m].state = "active" /\ pdHistory'[m].kind.whole
          /\ pdHistory'[m].kind.version = pdHistory'[c].kind.version
          /\ pdArtifacts'[pdHistory'[m].profile].state = "committed"
      BY <2>1 DEF Eligible, Readable, Profile
    <3>2. m \in DOMAIN pdHistory
      BY <3>1, <1>0
    <3>3. pdHistory[m].profile \in DOMAIN pdArtifacts
      BY <3>2 DEF PdInv, EntriesDescribe
    <3>4. /\ pdHistory[m].state = "active" /\ pdHistory[m].kind.whole
          /\ pdHistory[m].kind.version = pdHistory[c].kind.version
          /\ pdArtifacts[pdHistory[m].profile].state = "committed"
      BY <3>1, <3>2, <3>3, <1>2 DEF HistoryGrows
    <3> QED BY <3>1, <3>4 DEF Eligible, Readable, Profile
  <2>2. pdHistory'[b].kind.whole
    BY <1>2 DEF NoneNewer, HistoryGrows
  <2> QED BY <2>1, <2>2, <1>2 DEF NoneNewer
<1>3. \A j \in DriftJobs : \A dj \in pdJobs'[j] : DriftJobOK(dj)'
  <2> SUFFICES ASSUME NEW j \in DriftJobs, NEW dj \in pdJobs[j], dj \in Compared PROVE DriftJobOK(dj)'
      BY DEF DriftJobOK
  <2>1. DriftJobOK(dj)
    BY DEF PdInv
  <2>2. Pair(dj.baseline, dj.candidate, dj.key)
    BY <2>1 DEF DriftJobOK
  <2>3. Pair(dj.baseline, dj.candidate, dj.key)'
    BY <2>2, <1>1
  <2>4. dj.latest => NoneNewer(dj.baseline, dj.candidate)'
    BY <2>1, <2>2, <1>2 DEF DriftJobOK, Pair
  <2> QED BY <2>1, <2>3, <2>4 DEF DriftJobOK
<1>4. ComparisonsOK'
  BY <1>1 DEF PdInv, ComparisonsOK
<1> QED BY <1>3, <1>4 DEF PdInv

LEMMA CommitProfileKeepsDrift ==
    ASSUME PdInv, NEW p \in Profiles, NEW body \in ProfileBodies, NEW kind \in ProfileKinds,
           CommitProfile(p, body, kind)
    PROVE  PdInv'
<1> DEFINE row == [body |-> body, whole |-> kind.whole, version |-> kind.version, state |-> "committed"]
<1>1. row \in ArtifactRows
  BY ProfileDriftAssumption DEF ProfileDriftAssumption, ArtifactRows
<1>2. /\ p \notin DOMAIN pdArtifacts
      /\ pdArtifacts' = [q \in DOMAIN pdArtifacts \cup {p} |-> IF q = p THEN row ELSE pdArtifacts[q]]
      /\ pdUnrecorded' = pdUnrecorded \cup {p}
      /\ UNCHANGED <<pdHistory, pdJobs, pdComparisons>>
  BY DEF CommitProfile
<1> HIDE DEF row
<1>3. /\ DOMAIN pdArtifacts' = DOMAIN pdArtifacts \cup {p} /\ pdArtifacts'[p] = row
      /\ \A q \in DOMAIN pdArtifacts : pdArtifacts'[q] = pdArtifacts[q]
      /\ pdArtifacts' = [q \in DOMAIN pdArtifacts' |-> pdArtifacts'[q]]
  BY <1>2
<1>4. PdTyped'
  BY <1>1, <1>2, <1>3 DEF PdInv, PdTyped
<1>5. EntriesDescribe' /\ HistoryGrows
  BY <1>2, <1>3 DEF PdInv, EntriesDescribe, Profile, HistoryGrows
<1> QED BY <1>2, <1>4, <1>5, GrowthKeepsDrift

LEMMA RecordKeepsDrift ==
    ASSUME PdInv, NEW p \in pdUnrecorded, NEW kind \in ProfileKinds, RecordHistory(p, kind)
    PROVE  PdInv'
<1> DEFINE row == [profile |-> p, kind |-> kind, state |-> "active"]
<1>0. /\ pdUnrecorded' \subseteq pdUnrecorded /\ UNCHANGED <<pdArtifacts, pdJobs, pdComparisons>>
      /\ pdHistory \in Seq(EntryRows) /\ p \in DOMAIN pdArtifacts /\ p \in Profiles
  BY DEF RecordHistory, PdInv, PdTyped
<1>1. CASE UNCHANGED pdHistory
  <2>1. PdTyped' /\ EntriesDescribe' /\ HistoryGrows
    BY <1>0, <1>1 DEF PdInv, PdTyped, EntriesDescribe, Profile, HistoryGrows
  <2> QED BY <2>1, <1>0, GrowthKeepsDrift
<1>2. CASE pdHistory' = Append(pdHistory, row) /\ DescribesBody(p, kind)
  <2>1. row \in EntryRows /\ row.profile = p /\ row.kind = kind
    BY <1>0 DEF EntryRows
  <2> HIDE DEF row
  <2>2. /\ pdHistory' \in Seq(EntryRows) /\ DOMAIN pdHistory' = 1..(Len(pdHistory) + 1)
        /\ pdHistory'[Len(pdHistory) + 1] = row /\ Len(pdHistory) \in Nat /\ DOMAIN pdHistory = 1..Len(pdHistory)
        /\ \A n \in 1..Len(pdHistory) : pdHistory'[n] = pdHistory[n]
    BY <2>1, <1>0, <1>2
  <2>3. PdTyped'
    BY <2>2, <1>0 DEF PdInv, PdTyped
  <2>4. HistoryGrows
    BY <2>2, <1>0 DEF HistoryGrows
  <2>5. EntriesDescribe'
    <3> SUFFICES ASSUME NEW n \in DOMAIN pdHistory'
                 PROVE  /\ pdHistory'[n].profile \in DOMAIN pdArtifacts
                        /\ pdHistory'[n].kind.version = pdArtifacts[pdHistory'[n].profile].version
        BY <1>0 DEF EntriesDescribe, Profile
    <3>1. CASE n \in DOMAIN pdHistory
      BY <3>1, <2>2 DEF PdInv, EntriesDescribe, Profile
    <3>2. CASE n = Len(pdHistory) + 1
      BY <3>2, <2>1, <2>2, <1>0, <1>2 DEF DescribesBody
    <3> QED BY <3>1, <3>2, <2>2
  <2> QED BY <2>3, <2>4, <2>5, <1>0, GrowthKeepsDrift
<1> QED BY <1>1, <1>2 DEF RecordHistory

LEMMA TombstonesKeepDrift ==
    ASSUME PdInv,
           \/ \E n \in DOMAIN pdHistory : TombstoneHistory(n)
           \/ \E p \in DOMAIN pdArtifacts : TombstoneProfile(p)
    PROVE  PdInv'
<1>1. ASSUME NEW n \in DOMAIN pdHistory, TombstoneHistory(n) PROVE PdInv'
  <2> DEFINE row == [pdHistory[n] EXCEPT !.state = "tombstoned"]
  <2>0. pdHistory \in Seq(EntryRows) /\ pdHistory[n] \in EntryRows /\ UNCHANGED <<pdArtifacts, pdUnrecorded, pdJobs, pdComparisons>>
    BY <1>1 DEF TombstoneHistory, PdInv, PdTyped
  <2>1. /\ row \in EntryRows /\ row.profile = pdHistory[n].profile /\ row.kind = pdHistory[n].kind
        /\ row.state = "tombstoned"
    BY <2>0 DEF EntryRows
  <2>2. pdHistory' = [pdHistory EXCEPT ![n] = row]
    BY <1>1, <2>0 DEF TombstoneHistory
  <2> HIDE DEF row
  <2>3. /\ pdHistory \in [1..Len(pdHistory) -> EntryRows] /\ Len(pdHistory) \in Nat
        /\ DOMAIN pdHistory = 1..Len(pdHistory)
    BY <2>0
  <2>4. pdHistory' \in [1..Len(pdHistory) -> EntryRows]
    BY <2>1, <2>2, <2>3
  <2>5. pdHistory' \in Seq(EntryRows) /\ DOMAIN pdHistory' = DOMAIN pdHistory
    BY <2>3, <2>4, SeqDef
  <2>6. \A m \in DOMAIN pdHistory : pdHistory'[m] = IF m = n THEN row ELSE pdHistory[m]
    BY <2>2, <2>3
  <2>7. PdTyped'
    BY <2>0, <2>5 DEF PdInv, PdTyped
  <2>8. EntriesDescribe' /\ HistoryGrows
    BY <2>0, <2>1, <2>5, <2>6 DEF PdInv, EntriesDescribe, Profile, HistoryGrows
  <2> QED BY <2>0, <2>7, <2>8, GrowthKeepsDrift
<1>2. ASSUME NEW p \in DOMAIN pdArtifacts, TombstoneProfile(p) PROVE PdInv'
  <2> DEFINE row == [pdArtifacts[p] EXCEPT !.state = "tombstoned"]
  <2>0. pdArtifacts[p] \in ArtifactRows /\ UNCHANGED <<pdUnrecorded, pdHistory, pdJobs, pdComparisons>>
        /\ pdArtifacts = [q \in DOMAIN pdArtifacts |-> pdArtifacts[q]]
    BY <1>2 DEF TombstoneProfile, PdInv, PdTyped
  <2>1. /\ row \in ArtifactRows /\ row.body = pdArtifacts[p].body /\ row.version = pdArtifacts[p].version
        /\ row.state = "tombstoned"
    BY <2>0 DEF ArtifactRows
  <2>2. pdArtifacts' = [pdArtifacts EXCEPT ![p] = row]
    BY <1>2, <2>0 DEF TombstoneProfile
  <2> HIDE DEF row
  <2>3. /\ DOMAIN pdArtifacts' = DOMAIN pdArtifacts
        /\ \A q \in DOMAIN pdArtifacts : pdArtifacts'[q] = IF q = p THEN row ELSE pdArtifacts[q]
        /\ pdArtifacts' = [q \in DOMAIN pdArtifacts' |-> pdArtifacts'[q]]
    BY <2>0, <2>2
  <2>4. PdTyped'
    BY <2>0, <2>1, <2>3 DEF PdInv, PdTyped
  <2>5. EntriesDescribe' /\ HistoryGrows
    BY <2>0, <2>1, <2>3 DEF PdInv, EntriesDescribe, Profile, HistoryGrows
  <2> QED BY <2>0, <2>4, <2>5, GrowthKeepsDrift
<1> QED BY <1>1, <1>2
\* A drift Run moves on, and may add a comparison.
LEMMA RunKeepsDrift ==
    ASSUME PdInv, NEW j \in DriftJobs, NEW row \in Ended \cup Compared,
           pdJobs' = [pdJobs EXCEPT ![j] = {row}], UNCHANGED <<pdArtifacts, pdUnrecorded, pdHistory>>,
           pdComparisons \subseteq pdComparisons', pdComparisons' \subseteq ComparisonRows,
           ComparisonsOK', DriftJobOK(row)'
    PROVE  PdInv'
<1>0. pdJobs \in [DriftJobs -> SUBSET (Ended \cup Compared)]
  BY DEF PdInv, PdTyped
<1>1. PdTyped' /\ EntriesDescribe'
  BY <1>0 DEF PdInv, PdTyped, EntriesDescribe, Profile
<1>2. \A dj : DriftJobOK(dj) => DriftJobOK(dj)'
  BY DEF DriftJobOK, Pair, Key, Profile, NoneNewer, Eligible, Readable
<1>3. \A i \in DriftJobs : \A dj \in pdJobs'[i] : DriftJobOK(dj)'
  BY <1>0, <1>2 DEF PdInv
<1> QED BY <1>1, <1>3 DEF PdInv

LEMMA CompareKeepsDrift ==
    ASSUME PdInv, NEW j \in DriftJobs, NEW candidate \in DOMAIN pdHistory,
           NEW explicit \in {{}} \cup {{n} : n \in DOMAIN pdHistory}, CompareDrift(j, candidate, explicit)
    PROVE  PdInv'
<1> DEFINE selected == IF explicit = {} THEN Latest(Eligible(candidate)) ELSE explicit
           answer(phase) == [candidate |-> candidate, latest |-> explicit = {}, phase |-> phase]
           unreadable == \E n \in selected \cup {candidate} : ~Readable(n)
           noReport == \/ selected = {}
                       \/ \E n \in selected \cup {candidate} : pdHistory[n].state # "active"
                       \/ \E n \in selected : pdHistory[n].kind.version # pdHistory[candidate].kind.version
           b == CHOOSE n \in selected : TRUE
           row == [candidate |-> candidate, latest |-> explicit = {}, phase |-> "compared",
                   baseline |-> b, key |-> Key(b, candidate)]
<1>0. /\ pdHistory \in Seq(EntryRows) /\ DOMAIN pdHistory = 1..Len(pdHistory) /\ Len(pdHistory) \in Nat
      /\ candidate \in Nat /\ pdComparisons \subseteq ComparisonRows /\ ComparisonsOK
  BY DEF PdInv, PdTyped
<1>1. /\ \A n \in explicit : n < candidate
      /\ pdJobs' = [pdJobs EXCEPT ![j] = IF unreadable THEN {answer("failed")}
                                         ELSE IF noReport THEN {answer("no_report")} ELSE {row}]
      /\ UNCHANGED <<pdArtifacts, pdUnrecorded, pdHistory, pdComparisons>>
  BY DEF CompareDrift
<1>2. ComparisonsOK'
  BY <1>0, <1>1 DEF ComparisonsOK, Pair, Key, Profile
<1>3. ASSUME NEW phase \in {"failed", "no_report"}, pdJobs' = [pdJobs EXCEPT ![j] = {answer(phase)}]
      PROVE  PdInv'
  <2>1. answer(phase) \in Ended
    BY <1>0 DEF Ended
  <2>2. answer(phase) \notin Compared
    <3>1. "baseline" \notin DOMAIN answer(phase)
      OBVIOUS
    <3>2. \A dj \in Compared : "baseline" \in DOMAIN dj
      BY DEF Compared
    <3> QED BY <3>1, <3>2
  <2>3. DriftJobOK(answer(phase))'
    BY <2>2 DEF DriftJobOK
  <2> HIDE DEF answer
  <2> QED BY <2>1, <2>3, <1>0, <1>1, <1>2, <1>3, RunKeepsDrift
<1>4. CASE ~unreadable /\ ~noReport
  <2>1. b \in selected
    BY <1>4
  <2> HIDE DEF b
  <2>2. /\ b \in DOMAIN pdHistory /\ b < candidate
        /\ explicit = {} => \A m \in Eligible(candidate) : m <= b
        /\ explicit = {} => pdHistory[b].kind.whole
    <3>1. CASE explicit = {}
      <4>1. b \in Eligible(candidate) /\ \A m \in Eligible(candidate) : m <= b
        BY <2>1, <3>1 DEF Latest
      <4>2. b \in 1..(candidate - 1) /\ pdHistory[b].kind.whole
        BY <4>1 DEF Eligible
      <4> QED BY <4>1, <4>2, <1>0
    <3>2. CASE explicit # {}
      BY <2>1, <3>2, <1>1
    <3> QED BY <3>1, <3>2
  <2>3. pdHistory[b].kind.version = pdHistory[candidate].kind.version
    BY <2>1, <1>4
  <2>4. Key(b, candidate) \in ProfileBodies \X ProfileBodies
    <3>1. pdHistory[b].profile \in DOMAIN pdArtifacts /\ pdHistory[candidate].profile \in DOMAIN pdArtifacts
      BY <2>2 DEF PdInv, EntriesDescribe
    <3>2. Profile(b) \in ArtifactRows /\ Profile(candidate) \in ArtifactRows
      BY <3>1 DEF PdInv, PdTyped, Profile
    <3> QED BY <3>2 DEF Key, ArtifactRows
  <2>5. /\ row \in Compared /\ row.candidate = candidate /\ row.baseline = b /\ row.key = Key(b, candidate)
        /\ row.phase = "compared" /\ row.latest = (explicit = {})
    BY <2>2, <2>4, <1>0 DEF Compared
  <2>6. pdJobs' = [pdJobs EXCEPT ![j] = {row}]
    BY <1>1, <1>4
  <2>7. PICK r \in Compared : r = row
    BY <2>5
  <2>8. /\ r.candidate = candidate /\ r.baseline = b /\ r.key = Key(b, candidate)
        /\ r.phase = "compared" /\ r.latest = (explicit = {}) /\ pdJobs' = [pdJobs EXCEPT ![j] = {r}]
    BY <2>5, <2>6, <2>7
  <2> HIDE DEF row
  <2>9. DriftJobOK(r)
    BY <2>2, <2>3, <2>8 DEF DriftJobOK, Pair, NoneNewer
  <2>10. DriftJobOK(r)'
    BY <2>9, <2>8, <1>1 DEF DriftJobOK, Pair, Key, Profile, NoneNewer, Eligible, Readable
  <2> QED BY <2>8, <2>10, <1>0, <1>1, <1>2, RunKeepsDrift
<1> QED BY <1>1, <1>3, <1>4

\* A Run whose comparison and inputs hold in the terminal transaction.
LEMMA PublishKeepsDrift ==
    ASSUME PdInv, NEW j \in DriftJobs, NEW dj \in pdJobs[j], dj.phase \in {"compared", "publishing"},
           ~KeyTaken(dj.key), InputsActive(dj.baseline, dj.candidate),
           pdJobs' = [pdJobs EXCEPT ![j] = {[dj EXCEPT !.phase = "committed"]}],
           pdComparisons' = Published(j, dj), UNCHANGED <<pdArtifacts, pdUnrecorded, pdHistory>>
    PROVE  PdInv'
<1> DEFINE row == [dj EXCEPT !.phase = "committed"]
           latest == dj.latest => dj.baseline \in Latest(Eligible(dj.candidate))
           active == pdHistory[dj.baseline].state = "active" /\ Readable(dj.baseline)
           c == [key |-> dj.key, baseline |-> dj.baseline, candidate |-> dj.candidate, job |-> j,
                 latest |-> latest, active |-> active]
<1>0. /\ dj \in Compared /\ DriftJobOK(dj) /\ pdComparisons \subseteq ComparisonRows /\ ComparisonsOK
      /\ pdHistory \in Seq(EntryRows)
  BY DEF PdInv, PdTyped, Ended
<1>1. /\ row \in Compared /\ row.candidate = dj.candidate /\ row.baseline = dj.baseline
      /\ row.key = dj.key /\ row.latest = dj.latest /\ row.phase = "committed"
  BY <1>0 DEF Compared
<1>2. Pair(dj.baseline, dj.candidate, dj.key) /\ (dj.latest => NoneNewer(dj.baseline, dj.candidate))
  BY <1>0 DEF DriftJobOK
<1>3. active
  BY DEF InputsActive
<1>4. latest
  <2> SUFFICES ASSUME dj.latest PROVE dj.baseline \in Latest(Eligible(dj.candidate))
      OBVIOUS
  <2>1. NoneNewer(dj.baseline, dj.candidate)
    BY <1>2
  <2>2. dj.baseline \in 1..(dj.candidate - 1)
    BY <1>0, <1>2 DEF Pair
  <2>3. dj.baseline \in Eligible(dj.candidate)
    BY <2>1, <2>2, <1>2, <1>3 DEF Eligible, NoneNewer, Pair
  <2> QED BY <2>1, <2>3 DEF Latest, NoneNewer
<1>5. latest \in BOOLEAN /\ active \in BOOLEAN
  BY DEF Readable
<1> HIDE DEF latest, active
<1>6. /\ c \in ComparisonRows /\ c.key = dj.key /\ c.baseline = dj.baseline /\ c.candidate = dj.candidate
      /\ c.latest /\ c.active
  BY <1>0, <1>3, <1>4, <1>5 DEF ComparisonRows, Compared
<1>7. pdComparisons' = pdComparisons \cup {c}
  BY DEF Published, latest, active
<1> HIDE DEF c, row
<1>8. \A x, y, key : Pair(x, y, key) => Pair(x, y, key)'
  BY DEF Pair, Key, Profile
<1>9. ComparisonsOK'
  <2>1. \A d \in pdComparisons : d.key # dj.key
    BY DEF KeyTaken
  <2>2. \A d \in pdComparisons' : d \in pdComparisons \/ d = c
    BY <1>7
  <2>3. \A d \in pdComparisons' : Pair(d.baseline, d.candidate, d.key)' /\ d.latest /\ d.active
    BY <2>2, <1>0, <1>2, <1>6, <1>8 DEF ComparisonsOK
  <2>4. \A d, e \in pdComparisons' : e.key = d.key => e = d
    BY <2>1, <2>2, <1>0, <1>6 DEF ComparisonsOK
  <2> QED BY <2>3, <2>4 DEF ComparisonsOK
<1>10. DriftJobOK(row)'
  <2>1. dj.latest => NoneNewer(dj.baseline, dj.candidate)'
    BY <1>2 DEF NoneNewer, Eligible, Readable, Profile
  <2> QED BY <2>1, <1>1, <1>2, <1>6, <1>7, <1>8 DEF DriftJobOK
<1>11. pdJobs' = [pdJobs EXCEPT ![j] = {row}]
  BY DEF row
<1> QED BY <1>0, <1>1, <1>6, <1>7, <1>9, <1>10, <1>11, RunKeepsDrift

\* One that changes its phase only.
LEMMA PhaseKeepsDrift ==
    ASSUME PdInv, NEW j \in DriftJobs, NEW dj \in pdJobs[j], dj.phase \in {"compared", "publishing"},
           NEW phase \in {"publishing", "reused", "failed", "answered"},
           phase = "reused" => \E c \in pdComparisons : c.key = dj.key /\ OutputOwn(dj, c),
           pdJobs' = [pdJobs EXCEPT ![j] = {[dj EXCEPT !.phase = phase]}],
           UNCHANGED <<pdArtifacts, pdUnrecorded, pdHistory, pdComparisons>>
    PROVE  PdInv'
<1> DEFINE row == [dj EXCEPT !.phase = phase]
<1>0. /\ dj \in Compared /\ DriftJobOK(dj) /\ pdComparisons \subseteq ComparisonRows /\ ComparisonsOK
  BY DEF PdInv, PdTyped, Ended
<1>1. /\ row \in Compared /\ row.candidate = dj.candidate /\ row.baseline = dj.baseline
      /\ row.key = dj.key /\ row.latest = dj.latest /\ row.phase = phase
  BY <1>0 DEF Compared
<1>2. pdJobs' = [pdJobs EXCEPT ![j] = {row}]
  OBVIOUS
<1> HIDE DEF row
<1>3. DriftJobOK(row)
  BY <1>0, <1>1 DEF DriftJobOK, OutputOwn
<1>4. DriftJobOK(row)'
  BY <1>3 DEF DriftJobOK, Pair, Key, Profile, NoneNewer, Eligible, Readable
<1>5. ComparisonsOK'
  BY <1>0 DEF ComparisonsOK, Pair, Key, Profile
<1> QED BY <1>0, <1>1, <1>2, <1>4, <1>5, RunKeepsDrift

\* Whatever is recorded or tombstoned between the selection of a baseline and
\* the commit, and whichever drift Runs race for one key, a published comparison
\* is unique under its key, of live inputs, in order and of one version, with
\* the newest eligible baseline, and a Run reports only a comparison of its own
\* inputs (commit_drift_report_tx, validate_committed_drift_report_output).
THEOREM DriftKept == PdSpec => []DriftSound
<1>1. PdInit => PdInv
  BY DEF PdInit, PdInv, PdTyped, EntriesDescribe, ComparisonsOK
<1>2. ASSUME PdInv, [PdNext]_pdVars PROVE PdInv'
  <2>1. ASSUME NEW p \in pdUnrecorded, LoseHistory(p) PROVE PdInv'
    <3>1. pdUnrecorded' \subseteq pdUnrecorded /\ UNCHANGED <<pdArtifacts, pdHistory, pdJobs, pdComparisons>>
      BY <2>1 DEF LoseHistory
    <3>2. PdTyped' /\ EntriesDescribe' /\ HistoryGrows
      BY <1>2, <3>1 DEF PdInv, PdTyped, EntriesDescribe, Profile, HistoryGrows
    <3> QED BY <1>2, <3>1, <3>2, GrowthKeepsDrift
  <2>2. ASSUME NEW j \in DriftJobs, LookupComparison(j) PROVE PdInv'
    <3>1. PICK dj \in pdJobs[j] :
            /\ dj.phase = "compared"
            /\ pdJobs' = [pdJobs EXCEPT ![j] =
                 IF {c \in pdComparisons : c.key = dj.key} = {} THEN {[dj EXCEPT !.phase = "publishing"]}
                 ELSE {[dj EXCEPT !.phase = IF \E c \in {c \in pdComparisons : c.key = dj.key} : OutputOwn(dj, c)
                                             THEN "reused" ELSE "failed"]}]
            /\ UNCHANGED <<pdArtifacts, pdUnrecorded, pdHistory, pdComparisons>>
      BY <2>2 DEF LookupComparison
    <3>2. PICK phase \in {"publishing", "reused", "failed"} :
            /\ pdJobs' = [pdJobs EXCEPT ![j] = {[dj EXCEPT !.phase = phase]}]
            /\ phase = "reused" => \E c \in pdComparisons : c.key = dj.key /\ OutputOwn(dj, c)
      BY <3>1
    <3> QED BY <1>2, <3>1, <3>2, PhaseKeepsDrift
  <2>3. ASSUME NEW j \in DriftJobs, CommitDrift(j) PROVE PdInv'
    <3>1. PICK dj \in pdJobs[j] :
            LET ok == ~KeyTaken(dj.key) /\ InputsActive(dj.baseline, dj.candidate) IN
            /\ dj.phase = "publishing"
            /\ pdJobs' = [pdJobs EXCEPT ![j] = {[dj EXCEPT !.phase = IF ok THEN "committed" ELSE "failed"]}]
            /\ pdComparisons' = IF ok THEN Published(j, dj) ELSE pdComparisons
            /\ UNCHANGED <<pdArtifacts, pdUnrecorded, pdHistory>>
      BY <2>3 DEF CommitDrift
    <3>2. CASE ~KeyTaken(dj.key) /\ InputsActive(dj.baseline, dj.candidate)
      BY <1>2, <3>1, <3>2, PublishKeepsDrift
    <3>3. CASE ~(~KeyTaken(dj.key) /\ InputsActive(dj.baseline, dj.candidate))
      BY <1>2, <3>1, <3>3, PhaseKeepsDrift
    <3> QED BY <3>2, <3>3
  <2>4. ASSUME NEW j \in DriftJobs, PublishDirect(j) PROVE PdInv'
    <3>1. PICK dj \in pdJobs[j] :
            /\ dj.phase = "compared"
            /\ pdJobs' = [pdJobs EXCEPT ![j] = {[dj EXCEPT !.phase = DirectPhase(dj)]}]
            /\ pdComparisons' = IF DirectPhase(dj) = "committed" THEN Published(j, dj) ELSE pdComparisons
            /\ UNCHANGED <<pdArtifacts, pdUnrecorded, pdHistory>>
      BY <2>4 DEF PublishDirect
    <3>2. CASE ~KeyTaken(dj.key) /\ InputsActive(dj.baseline, dj.candidate)
      <4>1. DirectPhase(dj) = "committed"
        BY <3>2 DEF DirectPhase
      <4> QED BY <1>2, <3>1, <3>2, <4>1, PublishKeepsDrift
    <3>3. CASE ~(~KeyTaken(dj.key) /\ InputsActive(dj.baseline, dj.candidate))
      <4>1. DirectPhase(dj) \in {"answered", "failed"}
        BY <3>3 DEF DirectPhase
      <4> QED BY <1>2, <3>1, <3>3, <4>1, PhaseKeepsDrift
    <3> QED BY <3>2, <3>3
  <2>5. CASE UNCHANGED pdVars
    <3>1. PdTyped' /\ EntriesDescribe' /\ HistoryGrows
      BY <1>2, <2>5 DEF pdVars, PdInv, PdTyped, EntriesDescribe, Profile, HistoryGrows
    <3> QED BY <1>2, <2>5, <3>1, GrowthKeepsDrift DEF pdVars
  <2> QED BY <1>2, <2>1, <2>2, <2>3, <2>4, <2>5, CommitProfileKeepsDrift, RecordKeepsDrift, TombstonesKeepDrift,
             CompareKeepsDrift DEF PdNext
<1> QED BY <1>1, <1>2, DriftFollows, PTL DEF PdSpec

(* The Sessions, assets and plan versions of a Workspace.                  *)

SessionStates == {"absent", "open", "closing", "closed"}
VersionStates == {"absent", "draft", "published", "superseded", "archived"}

(* A transition_session call in flight remembers an allowed transition.      *)
CloseCall ==
    {c \in [op : {"close"}, id : Sessions, from : SessionStates, to : SessionStates] :
       <<c.from, c.to>> \in AllowedSessionTransition}
CreateCall == [op : {"session", "asset", "version"}, id : Sessions \cup Assets \cup Versions]

(* Rows hold states of their vocabulary, and calls in flight are well formed. *)
ResTypeOK ==
    /\ session \in [Sessions -> SessionStates]
    /\ version \in [Versions -> VersionStates]
    /\ plan \in [state : {"active", "archived"}, current : Versions \cup {None}]
    /\ job \in [SessionJobs -> [state : {"absent", "queued", "running", "ended"},
                         session : Sessions \cup {None}, raced : BOOLEAN]]
    /\ calls \in SUBSET (CloseCall \cup CreateCall)
    /\ \A j \in SessionJobs : job[j].state # "absent" => job[j].session \in Sessions

(* What is known of a close in flight.                                       *)
LEMMA CallTypes ==
    ASSUME NEW c \in CloseCall \cup CreateCall
    PROVE  c.op = "close" =>
             /\ c.id \in Sessions /\ c.from \in SessionStates /\ c.to \in SessionStates
             /\ <<c.from, c.to>> \in AllowedSessionTransition
BY DEF CloseCall, CreateCall

(* The tables only lead to states of the vocabulary.                         *)
THEOREM ResTypeCorrect == ResSpec => []ResTypeOK
<1>1. ResInit => ResTypeOK
  BY DEF ResInit, ResTypeOK, NoJobRow, SessionStates, VersionStates
<1>2. ResTypeOK /\ [ResNext]_resVars => ResTypeOK'
  <2> SUFFICES ASSUME ResTypeOK, [ResNext]_resVars PROVE ResTypeOK'
    OBVIOUS
  <2> USE DEF ResTypeOK
  <2>1. ASSUME ArchiveWorkspace \/ ArchivePlan PROVE ResTypeOK'
    BY <2>1 DEF ArchiveWorkspace, ArchivePlan
  <2>2. ASSUME NEW s \in Sessions, CheckNewSession(s) PROVE ResTypeOK'
    BY <2>2 DEF CheckNewSession, Enter, CreateCall
  <2>3. ASSUME NEW s \in Sessions, InsertSession(s) PROVE ResTypeOK'
    BY <2>3 DEF InsertSession, Leave, SessionStates
  <2>4. ASSUME NEW s \in Sessions, NEW target \in {"closing", "closed"}, CheckClose(s, target)
        PROVE  ResTypeOK'
    <3> DEFINE c == [op |-> "close", id |-> s, from |-> session[s], to |-> target]
    <3>1. c \in CloseCall
      BY <2>4 DEF CheckClose, CloseCall, SessionStates
    <3>2. calls' = calls \cup {c} /\ UNCHANGED <<session, version, plan, job>>
      BY <2>4 DEF CheckClose, Enter
    <3> HIDE DEF c
    <3> QED
      BY <3>1, <3>2
  <2>5. ASSUME NEW c \in calls, WriteClose(c) PROVE ResTypeOK'
    <3>1. c.op = "close" /\ c.id \in Sessions /\ c.to \in SessionStates
      BY <2>5, CallTypes DEF WriteClose
    <3> QED
      BY <2>5, <3>1 DEF WriteClose, Leave
  <2>6. ASSUME NEW t, TransitionSourceConnection(t) PROVE ResTypeOK'
    BY <2>6 DEF TransitionSourceConnection
  <2>7. ASSUME NEW a \in Assets, CheckNewAsset(a) PROVE ResTypeOK'
    BY <2>7 DEF CheckNewAsset, Enter, CreateCall
  <2>8. ASSUME NEW a \in Assets, InsertAsset(a) \/ RetireSourceAsset(a) PROVE ResTypeOK'
    BY <2>8 DEF InsertAsset, RetireSourceAsset, Leave
  <2>9. ASSUME NEW v \in Versions, CheckNewVersion(v) PROVE ResTypeOK'
    BY <2>9 DEF CheckNewVersion, Enter, CreateCall
  <2>10. ASSUME NEW v \in Versions, InsertVersion(v) \/ ArchivePlanVersion(v) PROVE ResTypeOK'
    BY <2>10 DEF InsertVersion, ArchivePlanVersion, Leave, VersionStates
  <2>11. ASSUME NEW v \in Versions, NEW expected, PublishPlanVersion(v, expected)
         PROVE  ResTypeOK'
    BY <2>11 DEF PublishPlanVersion, VersionStates
  <2>12. ASSUME NEW j \in SessionJobs, NEW s \in Sessions, NEW v \in Versions, NEW a \in Assets,
                AcceptSessionJob(j, s, v, a)
         PROVE  ResTypeOK'
    BY <2>12 DEF AcceptSessionJob
  <2>13. ASSUME NEW j \in SessionJobs, StartJob(j) \/ EndJob(j) PROVE ResTypeOK'
    BY <2>13 DEF StartJob, EndJob
  <2>14. CASE UNCHANGED resVars
    BY <2>14 DEF resVars
  <2> HIDE DEF ResTypeOK
  <2> QED
    BY <2>1, <2>2, <2>3, <2>4, <2>5, <2>6, <2>7, <2>8, <2>9, <2>10, <2>11, <2>12, <2>13, <2>14
    DEF ResNext
<1> QED
  BY <1>1, <1>2, PTL DEF ResSpec

-----------------------------------------------------------------------------
(* Whichever publishers race, exactly the version the Plan points at is      *)
(* published.                                                                *)
THEOREM PublishedIsCurrent == ResSpec => []OnePublished
<1>1. ResInit => OnePublished
  BY WorkspaceResourcesAssumption DEF ResInit, OnePublished
<1>2. ResTypeOK /\ OnePublished /\ [ResNext]_resVars => OnePublished'
  <2> SUFFICES ASSUME ResTypeOK, OnePublished, [ResNext]_resVars PROVE OnePublished'
    OBVIOUS
  <2>1. ASSUME NEW v \in Versions, NEW expected, PublishPlanVersion(v, expected)
        PROVE  OnePublished'
    BY <2>1 DEF PublishPlanVersion, OnePublished, ResTypeOK
  <2>2. ASSUME NEW v \in Versions, InsertVersion(v) \/ ArchivePlanVersion(v)
        PROVE  OnePublished'
    BY <2>2 DEF InsertVersion, ArchivePlanVersion, OnePublished, ResTypeOK
  <2>3. CASE ArchivePlan
    BY <2>3 DEF ArchivePlan, OnePublished, ResTypeOK
  <2>4. ASSUME UNCHANGED <<plan, version>> PROVE OnePublished'
    BY <2>4 DEF OnePublished
  <2> QED
    BY <2>1, <2>2, <2>3, <2>4
    DEF ResNext, resVars, ArchiveWorkspace, CheckNewSession, InsertSession, CheckClose,
        WriteClose, TransitionSourceConnection, CheckNewAsset, InsertAsset,
        RetireSourceAsset, CheckNewVersion, AcceptSessionJob, StartJob, EndJob
<1> QED
  BY <1>1, <1>2, ResTypeCorrect, PTL DEF ResSpec

-----------------------------------------------------------------------------
(* No row moves back along its lifecycle.                                    *)
MovesForward ==
    /\ \A s \in Sessions : Order(session'[s]) >= Order(session[s])
    /\ \A v \in Versions : Order(version'[v]) >= Order(version[v])

(* Each step compares the state it leaves.                                   *)
LEMMA StepMovesForward ==
    ASSUME ResTypeOK, [ResNext]_resVars
    PROVE  MovesForward
<1>0. /\ Order("absent") = 0 /\ Order("open") = 1 /\ Order("draft") = 1
      /\ Order("closing") = 2 /\ Order("published") = 2
      /\ Order("closed") = 3 /\ Order("superseded") = 3 /\ Order("archived") = 4
  BY DEF Order
<1>1. /\ \A s \in Sessions : Order(session[s]) \in Nat
      /\ \A v \in Versions : Order(version[v]) \in Nat
  BY <1>0 DEF ResTypeOK, SessionStates, VersionStates
<1>2. ASSUME NEW s \in Sessions, InsertSession(s) PROVE MovesForward
  BY <1>0, <1>1, <1>2 DEF InsertSession, MovesForward, ResTypeOK
<1>3. ASSUME NEW c \in calls, WriteClose(c) PROVE MovesForward
  <2>1. c.op = "close" /\ c.id \in Sessions /\ <<c.from, c.to>> \in AllowedSessionTransition
    BY <1>3, CallTypes DEF WriteClose, ResTypeOK
  <2>2. Order(c.to) >= Order(c.from)
    BY <1>0, <2>1 DEF AllowedSessionTransition
  <2> QED
    BY <1>1, <1>3, <2>1, <2>2 DEF WriteClose, SameRow, MovesForward, ResTypeOK
<1>4. ASSUME NEW v \in Versions, InsertVersion(v) \/ ArchivePlanVersion(v) PROVE MovesForward
  BY <1>0, <1>1, <1>4 DEF InsertVersion, ArchivePlanVersion, MovesForward, ResTypeOK
<1>5. ASSUME NEW v \in Versions, NEW expected, PublishPlanVersion(v, expected)
      PROVE  MovesForward
  BY <1>0, <1>1, <1>5 DEF PublishPlanVersion, MovesForward, ResTypeOK
<1>6. ASSUME UNCHANGED <<session, version>> PROVE MovesForward
  BY <1>1, <1>6 DEF MovesForward
<1> QED
  BY <1>2, <1>3, <1>4, <1>5, <1>6
  DEF ResNext, resVars, ArchiveWorkspace, ArchivePlan, CheckNewSession, CheckClose,
      TransitionSourceConnection, CheckNewAsset, InsertAsset, RetireSourceAsset,
      CheckNewVersion, AcceptSessionJob, StartJob, EndJob

(* However calls interleave between their check and their write, Sessions    *)
(* and PlanVersions only go forward: transition_session compares the state   *)
(* it read when it writes.                                                   *)
THEOREM NothingGoesBack == ResSpec => LifecyclesForward
<1>1. ResTypeOK /\ [ResNext]_resVars => [MovesForward]_resVars
  BY StepMovesForward
<1> QED
  BY <1>1, ResTypeCorrect, PTL DEF ResSpec, LifecyclesForward, MovesForward

-----------------------------------------------------------------------------
(* The strengthening CloseMissesOnlyRacers needs: from the moment a close    *)
(* passed its check, every active Job of its Session came after the check.   *)
CloseSawTheOthers ==
    \A c \in calls : c.op = "close" => \A j \in ActiveJobs(c.id) : job[j].raced
RacersInv == CloseMissesOnlyRacers /\ CloseSawTheOthers

(* Both parts are needed: the write of a close relies on what its check saw. *)
LEMMA RacersInductive ==
    ASSUME ResTypeOK, RacersInv, [ResNext]_resVars
    PROVE  RacersInv'
<1> USE DEF RacersInv, CloseMissesOnlyRacers, CloseSawTheOthers, ActiveJobs
<1>1. ASSUME NEW s \in Sessions, InsertSession(s) PROVE RacersInv'
  BY <1>1 DEF InsertSession, Leave, ResTypeOK
<1>2. ASSUME NEW s \in Sessions, NEW target, CheckClose(s, target) PROVE RacersInv'
  BY <1>2 DEF CheckClose, Enter, ResTypeOK
<1>3. ASSUME NEW c \in calls, WriteClose(c) PROVE RacersInv'
  <2>1. c.op = "close" /\ c.id \in Sessions
    BY <1>3, CallTypes DEF WriteClose, ResTypeOK
  <2>2. \A j \in SessionJobs : job[j].session = c.id /\ job[j].state \in {"queued", "running"}
                         => job[j].raced
    BY <2>1
  <2>3. \A s \in Sessions : s # c.id => session'[s] = session[s]
    BY <1>3, <2>1 DEF WriteClose, ResTypeOK
  <2>4. calls' \subseteq calls /\ job' = job
    BY <1>3 DEF WriteClose, Leave
  <2>5. CloseMissesOnlyRacers'
    BY <2>2, <2>3, <2>4 DEF ResTypeOK
  <2> QED
    BY <2>4, <2>5
<1>4. ASSUME NEW j \in SessionJobs, NEW s \in Sessions, NEW v \in Versions, NEW a \in Assets,
             AcceptSessionJob(j, s, v, a)
      PROVE  RacersInv'
  BY <1>4 DEF AcceptSessionJob, ParentsLive, ResTypeOK
<1>5. ASSUME NEW j \in SessionJobs, StartJob(j) \/ EndJob(j) PROVE RacersInv'
  <2>1. /\ job[j].state \in {"queued", "running"} /\ UNCHANGED <<session, calls>>
        /\ \A i \in SessionJobs : job'[i].session = job[i].session /\ job'[i].raced = job[i].raced
        /\ \A i \in SessionJobs : i # j => job'[i] = job[i]
    BY <1>5 DEF StartJob, EndJob, ResTypeOK
  <2>2. \A i \in SessionJobs : job'[i].state \in {"queued", "running"}
                         => job[i].state \in {"queued", "running"}
    BY <2>1
  <2> QED
    BY <2>1, <2>2
<1>6. ASSUME UNCHANGED <<session, job>>, \A c \in calls' : c.op = "close" => c \in calls
      PROVE  RacersInv'
  BY <1>6
<1>7. ASSUME NEW op \in {"session", "asset", "version"}, NEW id,
             Enter([op |-> op, id |-> id]) \/ Leave([op |-> op, id |-> id])
      PROVE  \A c \in calls' : c.op = "close" => c \in calls
  BY <1>7 DEF Enter, Leave
<1>8. ASSUME NEW s \in Sessions, CheckNewSession(s) PROVE RacersInv'
  BY <1>6, <1>7, <1>8 DEF CheckNewSession
<1>9. ASSUME NEW a \in Assets, CheckNewAsset(a) \/ InsertAsset(a) PROVE RacersInv'
  BY <1>6, <1>7, <1>9 DEF CheckNewAsset, InsertAsset
<1>10. ASSUME NEW v \in Versions, CheckNewVersion(v) \/ InsertVersion(v) PROVE RacersInv'
  BY <1>6, <1>7, <1>10 DEF CheckNewVersion, InsertVersion
<1>11. ASSUME UNCHANGED <<session, job, calls>> PROVE RacersInv'
  BY <1>6, <1>11
<1> HIDE DEF RacersInv
<1> QED
  BY <1>1, <1>2, <1>3, <1>4, <1>5, <1>8, <1>9, <1>10, <1>11
  DEF ResNext, resVars, ArchiveWorkspace, ArchivePlan, TransitionSourceConnection,
      RetireSourceAsset, ArchivePlanVersion, PublishPlanVersion

(* The only Jobs a closed Session can still hold are those submitted in the  *)
(* window between the check and the write of transition_session.             *)
THEOREM OnlyRacersSurviveClose == ResSpec => []CloseMissesOnlyRacers
<1>1. ResInit => RacersInv
  BY DEF ResInit, RacersInv, CloseMissesOnlyRacers, CloseSawTheOthers, NoJobRow
<1>2. ResTypeOK /\ RacersInv /\ [ResNext]_resVars => RacersInv'
  BY RacersInductive
<1>3. RacersInv => CloseMissesOnlyRacers
  BY DEF RacersInv
<1> QED
  BY <1>1, <1>2, <1>3, ResTypeCorrect, PTL DEF ResSpec

-----------------------------------------------------------------------------
(* The automation scheduler.                                                *)

States   == {"absent", "active", "paused", "failed"}
Live     == {"active", "paused"}
Resting  == {"idle", "claim"}
Handling == {"submit", "ack", "fail"}
Claims   == [id : Nat, occ : Int, attempt : Nat, expires : Int]
Rows     == [state : States, next : Int, claim : Claims, last : Nat, serial : Nat]
Ticks    == [pc : Resting \cup Handling, now : Times, due : Seq(Schedules),
             sched : SUBSET Schedules, claim : Claims]
Accepted == [sched : Schedules, key : Seq(Int), occ : Times, claim : Nat]

AutTyped ==
    /\ schedule \in [Schedules -> Rows]
    /\ jobs \subseteq Accepted
    /\ tries \in [Schedules -> [Times -> Nat]]
    /\ ticker \in [Tickers -> Ticks]
    /\ observed \in Int /\ observed <= MaxTime
    /\ clock \in Times

\* A row and the number of claims made for each of its occurrences: the claim in
\* flight is the newest one and is for the next run, every claim made for the
\* next run is counted as an attempt, and none was made for a later one.
RowSound(r, n) ==
    /\ r.state = "absent" => r.next = NoTime /\ r.claim = NoClaim /\ \A o \in Times : n[o] = 0
    /\ r.state = "failed" =>
         r.claim = NoClaim /\ \E o \in Times : n[o] = MaxAttempts /\ \A p \in Times : p > o => n[p] = 0
    /\ r.state \in Live =>
         /\ r.next \in 0..(MaxTime + 1)
         /\ r.claim # NoClaim =>
              r.claim.id >= 1 /\ r.claim.id = r.serial /\ r.claim.occ = r.next /\ r.next \in Times
         /\ r.next \in Times => n[r.next] = IF r.claim # NoClaim THEN r.claim.attempt ELSE r.last
         /\ \A o \in Times : o > r.next => n[o] = 0
    /\ \A o \in Times : n[o] <= MaxAttempts

Done(s, o) == \E j \in jobs : j.sched = s /\ j.occ = o

\* From o up to the next run of s nothing is left to submit.
SubmittedFrom(s, o) ==
    schedule[s].state \in Live =>
      o <= schedule[s].next /\ \A p \in Times : o <= p /\ p < schedule[s].next => Done(s, p)

TickSound(k, seen) ==
    /\ k.pc \in Resting => k.claim = NoClaim /\ k.sched = {}
    /\ k.pc \in Handling => k.claim.id >= 1 /\ k.claim.occ \in Times /\ \E s \in Schedules : k.sched = {s}
    /\ k.pc # "idle" => k.now <= seen

\* A trigger some tick holds: it is the one in flight, or its lease has run out
\* by the last instant observed.
HeldSound(k, s) ==
    /\ schedule[s].state # "absent"
    /\ k.claim.id <= schedule[s].serial
    /\ schedule[s].claim = k.claim \/ k.claim.expires <= observed
    /\ SubmittedFrom(s, k.claim.occ)
    /\ k.pc = "ack" => Done(s, k.claim.occ)

JobSound(j) ==
    /\ j.key = <<j.occ>>
    /\ schedule[j.sched].state # "absent"
    /\ SubmittedFrom(j.sched, j.occ)

RowsSound  == \A s \in Schedules : RowSound(schedule[s], tries[s])
TicksSound == \A t \in Tickers : TickSound(ticker[t], observed)
HeldOnes   == \A t \in Tickers, s \in Schedules : ticker[t].sched = {s} => HeldSound(ticker[t], s)
HeldApart  == \A t, u \in Tickers, s \in Schedules :
    t # u /\ ticker[t].sched = {s} /\ ticker[u].sched = {s} => ticker[t].claim.id # ticker[u].claim.id
JobsSound  == (\A j \in jobs : JobSound(j)) /\ OneJobPerOccurrence

AutInv == AutTyped /\ RowsSound /\ TicksSound /\ HeldOnes /\ HeldApart /\ JobsSound

-----------------------------------------------------------------------------
LEMMA Numbers == /\ MaxAttempts \in Nat /\ MaxAttempts >= 1 /\ Lease \in Nat /\ MaxTime \in Nat
                 /\ Times \subseteq Int /\ NoTime = -1
BY AutomationSchedulerAssumption DEF AutomationSchedulerAssumption, Times, NoTime

LEMMA NoneTyped == NoClaim \in Claims /\ NoClaim.id = 0 /\ NoRow \in Rows /\ NoTick \in Ticks
BY Numbers DEF NoClaim, Claims, NoRow, Rows, States, NoTick, Ticks, Resting, Handling, Times, NoTime

LEMMA AutInitSound == AutInit => AutInv
<1> SUFFICES ASSUME AutInit PROVE AutInv
    OBVIOUS
<1>1. AutTyped
  <2>1. schedule \in [Schedules -> Rows] /\ ticker \in [Tickers -> Ticks]
    BY NoneTyped DEF AutInit
  <2>2. tries \in [Schedules -> [Times -> Nat]]
    BY DEF AutInit
  <2>3. observed \in Int /\ observed <= MaxTime /\ clock \in Times /\ jobs = {}
    BY Numbers DEF AutInit, Times, NoTime
  <2> QED BY <2>1, <2>2, <2>3 DEF AutTyped
<1>2. RowsSound
  <2> SUFFICES ASSUME NEW s \in Schedules PROVE RowSound(schedule[s], tries[s])
      BY DEF RowsSound
  <2>1. schedule[s] = NoRow /\ NoRow.state = "absent" /\ NoRow.next = NoTime /\ NoRow.claim = NoClaim
    BY DEF AutInit, NoRow
  <2>2. \A o \in Times : tries[s][o] = 0
    BY DEF AutInit
  <2> QED BY <2>1, <2>2, Numbers DEF RowSound, Live
<1>3. \A t \in Tickers : ticker[t].pc = "idle" /\ ticker[t].claim = NoClaim /\ ticker[t].sched = {}
  BY DEF AutInit, NoTick
<1>4. TicksSound /\ HeldOnes /\ HeldApart
  BY <1>3 DEF TicksSound, TickSound, HeldOnes, HeldApart, Resting, Handling
<1>5. JobsSound
  BY DEF AutInit, JobsSound, OneJobPerOccurrence
<1> QED BY <1>1, <1>2, <1>4, <1>5 DEF AutInv
-----------------------------------------------------------------------------
(* Steps that leave the rows, the Jobs and the counts alone.               *)

\* A tick that rests afterwards, or ends, holds nothing.
LEMMA RestKeepsAut ==
    ASSUME AutInv, NEW t \in Tickers, NEW k \in Ticks, TickSound(k, observed'), k.sched = {},
           ticker' = [ticker EXCEPT ![t] = k], UNCHANGED <<schedule, jobs, tries, clock>>,
           observed' \in Int, observed <= observed', observed' <= MaxTime
    PROVE  AutInv'
<1>0. observed \in Int /\ ticker \in [Tickers -> Ticks]
  BY DEF AutInv, AutTyped
<1>1. AutTyped'
  <2>1. ticker' \in [Tickers -> Ticks]
    BY <1>0
  <2> QED BY <2>1 DEF AutInv, AutTyped
<1>2. /\ ticker'[t] = k
      /\ \A u \in Tickers \ {t} : ticker'[u] = ticker[u]
  BY <1>0
<1>3. TicksSound'
  <2> SUFFICES ASSUME NEW u \in Tickers PROVE TickSound(ticker'[u], observed')
      BY DEF TicksSound
  <2>1. CASE u = t
    BY <2>1, <1>2
  <2>2. CASE u # t
    <3>1. TickSound(ticker[u], observed) /\ ticker[u].now \in Int
      BY <1>0, Numbers DEF AutInv, TicksSound, Ticks
    <3> QED BY <2>2, <1>2, <1>0, <3>1 DEF TickSound
  <2> QED BY <2>1, <2>2
<1>4. HeldOnes'
  <2> SUFFICES ASSUME NEW u \in Tickers, NEW s \in Schedules, ticker'[u].sched = {s}
               PROVE  HeldSound(ticker[u], s)' /\ ticker'[u] = ticker[u]
      BY DEF HeldOnes, HeldSound, SubmittedFrom, Done
  <2>1. u # t
    BY <1>2
  <2>2. ticker'[u] = ticker[u] /\ HeldSound(ticker[u], s) /\ ticker[u].claim.expires \in Int
    BY <2>1, <1>2, <1>0 DEF AutInv, HeldOnes, Ticks, Claims
  <2> QED BY <2>2, <1>0 DEF HeldSound, SubmittedFrom, Done
<1>5. HeldApart'
  <2> SUFFICES ASSUME NEW u \in Tickers, NEW v \in Tickers, NEW s \in Schedules,
                      u # v, ticker'[u].sched = {s}, ticker'[v].sched = {s}
               PROVE  ticker'[u].claim.id # ticker'[v].claim.id
      BY DEF HeldApart
  <2>1. u # t /\ v # t
    BY <1>2
  <2> QED BY <2>1, <1>2 DEF AutInv, HeldApart
<1>6. RowsSound' /\ JobsSound'
  BY DEF AutInv, RowsSound, JobsSound, JobSound, SubmittedFrom, Done, OneJobPerOccurrence
<1> QED BY <1>1, <1>3, <1>4, <1>5, <1>6 DEF AutInv

LEMMA StartKeepsAut ==
    ASSUME AutInv, NEW t \in Tickers, StartTick(t) PROVE AutInv'
<1> DEFINE now == EffectiveNow(clock)
<1>1. observed \in Int /\ observed <= MaxTime /\ clock \in Times /\ ticker \in [Tickers -> Ticks]
  BY DEF AutInv, AutTyped
<1>2. now \in Times /\ observed <= now /\ observed' = now /\ UNCHANGED <<schedule, jobs, tries, clock>>
  <2>1. now \in Times /\ observed <= now
    BY <1>1, Numbers DEF EffectiveNow, Later, Times
  <2>2. observed' = now /\ UNCHANGED <<schedule, jobs, tries, clock>>
    BY DEF StartTick
  <2> QED BY <2>1, <2>2
<1>3. observed' \in Int /\ observed' <= MaxTime
  BY <1>2, Numbers DEF Times
<1>4. ticker[t] = NoTick
  BY DEF StartTick
<1> HIDE DEF now
<1>5. CASE UNCHANGED ticker
  <2>1. ticker' = [ticker EXCEPT ![t] = NoTick]
    BY <1>5, <1>4, <1>1
  <2>2. TickSound(NoTick, observed') /\ NoTick.sched = {}
    BY DEF TickSound, NoTick, Resting, Handling
  <2> QED BY <2>1, <2>2, <1>2, <1>3, NoneTyped, RestKeepsAut
<1>6. ASSUME NEW list \in SeqOf(Schedules, MaxDue),
             ticker' = [ticker EXCEPT ![t] = [NoTick EXCEPT !.pc = "claim", !.now = now, !.due = list]]
      PROVE  AutInv'
  <2> DEFINE k == [NoTick EXCEPT !.pc = "claim", !.now = now, !.due = list]
  <2>1. list \in Seq(Schedules)
    BY AutomationSchedulerAssumption DEF SeqOf, AutomationSchedulerAssumption
  <2>2. k \in Ticks /\ k.sched = {} /\ k.claim = NoClaim /\ k.pc = "claim" /\ k.now = now
    BY <2>1, <1>2, NoneTyped DEF NoTick, Ticks, Resting
  <2>3. TickSound(k, observed')
    BY <2>2, <1>2, Numbers DEF TickSound, Resting, Handling, Times
  <2>4. ticker' = [ticker EXCEPT ![t] = k]
    BY <1>6
  <2> HIDE DEF k
  <2> QED BY <2>2, <2>3, <2>4, <1>2, <1>3, RestKeepsAut
<1> QED BY <1>5, <1>6 DEF StartTick, now

LEMMA EndKeepsAut ==
    ASSUME AutInv, NEW t \in Tickers, ticker' = [ticker EXCEPT ![t] = NoTick],
           UNCHANGED <<schedule, jobs, tries, observed, clock>>
    PROVE  AutInv'
<1>1. TickSound(NoTick, observed') /\ NoTick.sched = {}
  BY DEF TickSound, NoTick, Resting, Handling
<1>2. observed' \in Int /\ observed <= observed' /\ observed' <= MaxTime
  BY DEF AutInv, AutTyped
<1> QED BY <1>1, <1>2, NoneTyped, RestKeepsAut
-----------------------------------------------------------------------------
(* A claim is taken.                                                       *)

LEMMA TakeKeepsAut ==
    ASSUME AutInv, NEW t \in Tickers, NEW s \in Schedules, NEW claim, NEW row, NEW k,
           Claimable(s, ticker[t].now), ticker[t].pc = "claim",
           claim = [id |-> schedule[s].serial + 1, occ |-> schedule[s].next,
                    attempt |-> NextAttempt(s), expires |-> ticker[t].now + Lease],
           row = [schedule[s] EXCEPT !.claim = claim, !.serial = @ + 1],
           k = [ticker[t] EXCEPT !.pc = "submit", !.due = Tail(@), !.sched = {s}, !.claim = claim],
           ticker[t].due # <<>>,
           schedule' = [schedule EXCEPT ![s] = row],
           tries' = [tries EXCEPT ![s] = [tries[s] EXCEPT ![claim.occ] = tries[s][claim.occ] + 1]],
           ticker' = [ticker EXCEPT ![t] = k],
           UNCHANGED <<jobs, observed, clock>>
    PROVE  AutInv'
<1>0. /\ schedule \in [Schedules -> Rows] /\ tries \in [Schedules -> [Times -> Nat]]
      /\ ticker \in [Tickers -> Ticks] /\ observed \in Int /\ jobs \subseteq Accepted
      /\ schedule[s] \in Rows /\ ticker[t] \in Ticks /\ tries[s] \in [Times -> Nat]
  BY DEF AutInv, AutTyped
<1>1. /\ schedule[s].state = "active" /\ schedule[s].next # NoTime /\ schedule[s].next <= ticker[t].now
      /\ schedule[s].claim # NoClaim => schedule[s].claim.expires <= ticker[t].now
      /\ NextAttempt(s) <= MaxAttempts
  BY DEF Claimable, Due
<1>2. /\ schedule[s].next \in Int /\ ticker[t].now \in Times /\ schedule[s].serial \in Nat
      /\ schedule[s].claim \in Claims /\ schedule[s].last \in Nat /\ schedule[s].claim.attempt \in Nat
      /\ schedule[s].claim.expires \in Int /\ schedule[s].claim.id \in Nat
  BY <1>0 DEF Rows, Ticks, Claims
<1>3. RowSound(schedule[s], tries[s]) /\ TickSound(ticker[t], observed)
  BY DEF AutInv, RowsSound, TicksSound
<1>4. schedule[s].next \in Times
  <2>1. schedule[s].next \in 0..(MaxTime + 1)
    BY <1>1, <1>3 DEF RowSound, Live
  <2>2. ticker[t].now \in 0..MaxTime
    BY <1>2 DEF Times
  <2>3. \A n \in 0..(MaxTime + 1), m \in 0..MaxTime : n <= m => n \in 0..MaxTime
    BY Numbers
  <2> QED BY <2>1, <2>2, <2>3, <1>1 DEF Times
<1>5. NextAttempt(s) \in Nat /\ NextAttempt(s) = tries[s][schedule[s].next] + 1
  BY <1>1, <1>2, <1>3, <1>4 DEF NextAttempt, RowSound, Live
<1>6. /\ claim \in Claims /\ claim.id = schedule[s].serial + 1 /\ claim.occ = schedule[s].next
      /\ claim.attempt = NextAttempt(s) /\ claim.expires = ticker[t].now + Lease
  <2>1. schedule[s].serial + 1 \in Nat /\ ticker[t].now + Lease \in Int
    <3>1. (\A n \in Times : n + Lease \in Int) /\ (\A n \in Nat : n + 1 \in Nat)
      BY Numbers
    <3> QED BY <1>2, <3>1, Zenon
  <2>2. claim \in Claims
    BY <2>1, <1>2, <1>5 DEF Claims
  <2> QED BY <2>2
<1>7. claim # NoClaim /\ claim.id >= 1
  BY <1>6, <1>2, NoneTyped
<1>8. /\ row \in Rows /\ row.state = "active" /\ row.next = schedule[s].next /\ row.claim = claim
      /\ row.serial = schedule[s].serial + 1 /\ row.last = schedule[s].last
  <2>1. row = [schedule[s] EXCEPT !.claim = claim, !.serial = schedule[s].serial + 1]
    OBVIOUS
  <2>2. schedule[s].serial + 1 \in Nat /\ claim \in Claims
    BY <1>2, <1>6
  <2>3. row \in Rows
    BY <1>0, <2>1, <2>2 DEF Rows
  <2> QED BY <1>0, <1>1, <2>1, <2>3 DEF Rows
<1>9. /\ k \in Ticks /\ k.pc = "submit" /\ k.sched = {s} /\ k.claim = claim /\ k.now = ticker[t].now
  <2>1. k = [ticker[t] EXCEPT !.pc = "submit", !.due = Tail(ticker[t].due), !.sched = {s}, !.claim = claim]
    OBVIOUS
  <2>2. Tail(ticker[t].due) \in Seq(Schedules) /\ claim \in Claims /\ {s} \in SUBSET Schedules
    BY <1>0, <1>6 DEF Ticks
  <2>3. k \in Ticks
    BY <1>0, <2>1, <2>2 DEF Ticks, Handling
  <2> QED BY <1>0, <2>1, <2>3 DEF Ticks
<1>10. /\ schedule'[s] = row /\ \A x \in Schedules \ {s} : schedule'[x] = schedule[x] /\ tries'[x] = tries[x]
       /\ ticker'[t] = k /\ \A u \in Tickers \ {t} : ticker'[u] = ticker[u]
       /\ tries'[s] = [tries[s] EXCEPT ![claim.occ] = tries[s][claim.occ] + 1]
  <2>1. schedule'[s] = row /\ \A x \in Schedules \ {s} : schedule'[x] = schedule[x]
    BY <1>0
  <2>2. ticker'[t] = k /\ \A u \in Tickers \ {t} : ticker'[u] = ticker[u]
    BY <1>0
  <2>3. tries' = [tries EXCEPT ![s] = [tries[s] EXCEPT ![claim.occ] = tries[s][claim.occ] + 1]]
    OBVIOUS
  <2>4. /\ \A x \in Schedules \ {s} : tries'[x] = tries[x]
        /\ tries'[s] = [tries[s] EXCEPT ![claim.occ] = tries[s][claim.occ] + 1]
    BY <1>0, <2>3
  <2> QED BY <2>1, <2>2, <2>4
<1>11. AutTyped'
  <2>1. tries'[s] \in [Times -> Nat] /\ tries' \in [Schedules -> [Times -> Nat]]
    BY <1>0, <1>10, <1>6, <1>4
  <2> QED BY <2>1, <1>0, <1>8, <1>9 DEF AutInv, AutTyped
<1> DEFINE n == tries'[s]
<1>12. /\ \A o \in Times : o # schedule[s].next => n[o] = tries[s][o]
       /\ n[schedule[s].next] = NextAttempt(s)
  BY <1>0, <1>10, <1>6, <1>4, <1>5
<1>13. RowSound(row, n)
  <2>1. \A o \in Times : n[o] <= MaxAttempts
    BY <1>12, <1>1, <1>3, <1>4 DEF RowSound
  <2>2. \A o \in Times : o > row.next => n[o] = 0
    BY <1>12, <1>3, <1>4, <1>8, <1>1, Numbers DEF RowSound, Live
  <2>3. row.next \in 0..(MaxTime + 1)
    BY <1>4, <1>8, Numbers DEF Times
  <2> HIDE DEF n
  <2> QED BY <2>1, <2>2, <2>3, <1>4, <1>6, <1>7, <1>8, <1>12 DEF RowSound, Live
<1>14. RowsSound'
  <2> SUFFICES ASSUME NEW x \in Schedules PROVE RowSound(schedule'[x], tries'[x])
      BY DEF RowsSound
  <2>1. CASE x = s
    BY <2>1, <1>10, <1>13
  <2>2. CASE x # s
    BY <2>2, <1>10 DEF AutInv, RowsSound
  <2> QED BY <2>1, <2>2
<1>15. TicksSound'
  <2> SUFFICES ASSUME NEW u \in Tickers PROVE TickSound(ticker'[u], observed')
      BY DEF TicksSound
  <2>1. CASE u = t
    <3>1. k.now <= observed
      BY <1>3, <1>9 DEF TickSound
    <3>2. ticker'[u] = k /\ observed' = observed
      BY <2>1, <1>10
    <3>3. k.claim.id >= 1 /\ k.claim.occ \in Times
      BY <1>9, <1>7, <1>6, <1>4
    <3>4. TickSound(k, observed)
      BY <3>1, <3>3, <1>9 DEF TickSound, Handling, Resting
    <3> QED BY <3>2, <3>4
  <2>2. CASE u # t
    BY <2>2, <1>10 DEF AutInv, TicksSound
  <2> QED BY <2>1, <2>2
<1>16. \A x \in Schedules : \A o : SubmittedFrom(x, o)' <=> SubmittedFrom(x, o)
  BY <1>10, <1>8, <1>1 DEF SubmittedFrom, Done
<1>17. HeldOnes'
  <2> SUFFICES ASSUME NEW u \in Tickers, NEW x \in Schedules, ticker'[u].sched = {x}
               PROVE  HeldSound(ticker[u], x)'
      BY DEF HeldOnes
  <2>1. CASE u = t
    <3>0. ticker'[t].sched = {s} /\ ticker'[t].sched = {x}
      BY <2>1, <1>9, <1>10
    <3>1. x = s
      BY <3>0
    <3>2. SubmittedFrom(s, claim.occ)
      <4>1. \A p \in Times : ~(claim.occ <= p /\ p < schedule[s].next)
        BY <1>6, <1>2, Numbers DEF Times
      <4> QED BY <4>1, <1>6, <1>2 DEF SubmittedFrom
    <3>3. ticker'[u] = k /\ schedule'[x] = row
      BY <2>1, <3>1, <1>10
    <3>4. SubmittedFrom(s, claim.occ)'
      BY <3>2, <1>16
    <3>5. claim.id <= row.serial /\ row.claim = claim /\ row.state # "absent"
      BY <1>6, <1>8, <1>2
    <3> QED BY <3>1, <3>3, <3>4, <3>5, <1>9 DEF HeldSound
  <2>2. CASE u # t /\ x # s
    BY <2>2, <1>10, <1>16 DEF AutInv, HeldOnes, HeldSound, Done
  <2>3. CASE u # t /\ x = s
    <3>1. ticker'[u] = ticker[u] /\ HeldSound(ticker[u], s)
      BY <2>3, <1>10 DEF AutInv, HeldOnes
    <3>2. ticker[u].claim \in Claims /\ ticker[u].claim.id \in Nat /\ ticker[u].claim.expires \in Int
      BY <1>0 DEF Ticks, Claims
    <3>3. ticker[u].claim # NoClaim
      <4>1. TickSound(ticker[u], observed) /\ ticker[u].sched # {} /\ ticker[u].pc \in Resting \cup Handling
        BY <3>1, <2>3, <1>0 DEF AutInv, TicksSound, Ticks
      <4> QED BY <4>1, NoneTyped DEF TickSound
    <3>4. ticker[u].claim.expires <= observed
      <4>1. CASE schedule[s].claim = ticker[u].claim
        <5>1. schedule[s].claim.expires <= ticker[t].now /\ ticker[t].now <= observed
          BY <4>1, <3>3, <1>1, <1>3 DEF TickSound
        <5>2. \A early \in Int, late \in Times : early <= late /\ late <= observed => early <= observed
          BY <1>0, Numbers
        <5> QED BY <5>1, <5>2, <4>1, <1>2, Zenon
      <4> QED BY <4>1, <3>1 DEF HeldSound
    <3>5. schedule'[s] = row
      BY <1>10
    <3>6. /\ row.state # "absent"
          /\ ticker[u].claim.id <= row.serial
          /\ SubmittedFrom(s, ticker[u].claim.occ)
          /\ ticker[u].pc = "ack" => Done(s, ticker[u].claim.occ)
      BY <3>1, <3>2, <1>8, <1>2 DEF HeldSound
    <3> QED BY <3>1, <3>4, <3>5, <3>6, <2>3, <1>16 DEF HeldSound, Done
  <2> QED BY <2>1, <2>2, <2>3
<1>18. HeldApart'
  <2>1. \A u \in Tickers \ {t} : ticker'[u].sched = {s} => ticker'[u].claim.id \in Nat
                                                        /\ ticker'[u].claim.id < claim.id
    <3> SUFFICES ASSUME NEW u \in Tickers, u # t, ticker[u].sched = {s}
                 PROVE  ticker[u].claim.id \in Nat /\ ticker[u].claim.id < claim.id
        BY <1>10
    <3>1. ticker[u].claim.id \in Nat
      BY <1>0 DEF Ticks, Claims
    <3>2. ticker[u].claim.id <= schedule[s].serial
      BY DEF AutInv, HeldOnes, HeldSound
    <3> QED BY <3>1, <3>2, <1>2, <1>6
  <2>2. claim.id \in Nat /\ ticker'[t].claim = claim /\ ticker'[t].sched = {s}
    BY <1>6, <1>9, <1>10 DEF Claims
  <2> SUFFICES ASSUME NEW u \in Tickers, NEW v \in Tickers, NEW x \in Schedules,
                      u # v, ticker'[u].sched = {x}, ticker'[v].sched = {x}
               PROVE  ticker'[u].claim.id # ticker'[v].claim.id
      BY DEF HeldApart
  <2>3. CASE u = t
    <3>1. x = s /\ v # t
      BY <2>3, <2>2
    <3> QED BY <3>1, <2>1, <2>2, <2>3
  <2>4. CASE v = t
    <3>1. x = s /\ u # t
      BY <2>4, <2>2
    <3> QED BY <3>1, <2>1, <2>2, <2>4
  <2>5. CASE u # t /\ v # t
    BY <2>5, <1>10 DEF AutInv, HeldApart
  <2> QED BY <2>3, <2>4, <2>5
<1>19. JobsSound'
  <2>1. \A j \in jobs : j.sched \in Schedules /\ JobSound(j)
    BY <1>0 DEF AutInv, JobsSound, Accepted
  <2>2. \A x \in Schedules : schedule'[x].state = schedule[x].state
    BY <1>10, <1>8, <1>1
  <2>3. \A j \in jobs : JobSound(j)'
    BY <2>1, <2>2, <1>16 DEF JobSound
  <2> QED BY <2>3 DEF AutInv, JobsSound, OneJobPerOccurrence
<1> QED BY <1>11, <1>14, <1>15, <1>17, <1>18, <1>19 DEF AutInv
LEMMA ClaimKeepsAut ==
    ASSUME AutInv, NEW t \in Tickers, Claim(t) PROVE AutInv'
<1> DEFINE s == Head(ticker[t].due)
           claim == [id |-> schedule[s].serial + 1, occ |-> schedule[s].next,
                     attempt |-> NextAttempt(s), expires |-> ticker[t].now + Lease]
           row == [schedule[s] EXCEPT !.claim = claim, !.serial = @ + 1]
           k == [ticker[t] EXCEPT !.pc = "submit", !.due = Tail(@), !.sched = {s}, !.claim = claim]
<1>1. /\ ticker \in [Tickers -> Ticks] /\ ticker[t] \in Ticks /\ ticker[t].due \in Seq(Schedules)
      /\ schedule \in [Schedules -> Rows] /\ tries \in [Schedules -> [Times -> Nat]]
      /\ observed \in Int /\ observed <= MaxTime
  BY DEF AutInv, AutTyped, Ticks
<1>2. ticker[t].pc = "claim" /\ ticker[t].due # <<>> /\ UNCHANGED <<jobs, observed, clock>>
  BY DEF Claim
<1>3. s \in Schedules /\ Tail(ticker[t].due) \in Seq(Schedules)
  BY <1>1, <1>2
<1>4. CASE /\ Claimable(s, ticker[t].now)
           /\ schedule' = [schedule EXCEPT ![s].claim = claim, ![s].serial = @ + 1]
           /\ tries' = [tries EXCEPT ![s][claim.occ] = @ + 1]
           /\ ticker' = [ticker EXCEPT ![t] = [ticker[t] EXCEPT !.pc = "submit", !.due = Tail(@),
                                                               !.sched = {s}, !.claim = claim]]
  <2>1. schedule' = [schedule EXCEPT ![s] = row]
    <3> HIDE DEF claim, s
    <3> QED BY <1>4, <1>1, <1>3
  <2>2. tries' = [tries EXCEPT ![s] = [tries[s] EXCEPT ![claim.occ] = tries[s][claim.occ] + 1]]
    <3> HIDE DEF claim, s
    <3> QED BY <1>4, <1>1, <1>3
  <2>3. ticker' = [ticker EXCEPT ![t] = k]
    <3> HIDE DEF claim, s
    <3> QED BY <1>4, <1>1, <1>3
  <2>4. Claimable(s, ticker[t].now)
    BY <1>4
  <2> HIDE DEF s
  <2> QED BY <2>1, <2>2, <2>3, <2>4, <1>2, <1>3, TakeKeepsAut
<1>5. CASE /\ ticker' = [ticker EXCEPT ![t].due = Tail(@)]
           /\ UNCHANGED <<schedule, tries>>
  <2> DEFINE rest == [ticker[t] EXCEPT !.due = Tail(ticker[t].due)]
  <2>1. ticker' = [ticker EXCEPT ![t] = rest]
    BY <1>5, <1>1
  <2>2. rest \in Ticks /\ rest.sched = ticker[t].sched /\ rest.claim = ticker[t].claim
        /\ rest.pc = "claim" /\ rest.now = ticker[t].now
    BY <1>1, <1>2, <1>3 DEF Ticks
  <2>3. TickSound(ticker[t], observed)
    BY DEF AutInv, TicksSound
  <2>4. TickSound(rest, observed') /\ rest.sched = {}
    BY <2>2, <2>3, <1>2 DEF TickSound, Resting, Handling
  <2>5. observed' \in Int /\ observed <= observed' /\ observed' <= MaxTime
    BY <1>1, <1>2
  <2> HIDE DEF rest
  <2> QED BY <2>1, <2>2, <2>4, <2>5, <1>2, <1>5, RestKeepsAut
<1> QED BY <1>4, <1>5 DEF Claim

-----------------------------------------------------------------------------
(* A trigger is submitted.                                                 *)

LEMMA TargetIs ==
    ASSUME AutInv, NEW t \in Tickers, ticker[t].pc \in Handling
    PROVE  /\ Target(t) \in Schedules /\ ticker[t].sched = {Target(t)}
           /\ ticker[t].claim.id >= 1 /\ ticker[t].claim.occ \in Times
           /\ ticker[t].claim \in Claims /\ HeldSound(ticker[t], Target(t))
<1>1. TickSound(ticker[t], observed) /\ ticker[t] \in Ticks
  BY DEF AutInv, TicksSound, AutTyped
<1>2. PICK s \in Schedules : ticker[t].sched = {s}
  BY <1>1 DEF TickSound
<1>3. Target(t) = s
  BY <1>2 DEF Target
<1> QED BY <1>1, <1>2, <1>3 DEF TickSound, AutInv, HeldOnes, Ticks

\* One that keeps its trigger and only moves on to its answer.
LEMMA AnswerKeepsAut ==
    ASSUME AutInv, NEW t \in Tickers, ticker[t].pc = "submit", NEW pc \in Handling,
           ticker' = [ticker EXCEPT ![t].pc = pc],
           UNCHANGED <<schedule, tries, observed, clock>>,
           NEW s \in Schedules, ticker[t].sched = {s},
           jobs' \subseteq Accepted, jobs \subseteq jobs', OneJobPerOccurrence',
           \A j \in jobs' \ jobs : j.key = <<j.occ>> /\ j.sched = s /\ j.occ = ticker[t].claim.occ,
           pc = "ack" => \E j \in jobs' : j.sched = s /\ j.occ = ticker[t].claim.occ
    PROVE  AutInv'
<1> DEFINE k == [ticker[t] EXCEPT !.pc = pc]
<1>0. ticker \in [Tickers -> Ticks] /\ ticker[t] \in Ticks
  BY DEF AutInv, AutTyped
<1>1. k \in Ticks /\ k.pc = pc /\ k.sched = {s} /\ k.claim = ticker[t].claim /\ k.now = ticker[t].now
  BY <1>0 DEF Ticks
<1>2. ticker' = [ticker EXCEPT ![t] = k]
  BY <1>0
<1>3. ticker'[t] = k /\ \A u \in Tickers \ {t} : ticker'[u] = ticker[u]
  BY <1>0, <1>2
<1>4. /\ \A u \in Tickers : /\ ticker'[u].sched = ticker[u].sched /\ ticker'[u].claim = ticker[u].claim
                            /\ ticker'[u].now = ticker[u].now
  BY <1>1, <1>3
<1> HIDE DEF k
<1>5. AutTyped' /\ RowsSound' /\ HeldApart'
  <2>1. ticker' \in [Tickers -> Ticks]
    BY <1>0, <1>1, <1>2
  <2> QED BY <2>1, <1>4 DEF AutInv, AutTyped, RowsSound, HeldApart
<1>6. TicksSound'
  <2> SUFFICES ASSUME NEW u \in Tickers PROVE TickSound(ticker'[u], observed')
      BY DEF TicksSound
  <2>1. TickSound(ticker[u], observed)
    BY DEF AutInv, TicksSound
  <2>2. CASE u = t
    BY <2>1, <2>2, <1>1, <1>3, <1>4 DEF TickSound, Handling, Resting
  <2>3. CASE u # t
    BY <2>1, <2>3, <1>3
  <2> QED BY <2>2, <2>3
<1>7. \A x, o : Done(x, o) => Done(x, o)'
  BY DEF Done
<1>8. \A x, o : SubmittedFrom(x, o) => SubmittedFrom(x, o)'
  BY <1>7 DEF SubmittedFrom
<1>9. HeldOnes'
  <2> SUFFICES ASSUME NEW u \in Tickers, NEW x \in Schedules, ticker'[u].sched = {x}
               PROVE  HeldSound(ticker[u], x)'
      BY DEF HeldOnes
  <2>1. HeldSound(ticker[u], x)
    BY <1>4 DEF AutInv, HeldOnes
  <2>2. ticker'[u].pc = "ack" => Done(x, ticker[u].claim.occ)'
    <3>1. CASE u = t
      <4>1. ticker'[t].sched = {s} /\ ticker'[t].sched = {x} /\ ticker'[t].pc = pc
        BY <3>1, <1>1, <1>3
      <4> QED BY <3>1, <4>1 DEF Done
    <3>2. CASE u # t
      BY <3>2, <2>1, <1>3, <1>7 DEF HeldSound
    <3> QED BY <3>1, <3>2
  <2> QED BY <2>1, <2>2, <1>4, <1>8 DEF HeldSound
<1>10. JobsSound'
  <2> SUFFICES ASSUME NEW j \in jobs' PROVE JobSound(j)'
      BY DEF JobsSound
  <2>1. CASE j \in jobs
    BY <2>1, <1>8 DEF AutInv, JobsSound, JobSound
  <2>2. CASE j \notin jobs
    <3>1. HeldSound(ticker[t], s)
      BY DEF AutInv, HeldOnes
    <3> QED BY <2>2, <3>1, <1>8 DEF JobSound, HeldSound
  <2> QED BY <2>1, <2>2
<1> QED BY <1>5, <1>6, <1>9, <1>10 DEF AutInv

LEMMA SubmitKeepsAut ==
    ASSUME AutInv, NEW t \in Tickers, SubmitTrigger(t) PROVE AutInv'
<1> DEFINE s == Target(t)
           claim == ticker[t].claim
           fresh == [sched |-> s, key |-> <<claim.occ>>, occ |-> claim.occ, claim |-> claim.id]
<1>1. ticker[t].pc = "submit" /\ UNCHANGED <<schedule, tries, observed, clock>>
  BY DEF SubmitTrigger
<1>2. /\ s \in Schedules /\ ticker[t].sched = {s} /\ claim.occ \in Times /\ claim.id \in Nat
      /\ jobs \subseteq Accepted
  BY <1>1, TargetIs DEF Handling, Claims, AutInv, AutTyped
<1>3. \A j \in jobs : j.key = <<j.occ>>
  BY DEF AutInv, JobsSound, JobSound
<1>4. OneJobPerOccurrence
  BY DEF AutInv, JobsSound
<1>5. CASE jobs' = jobs /\ ticker' = [ticker EXCEPT ![t].pc = "fail"]
  <2>1. OneJobPerOccurrence'
    BY <1>4, <1>5 DEF OneJobPerOccurrence
  <2> QED BY <2>1, <1>1, <1>2, <1>5, AnswerKeepsAut DEF Handling
<1>6. CASE /\ jobs' = jobs /\ ticker' = [ticker EXCEPT ![t].pc = "ack"]
           /\ \E j \in jobs : j.sched = s /\ j.key = <<claim.occ>>
  <2>1. OneJobPerOccurrence'
    BY <1>4, <1>6 DEF OneJobPerOccurrence
  <2>2. PICK j \in jobs' : j.sched = s /\ j.key = <<claim.occ>>
    BY <1>6
  <2>3. j.occ = claim.occ
    BY <2>2, <1>6, <1>3
  <2> QED BY <2>1, <2>2, <2>3, <1>1, <1>2, <1>6, AnswerKeepsAut DEF Handling
<1>7. CASE /\ jobs' = jobs \cup {fresh} /\ ticker' = [ticker EXCEPT ![t].pc = "ack"]
           /\ ~\E j \in jobs : j.sched = s /\ j.key = <<claim.occ>>
  <2>1. fresh \in Accepted
    <3>1. claim.occ \in Int
      BY <1>2, Numbers
    <3>2. <<claim.occ>> \in Seq(Int)
      BY <3>1
    <3> QED BY <3>2, <1>2 DEF Accepted
  <2>2. fresh.sched = s /\ fresh.occ = claim.occ /\ fresh.key = <<fresh.occ>>
    OBVIOUS
  <2> HIDE DEF fresh, s, claim
  <2>3. jobs' \subseteq Accepted /\ jobs \subseteq jobs' /\ fresh \in jobs'
    BY <2>1, <1>2, <1>7
  <2>4. \A j \in jobs' \ jobs : j = fresh
    BY <1>7
  <2>5. OneJobPerOccurrence'
    <3>1. \A j \in jobs : ~(j.sched = fresh.sched /\ j.occ = fresh.occ)
      BY <2>2, <1>3, <1>7
    <3> QED BY <3>1, <2>4, <1>4 DEF OneJobPerOccurrence
  <2>6. /\ \A j \in jobs' \ jobs : j.key = <<j.occ>> /\ j.sched = s /\ j.occ = ticker[t].claim.occ
        /\ \E j \in jobs' : j.sched = s /\ j.occ = ticker[t].claim.occ
    BY <2>2, <2>3, <2>4 DEF claim
  <2>7. "ack" \in Handling
    BY DEF Handling
  <2>8. ticker' = [ticker EXCEPT ![t].pc = "ack"] /\ s \in Schedules /\ ticker[t].sched = {s}
    BY <1>2, <1>7
  <2>9. jobs' \subseteq Accepted /\ jobs \subseteq jobs'
    BY <2>3
  <2> QED BY <2>5, <2>6, <2>7, <2>8, <2>9, <1>1, AnswerKeepsAut, Zenon
<1> QED BY <1>5, <1>6, <1>7 DEF SubmitTrigger, OccurrenceKey
-----------------------------------------------------------------------------
(* A trigger is answered: acknowledged, or recorded as failed.             *)

LEMMA ReleaseKeepsAut ==
    ASSUME AutInv, NEW t \in Tickers, ticker[t].pc \in Handling,
           NEW s \in Schedules, s = Target(t), MatchingClaim(s, ticker[t].claim),
           NEW row \in Rows, row.claim = NoClaim, row.serial = schedule[s].serial,
           row.state # "absent", RowSound(row, tries[s]),
           row.state \in Live =>
             \/ row.next = schedule[s].next
             \/ row.next = schedule[s].next + 1 /\ Done(s, schedule[s].next),
           schedule' = [schedule EXCEPT ![s] = row], Continue(t),
           UNCHANGED <<jobs, tries, observed, clock>>
    PROVE  AutInv'
<1> DEFINE k == [ticker[t] EXCEPT !.pc = "claim", !.sched = {}, !.claim = NoClaim]
<1>0. /\ ticker \in [Tickers -> Ticks] /\ ticker[t] \in Ticks /\ schedule \in [Schedules -> Rows]
      /\ schedule[s] \in Rows /\ jobs \subseteq Accepted
  BY DEF AutInv, AutTyped
<1>1. k \in Ticks /\ k.pc = "claim" /\ k.sched = {} /\ k.claim = NoClaim /\ k.now = ticker[t].now
  BY <1>0, NoneTyped DEF Ticks, Resting
<1>2. ticker' = [ticker EXCEPT ![t] = k]
  BY <1>0 DEF Continue
<1>3. /\ ticker'[t] = k /\ \A u \in Tickers \ {t} : ticker'[u] = ticker[u]
      /\ schedule'[s] = row /\ \A x \in Schedules \ {s} : schedule'[x] = schedule[x]
  BY <1>0, <1>2
<1> HIDE DEF k
<1>4. /\ ticker[t].sched = {s} /\ ticker[t].claim.id >= 1 /\ schedule[s].claim = ticker[t].claim
      /\ HeldSound(ticker[t], s)
  BY TargetIs DEF MatchingClaim
<1>5. AutTyped'
  <2>1. ticker' \in [Tickers -> Ticks] /\ schedule' \in [Schedules -> Rows]
    BY <1>0, <1>1, <1>2
  <2> QED BY <2>1 DEF AutInv, AutTyped
<1>6. RowsSound'
  <2> SUFFICES ASSUME NEW x \in Schedules PROVE RowSound(schedule'[x], tries[x])
      BY DEF RowsSound
  <2>1. CASE x = s
    BY <2>1, <1>3
  <2>2. CASE x # s
    BY <2>2, <1>3 DEF AutInv, RowsSound
  <2> QED BY <2>1, <2>2
<1>7. TicksSound'
  <2> SUFFICES ASSUME NEW u \in Tickers PROVE TickSound(ticker'[u], observed)
      BY DEF TicksSound
  <2>1. TickSound(ticker[u], observed)
    BY DEF AutInv, TicksSound
  <2>2. CASE u = t
    BY <2>1, <2>2, <1>1, <1>3 DEF TickSound, Handling, Resting
  <2>3. CASE u # t
    BY <2>1, <2>3, <1>3
  <2> QED BY <2>2, <2>3
<1>8. HeldApart'
  <2>1. \A u \in Tickers, x \in Schedules : ticker'[u].sched = {x} => u # t
    BY <1>1, <1>3
  <2> QED BY <2>1, <1>3 DEF AutInv, HeldApart
<1>9. schedule[s].state \in Live
  <2>1. schedule[s].claim # NoClaim
    BY <1>4, NoneTyped
  <2> QED BY <2>1, <1>0 DEF AutInv, RowsSound, RowSound, Rows, States, Live
<1>10. ASSUME NEW x \in Schedules, NEW o \in Times, SubmittedFrom(x, o) PROVE SubmittedFrom(x, o)'
  <2>1. CASE x # s
    BY <2>1, <1>10, <1>3 DEF SubmittedFrom, Done
  <2>2. CASE x = s /\ row.state \in Live
    <3>1. schedule[s].next \in Int /\ o \in Int
      BY <1>0, Numbers DEF Rows
    <3>2. o <= schedule[s].next /\ \A p \in Times : o <= p /\ p < schedule[s].next => Done(s, p)
      BY <2>2, <1>9, <1>10 DEF SubmittedFrom
    <3>3. o <= row.next /\ \A p \in Times : o <= p /\ p < row.next => Done(s, p)
      BY <3>1, <3>2, <2>2, Numbers
    <3> QED BY <3>3, <2>2, <1>3 DEF SubmittedFrom, Done
  <2>3. CASE x = s /\ row.state \notin Live
    BY <2>3, <1>3 DEF SubmittedFrom
  <2> QED BY <2>1, <2>2, <2>3
<1>11. HeldOnes'
  <2> SUFFICES ASSUME NEW u \in Tickers, NEW x \in Schedules, ticker'[u].sched = {x}
               PROVE  HeldSound(ticker[u], x)'
      BY DEF HeldOnes
  <2>1. u # t /\ ticker'[u] = ticker[u] /\ ticker[u].sched = {x}
    BY <1>1, <1>3
  <2>2. HeldSound(ticker[u], x) /\ ticker[u].claim.occ \in Times
    <3>1. TickSound(ticker[u], observed) /\ ticker[u].pc \in Resting \cup Handling /\ ticker[u].sched # {}
      BY <2>1, <1>0 DEF AutInv, TicksSound, Ticks
    <3> QED BY <2>1, <3>1 DEF AutInv, HeldOnes, TickSound
  <2>3. SubmittedFrom(x, ticker[u].claim.occ)'
    BY <2>1, <2>2, <1>10 DEF HeldSound
  <2>4. CASE x # s
    BY <2>1, <2>2, <2>3, <2>4, <1>3 DEF HeldSound, Done
  <2>5. CASE x = s
    <3>1. ticker[u].claim.id # ticker[t].claim.id
      BY <2>1, <2>5, <1>4 DEF AutInv, HeldApart
    <3>2. ticker[u].claim.expires <= observed
      BY <3>1, <2>2, <2>5, <1>4 DEF HeldSound
    <3> QED BY <3>2, <2>1, <2>2, <2>3, <2>5, <1>3 DEF HeldSound, Done
  <2> QED BY <2>4, <2>5
<1>12. JobsSound'
  <2> SUFFICES ASSUME NEW j \in jobs PROVE JobSound(j)'
      BY DEF AutInv, JobsSound, OneJobPerOccurrence
  <2>1. j.sched \in Schedules /\ j.occ \in Times /\ JobSound(j)
    BY <1>0 DEF AutInv, JobsSound, Accepted
  <2>2. SubmittedFrom(j.sched, j.occ)'
    BY <2>1, <1>10 DEF JobSound
  <2>3. schedule'[j.sched].state # "absent"
    BY <2>1, <1>3 DEF JobSound
  <2> QED BY <2>1, <2>2, <2>3 DEF JobSound
<1> QED BY <1>5, <1>6, <1>7, <1>8, <1>11, <1>12 DEF AutInv

\* What a tick holding the trigger in flight knows of the row.
LEMMA InFlight ==
    ASSUME AutInv, NEW t \in Tickers, ticker[t].pc \in Handling,
           NEW s \in Schedules, s = Target(t), MatchingClaim(s, ticker[t].claim)
    PROVE  /\ schedule[s] \in Rows /\ schedule[s].state \in Live /\ tries[s] \in [Times -> Nat]
           /\ ticker[t].claim \in Claims /\ ticker[t].claim.occ = schedule[s].next
           /\ schedule[s].next \in Times
           /\ tries[s][schedule[s].next] = ticker[t].claim.attempt
           /\ RowSound(schedule[s], tries[s])
<1>1. schedule[s] \in Rows /\ tries[s] \in [Times -> Nat] /\ RowSound(schedule[s], tries[s])
  BY DEF AutInv, AutTyped, RowsSound
<1>2. schedule[s].claim = ticker[t].claim /\ ticker[t].claim \in Claims /\ ticker[t].claim.id >= 1
  BY TargetIs DEF MatchingClaim
<1>3. schedule[s].claim # NoClaim
  BY <1>2, NoneTyped
<1>4. schedule[s].state \in Live
  BY <1>1, <1>3 DEF RowSound, Rows, States, Live
<1> QED BY <1>1, <1>2, <1>3, <1>4 DEF RowSound

LEMMA AcknowledgeKeepsAut ==
    ASSUME AutInv, NEW t \in Tickers, Acknowledge(t) PROVE AutInv'
<1> DEFINE s == Target(t)
           row == [schedule[s] EXCEPT !.next = ticker[t].claim.occ + 1, !.claim = NoClaim, !.last = 0]
<1>1. ticker[t].pc = "ack" /\ UNCHANGED <<jobs, tries, observed, clock>>
  BY DEF Acknowledge
<1>2. s \in Schedules /\ HeldSound(ticker[t], s)
  BY <1>1, TargetIs DEF Handling
<1>3. CASE Abandon(t) /\ UNCHANGED schedule
  BY <1>1, <1>3, EndKeepsAut DEF Abandon
<1>4. CASE /\ MatchingClaim(s, ticker[t].claim)
           /\ schedule' = [schedule EXCEPT ![s].next = ticker[t].claim.occ + 1, ![s].claim = NoClaim,
                                           ![s].last = 0]
           /\ Continue(t)
  <2>1. /\ schedule[s] \in Rows /\ schedule[s].state \in Live /\ tries[s] \in [Times -> Nat]
        /\ ticker[t].claim.occ = schedule[s].next
        /\ schedule[s].next \in Times /\ RowSound(schedule[s], tries[s])
    BY <1>1, <1>2, <1>4, InFlight DEF Handling
  <2>2. schedule[s].next + 1 \in Int
    <3>1. \A n \in Times : n + 1 \in Int
      BY Numbers
    <3> HIDE DEF row, s
    <3> QED BY <2>1, <3>1
  <2>3. /\ row \in Rows /\ row.claim = NoClaim /\ row.serial = schedule[s].serial
        /\ row.state = schedule[s].state /\ row.next = schedule[s].next + 1 /\ row.last = 0
    BY <2>1, <2>2, NoneTyped DEF Rows
  <2>4. schedule' = [schedule EXCEPT ![s] = row]
    <3> HIDE DEF s
    <3> QED BY <1>4, <1>2 DEF AutInv, AutTyped
  <2>5. Done(s, schedule[s].next)
    BY <1>1, <1>2, <2>1 DEF HeldSound
  <2> HIDE DEF row, s
  <2>6. RowSound(row, tries[s])
    <3>1. row.next \in 0..(MaxTime + 1)
      BY <2>1, <2>3, Numbers DEF Times
    <3>2. \A o \in Times : o > schedule[s].next => tries[s][o] = 0
      BY <2>1 DEF RowSound
    <3>3. row.next \in Times => tries[s][row.next] = 0
      BY <3>2, <2>1, <2>3, Numbers
    <3>4. ASSUME NEW o \in Times, o > row.next PROVE tries[s][o] = 0
      <4>1. o \in Int /\ schedule[s].next \in Int
        BY <2>1, Numbers
      <4>2. o > schedule[s].next
        BY <4>1, <3>4, <2>3
      <4> QED BY <4>2, <3>2
    <3>5. \A o \in Times : tries[s][o] <= MaxAttempts
      BY <2>1 DEF RowSound
    <3> QED BY <3>1, <3>3, <3>4, <3>5, <2>1, <2>3 DEF RowSound, Live
  <2>7. row.state # "absent"
    BY <2>1, <2>3 DEF Live
  <2>8. s = Target(t) /\ ticker[t].pc \in Handling
    BY <1>1 DEF s, Handling
  <2> QED BY <1>1, <1>2, <1>4, <2>3, <2>4, <2>5, <2>6, <2>7, <2>8, ReleaseKeepsAut
<1> QED BY <1>3, <1>4 DEF Acknowledge

LEMMA FailKeepsAut ==
    ASSUME AutInv, NEW t \in Tickers, FailTrigger(t) PROVE AutInv'
<1> DEFINE s == Target(t)
           attempt == ticker[t].claim.attempt
           exhausted == attempt >= MaxAttempts
           row == [schedule[s] EXCEPT !.state = IF exhausted THEN "failed" ELSE @,
                                      !.next = IF exhausted THEN NoTime ELSE @,
                                      !.claim = NoClaim, !.last = attempt]
<1>1. ticker[t].pc = "fail" /\ UNCHANGED <<jobs, tries, observed, clock>>
  BY DEF FailTrigger
<1>2. s \in Schedules
  BY <1>1, TargetIs DEF Handling
<1>3. CASE Abandon(t) /\ UNCHANGED schedule
  BY <1>1, <1>3, EndKeepsAut DEF Abandon
<1>4. CASE /\ MatchingClaim(s, ticker[t].claim)
           /\ schedule' = [schedule EXCEPT ![s].state = IF exhausted THEN "failed" ELSE @,
                                           ![s].next = IF exhausted THEN NoTime ELSE @,
                                           ![s].claim = NoClaim,
                                           ![s].last = attempt]
           /\ Continue(t)
  <2>1. /\ schedule[s] \in Rows /\ schedule[s].state \in Live /\ tries[s] \in [Times -> Nat]
        /\ ticker[t].claim \in Claims /\ schedule[s].next \in Times
        /\ tries[s][schedule[s].next] = attempt /\ RowSound(schedule[s], tries[s])
    BY <1>1, <1>2, <1>4, InFlight DEF Handling
  <2>2. attempt \in Nat /\ attempt <= MaxAttempts
    BY <2>1 DEF Claims, RowSound
  <2>4. schedule' = [schedule EXCEPT ![s] = row]
    <3> HIDE DEF s, attempt, exhausted
    <3> QED BY <1>4, <1>2 DEF AutInv, AutTyped
  <2>5. s = Target(t) /\ ticker[t].pc \in Handling
    BY <1>1 DEF Handling
  <2> HIDE DEF s, attempt
  <2>3. /\ row \in Rows /\ row.claim = NoClaim /\ row.serial = schedule[s].serial
        /\ row.state = (IF exhausted THEN "failed" ELSE schedule[s].state)
        /\ row.next = (IF exhausted THEN NoTime ELSE schedule[s].next) /\ row.last = attempt
    <3>1. schedule[s].state \in States /\ schedule[s].next \in Int /\ "failed" \in States /\ NoTime \in Int
      BY <2>1, Numbers DEF Rows, States
    <3>2. CASE exhausted
      <4>1. row = [schedule[s] EXCEPT !.state = "failed", !.next = NoTime, !.claim = NoClaim, !.last = attempt]
        BY <3>2
      <4>2. row \in Rows
        BY <4>1, <3>1, <2>1, <2>2, NoneTyped DEF Rows
      <4> HIDE DEF row
      <4> QED BY <4>1, <4>2, <3>2, <2>1 DEF Rows
    <3>3. CASE ~exhausted
      <4>1. row = [schedule[s] EXCEPT !.state = schedule[s].state, !.next = schedule[s].next,
                                      !.claim = NoClaim, !.last = attempt]
        BY <3>3
      <4>2. row \in Rows
        BY <4>1, <3>1, <2>1, <2>2, NoneTyped DEF Rows
      <4> HIDE DEF row
      <4> QED BY <4>1, <4>2, <3>3, <2>1 DEF Rows
    <3> QED BY <3>2, <3>3
  <2> HIDE DEF row
  <2>6. row.state # "absent" /\ (row.state \in Live => row.next = schedule[s].next)
    BY <2>1, <2>3 DEF Live
  <2>7. RowSound(row, tries[s])
    <3>1. \A o \in Times : o > schedule[s].next => tries[s][o] = 0
      BY <2>1 DEF RowSound
    <3>2. \A o \in Times : tries[s][o] <= MaxAttempts
      BY <2>1 DEF RowSound
    <3>3. CASE exhausted
      <4>1. attempt = MaxAttempts
        BY <3>3, <2>2, Numbers
      <4>2. row.state = "failed"
        BY <3>3, <2>3
      <4>3. \E o \in Times : tries[s][o] = MaxAttempts /\ \A p \in Times : p > o => tries[s][p] = 0
        BY <4>1, <3>1, <2>1
      <4> QED BY <4>2, <4>3, <3>2, <2>3 DEF RowSound, Live
    <3>4. CASE ~exhausted
      <4>1. row.state = schedule[s].state /\ row.next = schedule[s].next
        BY <3>4, <2>3
      <4>2. schedule[s].next \in 0..(MaxTime + 1)
        BY <2>1 DEF RowSound
      <4> HIDE DEF exhausted
      <4> QED BY <4>1, <4>2, <3>1, <3>2, <2>1, <2>3 DEF RowSound, Live
    <3> QED BY <3>3, <3>4
  <2> QED BY <1>1, <1>2, <1>4, <2>3, <2>4, <2>5, <2>6, <2>7, ReleaseKeepsAut
<1> QED BY <1>3, <1>4 DEF FailTrigger
-----------------------------------------------------------------------------
(* The owner, the process and the clock.                                   *)

\* A row nobody holds a trigger of, or whose state alone changes.
LEMMA OwnerKeepsAut ==
    ASSUME AutInv, NEW s \in Schedules, NEW row \in Rows, RowSound(row, tries[s]),
           row.state \in Live, schedule' = [schedule EXCEPT ![s] = row],
           \/ schedule[s].state = "absent"
           \/ /\ schedule[s].state \in Live /\ row.next = schedule[s].next
              /\ row.claim = schedule[s].claim /\ row.serial = schedule[s].serial,
           UNCHANGED <<jobs, tries, ticker, observed, clock>>
    PROVE  AutInv'
<1>0. schedule \in [Schedules -> Rows] /\ jobs \subseteq Accepted
  BY DEF AutInv, AutTyped
<1>1. schedule'[s] = row /\ \A x \in Schedules \ {s} : schedule'[x] = schedule[x]
  BY <1>0
<1>2. AutTyped' /\ TicksSound' /\ HeldApart'
  BY <1>0 DEF AutInv, AutTyped, TicksSound, HeldApart
<1>3. RowsSound'
  <2> SUFFICES ASSUME NEW x \in Schedules PROVE RowSound(schedule'[x], tries[x])
      BY DEF RowsSound
  <2>1. CASE x = s
    BY <2>1, <1>1
  <2>2. CASE x # s
    BY <2>2, <1>1 DEF AutInv, RowsSound
  <2> QED BY <2>1, <2>2
<1>4. ASSUME NEW x \in Schedules, NEW o, schedule[x].state # "absent", SubmittedFrom(x, o)
      PROVE  SubmittedFrom(x, o)'
  BY <1>1, <1>4 DEF SubmittedFrom, Done
<1>5. HeldOnes'
  <2> SUFFICES ASSUME NEW u \in Tickers, NEW x \in Schedules, ticker[u].sched = {x}
               PROVE  HeldSound(ticker[u], x)'
      BY DEF HeldOnes
  <2>1. HeldSound(ticker[u], x)
    BY DEF AutInv, HeldOnes
  <2>2. SubmittedFrom(x, ticker[u].claim.occ)'
    BY <2>1, <1>4 DEF HeldSound
  <2>3. /\ schedule'[x].state # "absent" /\ schedule'[x].serial = schedule[x].serial
        /\ schedule'[x].claim = schedule[x].claim
    BY <2>1, <1>1 DEF HeldSound, Live
  <2> QED BY <2>1, <2>2, <2>3 DEF HeldSound, Done
<1>6. JobsSound'
  <2> SUFFICES ASSUME NEW j \in jobs PROVE JobSound(j)'
      BY DEF AutInv, JobsSound, OneJobPerOccurrence
  <2>1. JobSound(j) /\ j.sched \in Schedules
    BY <1>0 DEF AutInv, JobsSound, Accepted
  <2>2. SubmittedFrom(j.sched, j.occ)' /\ schedule'[j.sched].state # "absent"
    BY <2>1, <1>1, <1>4 DEF JobSound, Live
  <2> QED BY <2>1, <2>2 DEF JobSound
<1> QED BY <1>2, <1>3, <1>5, <1>6 DEF AutInv

LEMMA CreateKeepsAut ==
    ASSUME AutInv, NEW s \in Schedules, NEW first \in Times, CreateSchedule(s, first) PROVE AutInv'
<1> DEFINE row == [NoRow EXCEPT !.state = "active", !.next = first]
<1>1. first \in Int /\ first \in 0..(MaxTime + 1)
  BY Numbers DEF Times
<1>2. /\ row \in Rows /\ row.state = "active" /\ row.next = first /\ row.claim = NoClaim /\ row.last = 0
  BY <1>1, NoneTyped DEF NoRow, Rows, States
<1> HIDE DEF row
<1>3. schedule[s].state = "absent" /\ RowSound(schedule[s], tries[s])
  BY DEF CreateSchedule, AutInv, RowsSound
<1>4. RowSound(row, tries[s])
  BY <1>1, <1>2, <1>3, Numbers DEF RowSound, Live
<1>5. row.state \in Live /\ schedule' = [schedule EXCEPT ![s] = row]
      /\ UNCHANGED <<jobs, tries, ticker, observed, clock>>
  BY <1>2 DEF Live, CreateSchedule, row
<1> QED BY <1>2, <1>3, <1>4, <1>5, OwnerKeepsAut

LEMMA SetStateKeepsAut ==
    ASSUME AutInv, NEW s \in Schedules, NEW target \in Live, SetScheduleState(s, target) PROVE AutInv'
<1> DEFINE row == [schedule[s] EXCEPT !.state = target]
<1>1. schedule[s] \in Rows /\ RowSound(schedule[s], tries[s]) /\ schedule \in [Schedules -> Rows]
  BY DEF AutInv, RowsSound, AutTyped
<1>2. /\ row \in Rows /\ row.state = target /\ row.next = schedule[s].next
      /\ row.claim = schedule[s].claim /\ row.last = schedule[s].last /\ row.serial = schedule[s].serial
  BY <1>1 DEF Rows, States, Live
<1>3. schedule' = [schedule EXCEPT ![s] = row]
  BY <1>1 DEF SetScheduleState
<1> HIDE DEF row
<1>4. schedule[s].state \in Live /\ UNCHANGED <<jobs, tries, ticker, observed, clock>>
  BY DEF SetScheduleState, Live
<1>5. RowSound(row, tries[s])
  BY <1>1, <1>2, <1>4 DEF RowSound, Live
<1> QED BY <1>2, <1>3, <1>4, <1>5, OwnerKeepsAut

LEMMA EnvironmentKeepsAut ==
    ASSUME AutInv, Crash \/ Advance \/ SetClockBack PROVE AutInv'
<1>1. CASE Crash
  <2>1. /\ \A t \in Tickers : ticker'[t] = NoTick
        /\ ticker' \in [Tickers -> Ticks] /\ UNCHANGED <<schedule, jobs, tries, clock>> /\ observed' = NoTime
    BY <1>1, NoneTyped DEF Crash
  <2>2. NoTick.sched = {} /\ TickSound(NoTick, NoTime)
    BY DEF TickSound, NoTick, Resting, Handling
  <2>3. observed' \in Int /\ observed' <= MaxTime
    BY <2>1, Numbers
  <2>4. AutTyped'
    BY <2>1, <2>3 DEF AutInv, AutTyped
  <2>5. TicksSound' /\ HeldOnes' /\ HeldApart'
    BY <2>1, <2>2 DEF TicksSound, HeldOnes, HeldApart
  <2>6. RowsSound' /\ JobsSound'
    BY <2>1 DEF AutInv, RowsSound, JobsSound, JobSound, SubmittedFrom, Done, OneJobPerOccurrence
  <2> QED BY <2>4, <2>5, <2>6 DEF AutInv
<1>2. CASE Advance \/ SetClockBack
  <2>1. UNCHANGED <<schedule, jobs, tries, ticker, observed>>
    BY <1>2 DEF Advance, SetClockBack
  <2>2. clock' \in Times
    BY <1>2, Numbers DEF Advance, SetClockBack, AutInv, AutTyped, Times
  <2>3. AutTyped'
    BY <2>1, <2>2 DEF AutInv, AutTyped
  <2> QED BY <2>1, <2>3 DEF AutInv, RowsSound, TicksSound, HeldOnes, HeldSound, HeldApart, JobsSound,
                            JobSound, SubmittedFrom, Done, OneJobPerOccurrence
<1> QED BY <1>1, <1>2

LEMMA NextKeepsAut == ASSUME AutInv, [AutNext]_autVars PROVE AutInv'
<1>1. CASE \E s \in Schedules, first \in Times : CreateSchedule(s, first)
  BY <1>1, CreateKeepsAut
<1>2. CASE \E s \in Schedules, target \in {"active", "paused"} : SetScheduleState(s, target)
  BY <1>2, SetStateKeepsAut DEF Live
<1>3. ASSUME NEW t \in Tickers, TickStep(t) PROVE AutInv'
  <2>1. CASE EndTick(t)
    BY <2>1, EndKeepsAut DEF EndTick
  <2> QED BY <1>3, <2>1, StartKeepsAut, ClaimKeepsAut, SubmitKeepsAut, AcknowledgeKeepsAut, FailKeepsAut
          DEF TickStep
<1>4. CASE Crash \/ Advance \/ SetClockBack
  BY <1>4, EnvironmentKeepsAut
<1>5. CASE UNCHANGED autVars
  BY <1>5 DEF autVars, AutInv, AutTyped, RowsSound, TicksSound, HeldOnes, HeldSound, HeldApart, JobsSound,
              JobSound, SubmittedFrom, Done, OneJobPerOccurrence
<1> QED BY <1>1, <1>2, <1>3, <1>4, <1>5 DEF AutNext

LEMMA AutInductive == AutSpec => []AutInv
<1>1. AutInv /\ [AutNext]_autVars => AutInv'
  BY NextKeepsAut
<1> QED BY <1>1, AutInitSound, PTL DEF AutSpec
-----------------------------------------------------------------------------
(* The theorems.                                                           *)

\* However many ticks claim an occurrence, and whatever becomes of them, the Job
\* queue accepts one Job for it (submit under occurrence_idempotency_key).
THEOREM AtMostOneJob == AutSpec => []OneJobPerOccurrence
<1>1. AutInv => OneJobPerOccurrence
  BY DEF AutInv, JobsSound
<1> QED BY <1>1, AutInductive, PTL

\* Every occurrence between the first accepted Job and the next run was
\* submitted, and nothing later: a late acknowledgement of a superseded claim,
\* a crash or a clock set back neither skips nor anticipates one.
THEOREM NothingSkipped == AutSpec => []NoOccurrenceSkipped
<1>1. ASSUME AutInv PROVE NoOccurrenceSkipped
  <2> SUFFICES ASSUME NEW s \in Schedules, schedule[s].state \in {"active", "paused"},
                      NEW o \in {j.occ : j \in {i \in jobs : i.sched = s}}
               PROVE  /\ o <= schedule[s].next
                      /\ \A p \in o..(schedule[s].next - 1) : p \in {j.occ : j \in {i \in jobs : i.sched = s}}
      BY DEF NoOccurrenceSkipped
  <2>1. PICK j \in jobs : j.sched = s /\ j.occ = o
    OBVIOUS
  <2>2. o \in Times /\ SubmittedFrom(s, o) /\ schedule[s] \in Rows /\ RowSound(schedule[s], tries[s])
    BY <1>1, <2>1 DEF AutInv, AutTyped, JobsSound, JobSound, Accepted, RowsSound
  <2>3. o <= schedule[s].next /\ \A p \in Times : o <= p /\ p < schedule[s].next => Done(s, p)
    BY <2>2 DEF SubmittedFrom, Live
  <2>4. schedule[s].next \in 0..(MaxTime + 1)
    BY <2>2 DEF RowSound, Live
  <2>5. ASSUME NEW p \in o..(schedule[s].next - 1) PROVE p \in {x.occ : x \in {i \in jobs : i.sched = s}}
    <3>1. p \in Times /\ o <= p /\ p < schedule[s].next
      BY <2>2, <2>4, Numbers DEF Times
    <3>2. PICK i \in jobs : i.sched = s /\ i.occ = p
      BY <3>1, <2>3 DEF Done
    <3> QED BY <3>2
  <2> QED BY <2>3, <2>5
<1> QED BY <1>1, AutInductive, PTL

\* fail_automation_trigger ends a schedule only when all the attempts allowed
\* were made at one occurrence, and none at a later one.
THEOREM GivesUpExhausted == AutSpec => []FailsOnlyExhausted
<1>1. AutInv => FailsOnlyExhausted
  BY DEF AutInv, RowsSound, RowSound, FailsOnlyExhausted
<1> QED BY <1>1, AutInductive, PTL

\* claim_due_automation_schedule counts a claim whose holder died as an attempt:
\* no occurrence is ever claimed more than max_submission_attempts times.
THEOREM RetriesAreBounded == AutSpec => []RetriesBounded
<1>1. AutInv => RetriesBounded
  BY DEF AutInv, RowsSound, RowSound, RetriesBounded
<1> QED BY <1>1, AutInductive, PTL

\* Two ticks hold triggers of one schedule only when the lease of one of them
\* had run out by the last instant either observed.
THEOREM LeasesExclude == AutSpec => []LeaseExclusive
<1>1. ASSUME AutInv PROVE LeaseExclusive
  <2> SUFFICES ASSUME NEW t \in Tickers, NEW u \in Tickers, t # u, ticker[t].claim # NoClaim,
                      ticker[u].claim # NoClaim, ticker[t].sched = ticker[u].sched
               PROVE  ticker[t].claim.expires <= observed \/ ticker[u].claim.expires <= observed
      BY DEF LeaseExclusive
  <2>1. ticker[t].pc \in Handling
    BY <1>1 DEF AutInv, AutTyped, Ticks, TicksSound, TickSound
  <2>2. PICK s \in Schedules : ticker[t].sched = {s}
    BY <1>1, <2>1 DEF AutInv, TicksSound, TickSound
  <2>3. /\ HeldSound(ticker[t], s) /\ HeldSound(ticker[u], s)
        /\ ticker[t].claim.id # ticker[u].claim.id
    BY <1>1, <2>2 DEF AutInv, HeldOnes, HeldApart
  <2> QED BY <2>3 DEF HeldSound
<1> QED BY <1>1, AutInductive, PTL

\* No step moves a schedule back or revives one that failed: the answer to a
\* superseded claim finds no matching claim and changes nothing.
THEOREM SchedulesMoveForward == AutSpec => ScheduleForward
<1> DEFINE Forward == \A s \in Schedules :
             /\ schedule[s].state = "failed" => schedule'[s] = schedule[s]
             /\ schedule'[s].next # NoTime => schedule'[s].next >= schedule[s].next
<1>1. ASSUME AutInv, [AutNext]_autVars PROVE [Forward]_autVars
  <2>1. schedule \in [Schedules -> Rows] /\ \A s \in Schedules : schedule[s].next \in Int
    BY <1>1 DEF AutInv, AutTyped, Rows
  <2>2. ASSUME NEW s \in Schedules, NEW row, schedule' = [schedule EXCEPT ![s] = row],
               schedule[s].state # "failed",
               row.next # NoTime => row.next >= schedule[s].next
        PROVE  Forward
    <3>1. schedule'[s] = row /\ \A x \in Schedules \ {s} : schedule'[x] = schedule[x]
      BY <2>1, <2>2
    <3>2. \A x \in Schedules : schedule[x].next >= schedule[x].next
      BY <2>1
    <3> QED BY <3>1, <3>2, <2>2
  <2>3. ASSUME NEW s \in Schedules, NEW first \in Times, CreateSchedule(s, first) PROVE Forward
    <3> DEFINE row == [NoRow EXCEPT !.state = "active", !.next = first]
    <3>1. schedule[s].state = "absent" /\ schedule' = [schedule EXCEPT ![s] = row]
      BY <2>3 DEF CreateSchedule
    <3>2. schedule[s].next = NoTime
      BY <3>1, <1>1 DEF AutInv, RowsSound, RowSound
    <3>3. row.next = first
      BY DEF NoRow
    <3>4. first >= NoTime
      BY Numbers DEF Times, NoTime
    <3> HIDE DEF row
    <3> QED BY <3>1, <3>2, <3>3, <3>4, <2>2
  <2>4. ASSUME NEW s \in Schedules, NEW target, SetScheduleState(s, target) PROVE Forward
    <3> DEFINE row == [schedule[s] EXCEPT !.state = target]
    <3>1. schedule[s].state # "failed" /\ schedule' = [schedule EXCEPT ![s] = row]
      BY <2>1, <2>4 DEF SetScheduleState
    <3>2. row.next = schedule[s].next /\ row.next >= schedule[s].next
      BY <2>1 DEF Rows
    <3> HIDE DEF row
    <3> QED BY <3>1, <3>2, <2>2
  <2>5. ASSUME NEW t \in Tickers, Claim(t), schedule' # schedule PROVE Forward
    <3> DEFINE s == Head(ticker[t].due)
               claim == [id |-> schedule[s].serial + 1, occ |-> schedule[s].next,
                         attempt |-> NextAttempt(s), expires |-> ticker[t].now + Lease]
               row == [schedule[s] EXCEPT !.claim = claim, !.serial = @ + 1]
    <3>1. s \in Schedules
      BY <1>1, <2>5 DEF AutInv, AutTyped, Ticks, Claim
    <3>2. /\ schedule' = [schedule EXCEPT ![s].claim = claim, ![s].serial = @ + 1]
          /\ schedule[s].state = "active"
      BY <2>5 DEF Claim, Claimable, Due
    <3> HIDE DEF s, claim
    <3>3. schedule' = [schedule EXCEPT ![s] = row]
      BY <3>1, <3>2, <2>1
    <3>4. row.next = schedule[s].next /\ row.next >= schedule[s].next
      BY <3>1, <2>1 DEF Rows
    <3> HIDE DEF row
    <3> QED BY <3>1, <3>2, <3>3, <3>4, <2>2
  <2>6. ASSUME NEW t \in Tickers, Acknowledge(t), schedule' # schedule PROVE Forward
    <3> DEFINE s == Target(t)
               row == [schedule[s] EXCEPT !.next = ticker[t].claim.occ + 1, !.claim = NoClaim, !.last = 0]
    <3>1. /\ ticker[t].pc \in Handling /\ MatchingClaim(s, ticker[t].claim)
          /\ schedule' = [schedule EXCEPT ![s].next = ticker[t].claim.occ + 1, ![s].claim = NoClaim,
                                          ![s].last = 0]
      BY <2>6 DEF Acknowledge, Handling
    <3>2. s \in Schedules
      BY <3>1, <1>1, TargetIs
    <3>3. schedule[s].state \in Live /\ ticker[t].claim.occ = schedule[s].next /\ schedule[s] \in Rows
      BY <3>1, <3>2, <1>1, InFlight
    <3> HIDE DEF s
    <3>4. schedule' = [schedule EXCEPT ![s] = row]
      BY <3>1, <3>2, <2>1
    <3>5. row.next = schedule[s].next + 1
      BY <3>3 DEF Rows
    <3> HIDE DEF row
    <3>6. row.next >= schedule[s].next /\ schedule[s].state # "failed"
      BY <3>2, <3>3, <3>5, <2>1 DEF Live
    <3> QED BY <3>2, <3>4, <3>6, <2>2
  <2>7. ASSUME NEW t \in Tickers, FailTrigger(t), schedule' # schedule PROVE Forward
    <3> DEFINE s == Target(t)
               exhausted == ticker[t].claim.attempt >= MaxAttempts
               row == [schedule[s] EXCEPT !.state = IF exhausted THEN "failed" ELSE @,
                                          !.next = IF exhausted THEN NoTime ELSE @,
                                          !.claim = NoClaim, !.last = ticker[t].claim.attempt]
    <3>1. /\ ticker[t].pc \in Handling /\ MatchingClaim(s, ticker[t].claim)
          /\ schedule' = [schedule EXCEPT ![s].state = IF exhausted THEN "failed" ELSE @,
                                          ![s].next = IF exhausted THEN NoTime ELSE @,
                                          ![s].claim = NoClaim, ![s].last = ticker[t].claim.attempt]
      BY <2>7 DEF FailTrigger, Handling
    <3>2. s \in Schedules
      BY <3>1, <1>1, TargetIs
    <3>3. schedule[s].state \in Live /\ schedule[s] \in Rows
      BY <3>1, <3>2, <1>1, InFlight
    <3> HIDE DEF s, exhausted
    <3>4. schedule' = [schedule EXCEPT ![s] = row]
      BY <3>1, <3>2, <2>1
    <3>5. row.next = IF exhausted THEN NoTime ELSE schedule[s].next
      BY <3>3 DEF Rows
    <3> HIDE DEF row
    <3>6. (row.next # NoTime => row.next >= schedule[s].next) /\ schedule[s].state # "failed"
      BY <3>2, <3>3, <3>5, <2>1 DEF Live
    <3> QED BY <3>2, <3>4, <3>6, <2>2
  <2>8. CASE UNCHANGED schedule
    BY <2>1, <2>8
  <2>9. ASSUME NEW t \in Tickers, TickStep(t), schedule' # schedule PROVE Forward
    BY <2>5, <2>6, <2>7, <2>9 DEF TickStep, StartTick, EndTick, SubmitTrigger
  <2>10. Crash \/ Advance \/ SetClockBack \/ UNCHANGED autVars => UNCHANGED schedule
    BY DEF Crash, Advance, SetClockBack, autVars
  <2> HIDE DEF Forward
  <2> QED BY <1>1, <2>3, <2>4, <2>8, <2>9, <2>10 DEF AutNext
<1>2. AutSpec => [][Forward]_autVars
  BY <1>1, AutInductive, PTL DEF AutSpec
<1> QED BY <1>2 DEF ScheduleForward
=============================================================================
