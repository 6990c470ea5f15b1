---------------------------- MODULE GraphRevisions ----------------------------
(***************************************************************************)
(* The revisions of one NodeGraph and the editors that save it             *)
(* (stillflow-storage/src/graph_revisions.rs, and the handlers of          *)
(* stillflow-api/src/service.rs).  A write is a deferred transaction: it   *)
(* reads the newest revision and writes later, and SQLite (WAL) refuses    *)
(* the write when another transaction has committed since the read.        *)
(***************************************************************************)
EXTENDS Integers, Sequences

CONSTANTS
    Editors, Contents,  \* editors; graph contents (a digest is its content)
    Formats,            \* format versions, 1 the oldest
    MaxRevisions        \* bound: commits

ASSUME GraphRevisionsAssumption == 1 \in Formats /\ Formats \subseteq Nat /\ MaxRevisions \in Nat

VARIABLES
    grRevisions,  \* cp_graph_revisions: [content, format, parent, link]; the index is the number
    grBase,       \* per editor: the number of the revision it last read
    grTx,         \* per editor: {} or its open transaction as a singleton
    grCommits,    \* commits to the database so far
    grBasis       \* history: per revision, the number its writer named (-1: none)

grVars == <<grRevisions, grBase, grTx, grCommits, grBasis>>

GrInit ==
    /\ grRevisions = <<>> /\ grBasis = <<>> /\ grCommits = 0
    /\ grBase = [e \in Editors |-> 0]
    /\ grTx = [e \in Editors |-> {}]

Current == Len(grRevisions)

\* get, get_graph_revision: the editor now works on the newest revision.
ReadRevision(e) ==
    /\ grTx[e] = {} /\ grBase[e] # Current
    /\ grBase' = [grBase EXCEPT ![e] = Current]
    /\ UNCHANGED <<grRevisions, grTx, grCommits, grBasis>>

\* The newest revision is the one expected, by number and, when it is named, by
\* digest.  An expectation on a graph with no revision is refused.  The mutant
\* refuses only an expectation ahead of the newest.
ExpectedBehind(number, digest) == number <= Current
ExpectedMatches(number, digest) ==
    /\ Current > 0 /\ number = Current
    /\ \A d \in digest : d = grRevisions[Current].content

SameContent(content, format) ==
    Current > 0 /\ grRevisions[Current].content = content /\ grRevisions[Current].format = format

\* save: unchanged content answers the newest revision, whatever was expected;
\* otherwise the expectation, if one is given, must match.
OpenSave(e, content, expects, digest) ==
    /\ grTx[e] = {}
    /\ ~SameContent(content, 1)
    /\ expects => ExpectedMatches(grBase[e], digest)
    /\ grTx' = [grTx EXCEPT ![e] =
         {[op |-> "save", at |-> grCommits, parent |-> Current, content |-> content, format |-> 1,
           basis |-> IF expects THEN grBase[e] ELSE -1]}]
    /\ UNCHANGED <<grRevisions, grBase, grCommits, grBasis>>

\* append_migrated, in a transaction of its own, refuses unless the revision that
\* was read is the newest.
MigrationAccepted(number) == Current > 0 /\ number = Current

\* migrate_graph_revision reads a revision; a downgrade is refused, and a
\* revision of the format asked for is left as it is.
OpenMigration(e, format) ==
    /\ grTx[e] = {} /\ MigrationAccepted(grBase[e])
    /\ grRevisions[Current].format < format
    /\ grTx' = [grTx EXCEPT ![e] =
         {[op |-> "save", at |-> grCommits, parent |-> Current,
           content |-> grRevisions[Current].content, format |-> format, basis |-> grBase[e]]}]
    /\ UNCHANGED <<grRevisions, grBase, grCommits, grBasis>>

\* link_plan_version writes the newest revision's row.
OpenLink(e) ==
    /\ grTx[e] = {} /\ Current > 0
    /\ grTx' = [grTx EXCEPT ![e] = {[op |-> "link", at |-> grCommits, parent |-> Current]}]
    /\ UNCHANGED <<grRevisions, grBase, grCommits, grBasis>>

\* The write and the commit, or SQLITE_BUSY_SNAPSHOT.  The mutant writes on the
\* database as it is by then.
SnapshotIgnored(tx) == TRUE
SnapshotIsCurrent(tx) == tx.at = grCommits
WriteRevision(e) ==
    /\ \E tx \in grTx[e] :
         IF ~SnapshotIsCurrent(tx) THEN UNCHANGED <<grRevisions, grBase, grCommits, grBasis>>
         ELSE /\ grCommits < MaxRevisions /\ grCommits' = grCommits + 1
              /\ IF tx.op = "link"
                 THEN /\ grRevisions' = [grRevisions EXCEPT ![tx.parent].link = TRUE]
                      /\ UNCHANGED <<grBase, grBasis>>
                 ELSE /\ grRevisions' = Append(grRevisions,
                           [content |-> tx.content, format |-> tx.format, parent |-> tx.parent, link |-> FALSE])
                      /\ grBasis' = Append(grBasis, tx.basis)
                      /\ grBase' = [grBase EXCEPT ![e] = tx.parent + 1]
    /\ grTx' = [grTx EXCEPT ![e] = {}]

GrNext == \E e \in Editors :
    \/ ReadRevision(e) \/ OpenLink(e) \/ WriteRevision(e)
    \/ \E format \in Formats : OpenMigration(e, format)
    \/ \E content \in Contents, expects \in BOOLEAN, digest \in {{}} \cup {{c} : c \in Contents} :
         OpenSave(e, content, expects, digest)
GrSpec == GrInit /\ [][GrNext]_grVars

-----------------------------------------------------------------------------
\* save, append_migrated: revisions form one chain, each number on its
\* predecessor, and a revision whose writer named the one it worked on follows
\* exactly that one, so that of two editors on the same revision one is told
\* and no update is lost; and a save never repeats the newest revision.
NoLostUpdate ==
    \A n \in 1..Current :
        /\ grRevisions[n].parent = n - 1
        /\ grBasis[n] # -1 => grBasis[n] = n - 1
        /\ n > 1 => <<grRevisions[n].content, grRevisions[n].format>>
                      # <<grRevisions[n-1].content, grRevisions[n-1].format>>
=============================================================================
