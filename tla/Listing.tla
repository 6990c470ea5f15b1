------------------------------- MODULE Listing -------------------------------
(***************************************************************************)
(* Walking a list page by page while it changes.  list_jobs, list_runs and *)
(* list_artifact_refs (stillflow-storage/src/control_plane.rs),            *)
(* list_profile_history (profile_history.rs), and the lists of automation  *)
(* schedules and executions (automation_api.rs, with the cursors of        *)
(* stillflow-api/src/automation.rs) order rows by a pair and resume beyond *)
(* the last pair returned.  The time of a row is the caller's, so ties     *)
(* happen and a new row may sort anywhere; of the profile history the      *)
(* sequence is the time.  The other lists (Sessions, connections, assets,  *)
(* datasets, plans, versions) are one bounded SELECT without a cursor.     *)
(***************************************************************************)
EXTENDS Integers, FiniteSets

CONSTANTS
    ListTimes, ListIds,  \* times and identities: integers, ordered alike
    MaxListRows,         \* bound: rows
    PageLimit            \* page limit of the walk

ASSUME ListingAssumption ==
    /\ ListTimes \subseteq Nat /\ ListIds \subseteq Nat
    /\ PageLimit \in Nat \ {0} /\ MaxListRows \in Nat

VARIABLES
    lsRows,   \* rows: [time, id]
    lsGone,   \* rows that left the list: deleted, or no longer of the state asked for
    lsList,   \* the list that is walked
    lsAfter,  \* the cursor: no row, or one
    lsAll,    \* history: the rows that were there when the walk began
    lsGiven,  \* history: how often each row was returned
    lsWalk    \* "idle" | "walking" | "done"

lsVars == <<lsRows, lsGone, lsList, lsAfter, lsAll, lsGiven, lsWalk>>

Lists == {"jobs", "runs", "refs", "schedules", "executions", "history"}
Descending == {"executions", "history"}     \* newest first
Unprobed == {"schedules", "executions"}     \* LIMIT limit: a full page has a next one

AllRows == [time : ListTimes, id : ListIds]

LsInit ==
    /\ lsRows = {} /\ lsGone = {} /\ lsAfter = {} /\ lsAll = {} /\ lsList \in Lists
    /\ lsGiven = [r \in AllRows |-> 0] /\ lsWalk = "idle"

InsertRow(r) ==
    /\ Cardinality(lsRows) < MaxListRows
    /\ r.id \notin {x.id : x \in lsRows}
    /\ lsRows' = lsRows \cup {r}
    /\ UNCHANGED <<lsGone, lsList, lsAfter, lsAll, lsGiven, lsWalk>>

\* tombstone_profile_history under a filter on the state; a deletion.
LeaveList(r) ==
    /\ r \notin lsGone /\ lsGone' = lsGone \cup {r}
    /\ UNCHANGED <<lsRows, lsList, lsAfter, lsAll, lsGiven, lsWalk>>

BeginWalk ==
    /\ lsWalk = "idle" /\ lsWalk' = "walking" /\ lsAll' = lsRows \ lsGone
    /\ UNCHANGED <<lsRows, lsGone, lsList, lsAfter, lsGiven>>

\* time > ?2 OR (time = ?2 AND id > ?3), or < of a descending list.  The mutant
\* compares the time only.
AfterTime(r, c) == IF lsList \in Descending THEN r.time < c.time ELSE r.time > c.time
AfterPair(r, c) ==
    IF lsList \in Descending THEN r.time < c.time \/ (r.time = c.time /\ r.id < c.id)
    ELSE r.time > c.time \/ (r.time = c.time /\ r.id > c.id)

\* ORDER BY
Precedes(x, y) ==
    IF lsList \in Descending THEN x.time > y.time \/ (x.time = y.time /\ x.id > y.id)
    ELSE x.time < y.time \/ (x.time = y.time /\ x.id < y.id)

\* WHERE, then LIMIT: the rows a page is taken from, and the first PageLimit of them.
Found == {r \in lsRows \ lsGone : \A c \in lsAfter : AfterPair(r, c)}
Before(r) == {x \in Found : Precedes(x, r)}
Page == {r \in Found : Cardinality(Before(r)) < PageLimit}

\* The list asks for one row more than the page holds and drops it, or takes a
\* full page to have a next one.
HasMore(list) ==
    IF list \in Unprobed THEN Cardinality(Found) >= PageLimit ELSE Cardinality(Found) > PageLimit

\* The last row of a page that has a next one is its cursor.
ListPage(list) ==
    /\ lsWalk = "walking" /\ lsList = list
    /\ lsGiven' = [r \in AllRows |-> IF r \in Page THEN lsGiven[r] + 1 ELSE lsGiven[r]]
    /\ IF HasMore(list)
       THEN /\ lsAfter' = {CHOOSE r \in Page : \A x \in Page : x = r \/ Precedes(x, r)}
            /\ UNCHANGED lsWalk
       ELSE lsWalk' = "done" /\ UNCHANGED lsAfter
    /\ UNCHANGED <<lsRows, lsGone, lsList, lsAll>>

\* Each list is this page over its own table: Jobs by queued_at, Runs by
\* started_at, refs, schedules and executions by created_at.
ListJobs == ListPage("jobs")
ListRuns == ListPage("runs")
ListArtifactRefs == ListPage("refs")
ListAutomations == ListPage("schedules")
ListAutomationHistory == ListPage("executions")
ListProfileEntries == ListPage("history")

LsNext ==
    \/ \E r \in AllRows : InsertRow(r)
    \/ \E r \in lsRows : LeaveList(r)
    \/ BeginWalk
    \/ ListJobs \/ ListRuns \/ ListArtifactRefs
    \/ ListAutomations \/ ListAutomationHistory \/ ListProfileEntries
LsSpec == LsInit /\ [][LsNext]_lsVars

-----------------------------------------------------------------------------
\* list_jobs, list_runs, list_artifact_refs, list_automations,
\* list_automation_history, list_profile_history: a walk returns no row twice,
\* and when it ends it has returned every row that was there from its beginning
\* to its end, ties at a page's end and rows inserted or taken away on either
\* side of the cursor included.
WalkComplete ==
    /\ \A r \in AllRows : lsGiven[r] <= 1
    /\ lsWalk = "done" => \A r \in lsAll \ lsGone : lsGiven[r] = 1
=============================================================================
