------------------------------ MODULE ApiPaging -------------------------------
(***************************************************************************)
(* The paged reads of the embedded API (stillflow-api/src/service.rs):     *)
(* findings of a report, files of an export manifest, profile history,     *)
(* chunks of an exported file and partitions of an artifact section.  A    *)
(* page ends in a cursor that the client sends back, with a page size and  *)
(* a filter of its own choice: a cursor is bound to the scope it was made  *)
(* in and is refused anywhere else.                                        *)
(*                                                                         *)
(* A walk is what one client has been given along a chain of cursors: the  *)
(* position the last cursor carries and, as a history, the items.          *)
(***************************************************************************)
EXTENDS Naturals, Sequences, FiniteSets, SequencesExt

CONSTANTS Documents,     \* reports, manifests, files or sections: [Documents -> Seq of items]
          Tags,          \* what a filter selects on
          PageSizes,     \* limits and bounds a client may ask for
          MaxWalks       \* bound: walks in flight

VARIABLES walks          \* a set of walks
pagVars == <<walks>>

\* The items of a document have a tag (severity, column), rows, the bytes they take in the file
\* and the bytes they take in memory
Item == [tag : Tags, rows : Nat, stored : Nat, bytes : Nat]
ASSUME DocumentsAssumption == PageSizes \subseteq Nat /\ \A d \in DOMAIN Documents : Documents[d] \in Seq(Item)

AnyTag == "any"
Filters == Tags \cup {AnyTag}

Len1(d) == Len(Documents[d])
Indexes(d) == [i \in 1..Len1(d) |-> i]

\* finding_matches, history_matches_columns
Matches(d, i, f) == f = AnyTag \/ Documents[d][i].tag = f

\* filter and collect: the items first .. last that match, in their order
MatchingIn(d, f, first, last) ==
  LET kept[n \in Nat] == IF n < first THEN <<>>
                         ELSE IF Matches(d, n, f) THEN Append(kept[n - 1], n) ELSE kept[n - 1]
  IN kept[last]
Matching(d, f) == MatchingIn(d, f, 1, Len1(d))

\* FindingCursorWire, HistoryCursorWire, ExportFileCursorWire, ExportDownloadHandleWire: the
\* document (with its digest), the filter, the chunk bound where there is one, and the position
NewWalk(op, d, f, size) == [op |-> op, doc |-> d, filter |-> f, size |-> size, pos |-> 0, got |-> <<>>, done |-> FALSE]

PagInit == walks = {}

\* A cursor is valid for the scope and the filter it was made for
CursorAny(w, d, f) == TRUE
CursorMatches(w, d, f) == w.doc = d /\ w.filter = f

Serve(w, pos, items, done) ==
  walks' = (walks \ {w}) \cup {[w EXCEPT !.pos = pos, !.got = @ \o items, !.done = done]}

BeginApiWalk(op, d, f, size) ==
  /\ Cardinality(walks) < MaxWalks
  /\ walks' = walks \cup {NewWalk(op, d, f, size)}

\* The first page fixes what is walked; every later one brings its cursor
Open(w, op, d, f) ==
  /\ w.op = op /\ ~w.done
  /\ IF w.pos = 0 THEN w.doc = d /\ w.filter = f ELSE CursorMatches(w, d, f)

\* list_report_findings: the offset counts the findings that match
ListReportFindings(w, d, f, limit) ==
  LET found == Matching(d, f)
      end == IF w.pos + limit < Len(found) THEN w.pos + limit ELSE Len(found)
  IN /\ Open(w, "findings", d, f)
     /\ w.pos <= Len(found)
     /\ Serve(w, end, SubSeq(found, w.pos + 1, end), end >= Len(found))

\* list_export_files: the same over the files of the manifest, which has no filter
ListExportFiles(w, d, limit) ==
  LET end == IF w.pos + limit < Len1(d) THEN w.pos + limit ELSE Len1(d)
  IN /\ Open(w, "files", d, AnyTag)
     /\ w.pos <= Len1(d)
     /\ Serve(w, end, SubSeq(Indexes(d), w.pos + 1, end), end >= Len1(d))

\* list_profile_history: the store pages over all entries, the filter is applied to the page, and
\* the cursor stays the one of the store: a page may be empty and have a next one
PositionOfPage(w, page) == w.pos + Len(page)
PositionOfMatches(w, page) == w.pos + Len(MatchingIn(w.doc, w.filter, w.pos + 1, w.pos + Len(page)))

ListProfileHistory(w, d, f, limit) ==
  LET end == IF w.pos + limit < Len1(d) THEN w.pos + limit ELSE Len1(d)
      page == SubSeq(Indexes(d), w.pos + 1, end)
  IN /\ Open(w, "history", d, f)
     /\ Serve(w, PositionOfPage(w, page), MatchingIn(d, f, w.pos + 1, end), end >= Len1(d))

\* download_export: the handle also binds the chunk size, so chunks line up
DownloadExport(w, d, max) ==
  LET end == IF w.pos + max < Len1(d) THEN w.pos + max ELSE Len1(d)
  IN /\ Open(w, "download", d, AnyTag)
     /\ w.size = max
     /\ Serve(w, end, SubSeq(Indexes(d), w.pos + 1, end), end >= Len1(d))

\* read_artifact_content: whole partitions while they fit.  A partition is measured by its stored
\* bytes, the page by the bytes of the batches already read; a first partition that does not fit
\* is an error.  The cursor is the bare sequence of the last partition returned.
Sum(d, field(_), from, to) ==
  FoldLeft(LAMBDA sum, i : sum + field(Documents[d][i]), 0, SubSeq(Indexes(d), from, to))

Fits(d, from, i, maxRows, maxBytes) ==
  /\ Documents[d][i].rows <= maxRows /\ Documents[d][i].stored <= maxBytes
  /\ Sum(d, LAMBDA p : p.rows, from, i) <= maxRows
  /\ Sum(d, LAMBDA p : p.bytes, from, i - 1) + Documents[d][i].stored <= maxBytes

LastThatFits(d, from, maxRows, maxBytes) ==
  LET stop == {i \in from..Len1(d) : ~Fits(d, from, i, maxRows, maxBytes)}
  IN IF stop = {} THEN Len1(d) ELSE (CHOOSE i \in stop : \A k \in stop : i <= k) - 1

ReadArtifactContent(w, d, maxRows, maxBytes) ==
  LET end == LastThatFits(d, w.pos + 1, maxRows, maxBytes)
  IN /\ w.op = "content" /\ ~w.done /\ w.doc = d
     /\ end > w.pos
     /\ Serve(w, end, SubSeq(Indexes(d), w.pos + 1, end), end = Len1(d))

PagNext ==
  \/ \E d \in DOMAIN Documents, f \in Filters, size \in PageSizes :
       \/ \E op \in {"findings", "history"} : BeginApiWalk(op, d, f, size)
       \/ \E op \in {"files", "download", "content"} : BeginApiWalk(op, d, AnyTag, size)
  \/ \E w \in walks, d \in DOMAIN Documents, f \in Filters, limit \in PageSizes :
       \/ ListReportFindings(w, d, f, limit)
       \/ ListExportFiles(w, d, limit)
       \/ ListProfileHistory(w, d, f, limit)
       \/ DownloadExport(w, d, limit)
       \/ \E bytes \in PageSizes : ReadArtifactContent(w, d, limit, bytes)

PagSpec == PagInit /\ [][PagNext]_pagVars

(***************************************************************************)
(* Properties                                                              *)
(***************************************************************************)
Wanted(w) == IF w.op \in {"findings", "history"} THEN Matching(w.doc, w.filter) ELSE Indexes(w.doc)

\* A client that follows cursors is given a prefix of what it asked for at the first page, in
\* order and without a repetition, whatever page sizes it mixes; the page without a cursor
\* completes it.
WalksWhole ==
  \A w \in walks : IsPrefix(w.got, Wanted(w)) /\ (w.done => w.got = Wanted(w))
=============================================================================
