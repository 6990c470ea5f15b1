--------------------------- MODULE TabularReading ---------------------------
(***************************************************************************)
(* Reading a local table (stillflow-connector-local-tabular: inference.rs, *)
(* inspect.rs, read.rs, csv_batch.rs, json_stream.rs, preview.rs).  A      *)
(* request infers a schema from a bounded sample of the file, opens the    *)
(* file again to decode it and, for delimited text, a third time to        *)
(* validate it, then hands out batches of a fixed size.  The user may      *)
(* replace the file between any two of these steps.                        *)
(*                                                                         *)
(* A cell is the sequence of what its text is taken for, by the number of  *)
(* bytes read of it: <<"null", "text", "bool">> is a text of two bytes     *)
(* that is a boolean when whole, a text after one byte and missing when    *)
(* nothing of it was read.  Every cell is followed by one byte, its        *)
(* separator or the end of the line.                                       *)
(***************************************************************************)
EXTENDS Integers, Sequences, FiniteSets, SequencesExt, FiniteSetsExt

CONSTANTS
    TabWidth,                 \* number of columns
    TabRows,                  \* the rows a file may hold (a row of another width is malformed)
    MaxTabRows,               \* bound: rows of a file
    TabHeaders,               \* header lines, by name
    TabFormats,               \* a subset of {"delimited", "lines", "array", "parquet"}
    OtherFiles,               \* what the user may put in place of the file
    SampleRows, SampleBytes,  \* inference_rows, inference_bytes
    InternalRows,             \* INTERNAL_ROWS, the rows of one decoded frame
    BatchRows,                \* batch_size of a request
    RowCaps,                  \* the max_rows of a read; 0 stands for no limit
    RowLimit, ByteLimit,      \* of a preview
    BatchBytes,               \* the fixed size of a batch, whatever its rows
    MaxReplaced               \* bound: replacements of the file

VARIABLES
    tabFormat,  \* the format the name of the file gives
    disk,       \* what the path leads to: [header, rows]
    tabReader,  \* the request under way
    replaced    \* replacements so far

tabVars == <<tabFormat, disk, tabReader, replaced>>

TabTypes == {"null", "bool", "int", "uint", "float", "text", "conflict"}
KindOf(cell) == cell[Len(cell)]
TabCellBytes(cell) == Len(cell) - 1
LineBytes(row) == FoldLeft(LAMBDA n, cell: n + TabCellBytes(cell) + 1, 0, row)

-----------------------------------------------------------------------------
(* inference.rs *)

Numeric == {"int", "uint", "float"}

\* Integers of both signs widen to a signed integer.
MergeTypeNarrow(a, b) ==
    CASE a = b -> a [] a = "null" -> b [] b = "null" -> a
      [] {a, b} = {"int", "uint"} -> "int"
      [] {a, b} \subseteq Numeric /\ "float" \in {a, b} -> "float"
      [] OTHER -> "conflict"

MergeType(a, b) ==
    CASE a = b -> a [] a = "null" -> b [] b = "null" -> a
      [] a # b /\ {a, b} \subseteq Numeric -> "float"
      [] OTHER -> "conflict"

(* observe_csv, observe_json: a record of the wrong width is refused.      *)
NewColumns == [c \in 1..TabWidth |-> [type |-> "null", nullable |-> FALSE]]

ObserveSample(columns, kinds) ==
    [c \in 1..TabWidth |-> [type |-> MergeType(columns[c].type, kinds[c]),
                            nullable |-> columns[c].nullable \/ kinds[c] = "null"]]

Observed(records) == FoldLeft(ObserveSample, NewColumns, records)

Kinds(row) == [c \in DOMAIN row |-> KindOf(row[c])]

(* into_logical_schema: nothing was observed, so anything may be missing.  *)
AsSchema(records) ==
    IF records = <<>> THEN [c \in 1..TabWidth |-> [type |-> "null", nullable |-> TRUE]]
    ELSE Observed(records)

(* read_bounded: the first SampleBytes bytes of the file.                  *)
Offset(rows, i) == FoldLeft(LAMBDA n, row: n + LineBytes(row), 0, SubSeq(rows, 1, i))
WholeLines(rows) == Max({i \in 0..Len(rows) : Offset(rows, i) <= SampleBytes})
ByteTruncated(rows) == Offset(rows, Len(rows)) > SampleBytes

(* The record a delimited sample was cut in, bytes into it: the fields     *)
(* that began, the last of them cut short.                                 *)
FieldStart(row, c) == FoldLeft(LAMBDA n, cell: n + TabCellBytes(cell) + 1, 0, SubSeq(row, 1, c - 1))
KindAfter(cell, bytes) == IF bytes < TabCellBytes(cell) THEN cell[bytes + 1] ELSE KindOf(cell)

CutRecord(row, bytes) ==
    [c \in 1..Max({d \in DOMAIN row : FieldStart(row, d) <= bytes}) |-> KindAfter(row[c], bytes - FieldStart(row, c))]

DelimitedSample(rows, whole, rest) ==
    [i \in 1..whole |-> Kinds(rows[i])]
    \o IF whole < Len(rows) /\ rest > 0 THEN <<CutRecord(rows[whole + 1], rest)>> ELSE <<>>

(* infer_delimited: a malformed record ends the sample when the sample was *)
(* cut, and fails the inference when it was not.                           *)
InferRecords(sample, taken, bad, cut) ==
    LET used == IF bad = {} THEN taken ELSE SubSeq(taken, 1, Min(bad) - 1)
    IN  [failed |-> bad # {} /\ ~cut, columns |-> AsSchema(used), seen |-> Len(used),
         truncated |-> cut \/ (Len(used) = SampleRows /\ Len(sample) > SampleRows)]

InferSample(sample, cut) ==
    LET taken == SubSeq(sample, 1, Min({SampleRows, Len(sample)}))
    IN  InferRecords(sample, taken, {i \in DOMAIN taken : Len(taken[i]) # TabWidth}, cut)

InferDelimited(rows) ==
    LET whole == WholeLines(rows)
    IN  InferSample(DelimitedSample(rows, whole, SampleBytes - Offset(rows, whole)), ByteTruncated(rows))

(* infer_json: only whole records of the sample count; a row that is not   *)
(* an object fails.                                                        *)
InferJson(rows) ==
    LET sample == IF ByteTruncated(rows) THEN SubSeq(rows, 1, WholeLines(rows)) ELSE rows
        taken == SubSeq(sample, 1, Min({SampleRows, Len(sample)}))
    IN  [failed |-> \E i \in DOMAIN taken : Len(taken[i]) # TabWidth,
         columns |-> IF \E i \in DOMAIN taken : Len(taken[i]) # TabWidth THEN NewColumns
                     ELSE AsSchema([i \in DOMAIN taken |-> Kinds(taken[i])]),
         seen |-> Len(taken),
         truncated |-> \/ ByteTruncated(rows)
                       \/ Len(taken) = SampleRows /\ Len(sample) > SampleRows]

(* inspect_opened_asset: a Parquet file states its schema.                 *)
InspectParquet(rows) ==
    [failed |-> FALSE, truncated |-> FALSE, seen |-> Len(rows),
     columns |-> AsSchema([i \in DOMAIN rows |-> Kinds(rows[i])])]

Inspected(file) ==
    CASE tabFormat = "delimited" -> InferDelimited(file.rows)
      [] tabFormat \in {"lines", "array"} -> InferJson(file.rows)
      [] tabFormat = "parquet" -> InspectParquet(file.rows)

Conflicting(columns) == \E c \in 1..TabWidth : columns[c].type = "conflict"

-----------------------------------------------------------------------------
(* What a decoded value may be.                                            *)

(* csv_value_matches: any run of digits passes for an integer.             *)
CsvValueMatches(kind, field) ==
    CASE kind = "null" -> field.nullable \/ field.type = "null"
      [] kind # "null" /\ field.type = "text" -> TRUE
      [] kind # "null" /\ field.type \in {"int", "uint"} -> kind \in {"int", "uint"}
      [] kind # "null" /\ field.type = "float" -> kind \in Numeric
      [] OTHER -> kind = field.type

(* read_chunk of the bounded decoder: a value it cannot parse fails the    *)
(* frame.  A missing value is null, whatever the schema says.              *)
Decodes(kind, field) ==
    CASE kind = "null" -> TRUE
      [] kind # "null" /\ field.type = "text" -> TRUE
      [] kind # "null" /\ field.type = "float" -> kind \in Numeric
      [] kind # "null" /\ field.type = "uint" -> kind \in {"int", "uint"}
      [] OTHER -> kind = field.type

(* validate_json_value *)
JsonValueMatches(kind, field) ==
    CASE kind = "null" -> field.nullable \/ field.type = "null"
      [] kind # "null" /\ field.type = "float" -> kind \in Numeric
      [] kind # "null" /\ field.type = "uint" -> kind \in {"int", "uint"}
      [] OTHER -> kind = field.type

RowMatches(row, columns, Matches(_, _)) ==
    Len(row) = TabWidth /\ \A c \in 1..TabWidth : Matches(KindOf(row[c]), columns[c])

(* dataframe_to_record_batch, validate_required_values                     *)
RequiredPresent(row, columns) ==
    \A c \in 1..TabWidth :
        KindOf(row[c]) = "null" => columns[c].nullable \/ columns[c].type = "null"

-----------------------------------------------------------------------------
(* prepare_reader *)

NoTabReader == [phase |-> "idle"]
TabFailed(why) == tabReader' = [tabReader EXCEPT !.phase = "failed", !.why = why]

(* The first open: inspection.  A preview asks for one row more than its   *)
(* limit.                                                                  *)
Inspect(kind, cap) ==
    /\ tabReader.phase = "idle"
    /\ LET inferred == Inspected(disk)
           bad == inferred.failed \/ Conflicting(inferred.columns)
       IN  tabReader' = [phase |-> IF bad THEN "failed" ELSE "inspected",
                      why |-> IF bad THEN "inference" ELSE "none",
                      kind |-> kind, cap |-> IF kind = "preview" THEN RowLimit + 1 ELSE cap,
                      header |-> disk.header, columns |-> inferred.columns,
                      truncated |-> inferred.truncated, began |-> replaced,
                      sampled |-> disk.rows, source |-> <<>>, checked |-> <<>>,
                      decoded |-> 0, pending |-> <<>>, output |-> <<>>, emitted |-> <<>>]
    /\ UNCHANGED <<tabFormat, disk, replaced>>

(* The second open: the decoder's.  Parquet compares the schema again.     *)
OpenDecoder ==
    /\ tabReader.phase = "inspected"
    /\ IF tabFormat = "parquet" /\ (Inspected(disk).columns # tabReader.columns
                                 \/ disk.header # tabReader.header)
       THEN TabFailed("drift")
       ELSE tabReader' = [tabReader EXCEPT !.phase = IF tabFormat = "delimited" THEN "decoder" ELSE "reading",
                                     !.source = disk.rows]
    /\ UNCHANGED <<tabFormat, disk, replaced>>

(* The third: the validator's, which compares the header.                  *)
OpenValidator ==
    /\ tabReader.phase = "decoder"
    /\ IF disk.header # tabReader.header THEN TabFailed("drift")
       ELSE tabReader' = [tabReader EXCEPT !.phase = "reading", !.checked = disk.rows]
    /\ UNCHANGED <<tabFormat, disk, replaced>>

-----------------------------------------------------------------------------
(* PreparedReader *)

Rows(batches) == FoldLeft(LAMBDA n, b: n + Len(b), 0, batches)
RowsEmitted == Rows(tabReader.emitted)
Remaining == IF tabReader.cap = 0 THEN MaxTabRows + BatchRows ELSE tabReader.cap - RowsEmitted

\* The remaining rows of the request are forgotten.
TargetWhole == BatchRows

OutputTarget == Min({BatchRows, Remaining})

(* fill_pending: the next frame.  The delimited decoder keeps its own      *)
(* count of the rows of the request; the others are asked for what the     *)
(* request still wants.                                                    *)
FrameRows ==
    LET wanted == IF tabFormat = "delimited" /\ tabReader.cap # 0
                  THEN tabReader.cap - tabReader.decoded ELSE Remaining
    IN  Min({InternalRows, BatchRows, wanted, Len(tabReader.source) - tabReader.decoded})

NextFrame == SubSeq(tabReader.source, tabReader.decoded + 1, tabReader.decoded + FrameRows)

(* CsvState::validate_rows reads as many rows as the frame has.            *)
Validated(count) ==
    /\ tabReader.decoded + count <= Len(tabReader.checked)
    /\ \A i \in (tabReader.decoded + 1)..(tabReader.decoded + count) :
          RowMatches(tabReader.checked[i], tabReader.columns, CsvValueMatches)

FrameAccepted(frame) ==
    CASE tabFormat = "delimited" ->
            /\ \A i \in DOMAIN frame : RowMatches(frame[i], tabReader.columns, Decodes)
            /\ Validated(Len(frame))
      [] tabFormat \in {"lines", "array"} ->
            \A i \in DOMAIN frame : RowMatches(frame[i], tabReader.columns, JsonValueMatches)
      [] OTHER -> TRUE

Filling == tabReader.phase = "reading" /\ Len(tabReader.output) < OutputTarget

FillPending ==
    /\ Filling /\ tabReader.pending = <<>> /\ FrameRows > 0
    /\ IF FrameAccepted(NextFrame)
       THEN tabReader' = [tabReader EXCEPT !.pending = NextFrame, !.decoded = @ + FrameRows]
       ELSE TabFailed("drift")
    /\ UNCHANGED <<tabFormat, disk, replaced>>

(* next_output_frame: as much of the frame as the batch has room for.      *)
TakePending ==
    /\ Filling /\ tabReader.pending # <<>>
    /\ LET take == Min({OutputTarget - Len(tabReader.output), Len(tabReader.pending)}) IN
       tabReader' = [tabReader EXCEPT !.output = @ \o SubSeq(tabReader.pending, 1, take),
                                !.pending = SubSeq(@, take + 1, Len(@))]
    /\ UNCHANGED <<tabFormat, disk, replaced>>

(* next_envelope: a full batch, or what is left when the source is empty.  *)
EmitBatch ==
    /\ tabReader.phase = "reading"
    /\ ~Filling \/ (tabReader.pending = <<>> /\ FrameRows = 0)
    /\ IF tabReader.output = <<>> THEN tabReader' = [tabReader EXCEPT !.phase = "done"]
       ELSE IF \A i \in DOMAIN tabReader.output : RequiredPresent(tabReader.output[i], tabReader.columns)
       THEN tabReader' = [tabReader EXCEPT !.emitted = Append(@, tabReader.output), !.output = <<>>]
       ELSE TabFailed("drift")
    /\ UNCHANGED <<tabFormat, disk, replaced>>

(* The user saves another file under the same name.                        *)
ReplaceFile(file) ==
    /\ replaced < MaxReplaced /\ tabReader.phase \in {"inspected", "decoder"} /\ disk # file
    /\ disk' = file /\ replaced' = replaced + 1
    /\ UNCHANGED <<tabFormat, tabReader>>

TabFiles == [header : TabHeaders, rows : UNION {[1..n -> TabRows] : n \in 0..MaxTabRows}]

TabInit ==
    /\ tabFormat \in TabFormats /\ disk \in TabFiles
    /\ tabFormat = "parquet" =>
          \A i \in DOMAIN disk.rows : Len(disk.rows[i]) = TabWidth
    /\ tabReader = NoTabReader /\ replaced = 0

TabNext ==
    \/ \E kind \in {"read", "preview"}, cap \in RowCaps : Inspect(kind, cap)
    \/ OpenDecoder \/ OpenValidator \/ FillPending \/ TakePending \/ EmitBatch
    \/ \E file \in OtherFiles : ReplaceFile(file)

TabSpec == TabInit /\ [][TabNext]_tabVars

-----------------------------------------------------------------------------
(* preview_asset: the batches of a preview, cut to the two limits.         *)

Size(rows) == BatchBytes + FoldLeft(LAMBDA n, row: n + LineBytes(row), 0, rows)

\* A prefix of exactly the limit is taken for too large.
RECURSIVE FittingBelow(_, _, _, _)
FittingBelow(rows, limit, low, high) ==
    IF low >= high THEN low
    ELSE LET middle == low + (high - low + 1) \div 2 IN
         IF Size(SubSeq(rows, 1, middle)) < limit
         THEN FittingBelow(rows, limit, middle, high)
         ELSE FittingBelow(rows, limit, low, middle - 1)

(* largest_fitting_prefix *)
RECURSIVE FittingBetween(_, _, _, _)
FittingBetween(rows, limit, low, high) ==
    IF low >= high THEN low
    ELSE LET middle == low + (high - low + 1) \div 2 IN
         IF Size(SubSeq(rows, 1, middle)) <= limit
         THEN FittingBetween(rows, limit, middle, high)
         ELSE FittingBetween(rows, limit, low, middle - 1)

LargestFitting(rows, limit) ==
    IF Size(rows) <= limit THEN Len(rows) ELSE FittingBetween(rows, limit, 0, Len(rows))

PreviewStep(p, batch) ==
    LET within == Min({Max({RowLimit - p.seen, 0}), Len(batch)})
        candidate == SubSeq(batch, 1, within)
        fit == LargestFitting(candidate, Max({ByteLimit - p.bytes, 0}))
        next == [p EXCEPT !.seen = @ + Len(batch)]
    IN  IF p.closed \/ p.failed \/ within = 0 THEN next
        ELSE IF fit < within /\ Size(<<candidate[fit + 1]>>) > ByteLimit
        THEN [next EXCEPT !.failed = TRUE]
        ELSE [next EXCEPT !.closed = fit < within,
                          !.rows = @ \o SubSeq(candidate, 1, fit),
                          !.bytes = @ + (IF fit = 0 THEN 0 ELSE Size(SubSeq(candidate, 1, fit)))]

Preview == FoldLeft(PreviewStep, [seen |-> 0, rows |-> <<>>, bytes |-> 0,
                                  closed |-> FALSE, failed |-> FALSE], tabReader.emitted)

RowsTruncated == Preview.seen > RowLimit
BytesTruncated == Preview.closed

-----------------------------------------------------------------------------
(* Properties *)

Started == tabReader.phase # "idle"
Quiet == Started /\ replaced = tabReader.began
Everything == FlattenSeq(tabReader.emitted) \o tabReader.output \o tabReader.pending

(* Rows leave the reader in the order of the file it decodes, none lost    *)
(* and none twice, in batches of exactly the requested size but the last,  *)
(* and no more of them than asked for (next_output_frame).                 *)
BatchesExact ==
    Started /\ tabReader.phase \in {"reading", "done"} =>
        /\ Everything = SubSeq(tabReader.source, 1, tabReader.decoded)
        /\ \A i \in DOMAIN tabReader.emitted :
              i < Len(tabReader.emitted) => Len(tabReader.emitted[i]) = BatchRows
        /\ tabReader.cap # 0 => RowsEmitted <= tabReader.cap
        /\ tabReader.phase = "done" =>
              RowsEmitted = IF tabReader.cap = 0 THEN Len(tabReader.source)
                            ELSE Min({tabReader.cap, Len(tabReader.source)})

(* Whatever replaced the file between the three opens, a row that is       *)
(* handed out has the types of the schema and every required value.        *)
RowsConform ==
    Started => \A i \in DOMAIN FlattenSeq(tabReader.emitted) :
        LET row == FlattenSeq(tabReader.emitted)[i] IN
        /\ RowMatches(row, tabReader.columns, Decodes)
        /\ RequiredPresent(row, tabReader.columns)

(* A file whose every row was sampled and that nobody touched is read to   *)
(* its end with the inferred schema: inference and the three checks of a   *)
(* value agree, in whatever order the kinds of values appear.              *)
InferenceHolds ==
    Quiet /\ ~tabReader.truncated /\ tabReader.why # "inference" => tabReader.phase # "failed"

(* A preview says exactly whether the file has more rows than its limit,   *)
(* and whether rows within it were left out for their size; the rows it    *)
(* returns are the first ones and as many as fit (preview_asset).          *)
PreviewExactly ==
    Started /\ tabReader.kind = "preview" /\ tabReader.phase = "done" /\ ~Preview.failed =>
        LET n == Min({RowLimit, Len(tabReader.source)}) IN
        /\ RowsTruncated = (Len(tabReader.source) > RowLimit)
        /\ BytesTruncated = (Len(Preview.rows) < n)
        /\ IsPrefix(Preview.rows, tabReader.source) /\ Preview.bytes <= ByteLimit
        /\ BytesTruncated =>
              Preview.bytes + LineBytes(tabReader.source[Len(Preview.rows) + 1])
                  + (IF Len(Preview.rows) % BatchRows = 0 THEN BatchBytes ELSE 0) > ByteLimit

(* The four of them: what the local tabular reader promises.               *)
TablesSound == BatchesExact /\ RowsConform /\ InferenceHolds /\ PreviewExactly

(* A sample cut by its byte limit is inferred from its whole records, so   *)
(* a table whose columns each hold one type is never refused.              *)
SampleCutHarmless ==
    tabReader.phase = "failed" /\ tabReader.why = "inference" =>
        \/ \E i \in DOMAIN tabReader.sampled : Len(tabReader.sampled[i]) # TabWidth
        \/ Conflicting(Observed([i \in DOMAIN tabReader.sampled |-> Kinds(tabReader.sampled[i])]))
=============================================================================
