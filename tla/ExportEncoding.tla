---------------------------- MODULE ExportEncoding ----------------------------
(***************************************************************************)
(* How an export encodes a Snapshot (stillflow-engine, export.rs): the     *)
(* format matrix is applied to the schema before a byte is written, every  *)
(* batch is scanned for values no format can hold, and the rows are        *)
(* written as delimited text, as lines of JSON, or by the Parquet writer,  *)
(* into one file or into one file per batch.                               *)
(*                                                                         *)
(* A file is a sequence of tokens.  The tokens of the delimited formats    *)
(* are the ones the quoting law tells apart: "delimiter", "quote", "lf",   *)
(* "cr" and letters; a rendered number, a date or a timestamp is one       *)
(* letter.  The tokens of JSON are tuples; a string or a field name is one *)
(* token, serde_json's.                                                    *)
(***************************************************************************)
EXTENDS Integers, Sequences, FiniteSets, SequencesExt, FiniteSetsExt

CONSTANTS
    ExportInputs,     \* the Snapshots: [schema, batches]
    ExportFormats,    \* a subset of {"csv", "jsonl", "parquet"}
    ExportShapes,     \* a subset of {"single", "partitioned"}
    MaxEncodedParts,  \* MAX_EXPORT_PARTITIONS
    MaxEncodedRows    \* MAX_EXPORT_ROWS

VARIABLES
    encInput,  \* the Snapshot
    layout,    \* the format and the shape of the export
    encoder,   \* [phase, next, staged, rows, why]
    encParts   \* the installed files, in the order of their names

encVars == <<encInput, layout, encoder, encParts>>

NullCell == [t |-> "null"]

-----------------------------------------------------------------------------
(* Reading back, as RFC 4180 and RFC 8259 readers do: the reference.       *)

EmptyField == [text |-> <<>>, quoted |-> FALSE]

ReadStep(s, token) ==
    CASE s.mode = "quoted" /\ token = "quote" -> [s EXCEPT !.mode = "closing"]
      [] s.mode = "quoted" /\ token # "quote" -> [s EXCEPT !.field.text = Append(@, token)]
      [] s.mode = "closing" /\ token = "quote" ->
            [s EXCEPT !.mode = "quoted", !.field.text = Append(@, "quote")]
      [] s.mode \in {"plain", "closing"} /\ token = "delimiter" ->
            [s EXCEPT !.mode = "plain", !.record = Append(@, s.field), !.field = EmptyField]
      [] s.mode \in {"plain", "closing"} /\ token \in {"lf", "cr"} ->
            [s EXCEPT !.mode = "plain", !.records = Append(@, Append(s.record, s.field)),
                      !.record = <<>>, !.field = EmptyField]
      [] s.mode = "plain" /\ token = "quote" /\ s.field = EmptyField ->
            [s EXCEPT !.mode = "quoted", !.field.quoted = TRUE]
      [] OTHER -> [s EXCEPT !.field.text = Append(@, token)]

ReadRecords(tokens) ==
    FoldLeft(ReadStep, [mode |-> "plain", field |-> EmptyField, record |-> <<>>, records |-> <<>>],
             tokens).records

ReadCell(type, field) ==
    IF field = EmptyField \/ type.k = "null" THEN NullCell
    ELSE IF type.k = "utf8" THEN [t |-> "text", s |-> field.text]
    ELSE [t |-> "value", v |-> IF field.text = <<>> THEN "" ELSE field.text[1]]

ReadText(schema, tokens) ==
    LET records == ReadRecords(tokens) IN
    [header |-> [i \in DOMAIN records[1] |-> records[1][i].text],
     rows |-> [r \in 1..(Len(records) - 1) |->
                 [i \in DOMAIN records[r + 1] |->
                    IF i \in DOMAIN schema THEN ReadCell(schema[i].type, records[r + 1][i])
                    ELSE records[r + 1][i]]]]

-----------------------------------------------------------------------------
(* The format matrix *)

RECURSIVE LeafLegal(_, _)
(* check_format_leaf *)
LeafLegal(format, type) ==
    CASE type.k = "binary" -> format = "parquet"
      [] type.k = "list" -> format # "csv" /\ LeafLegal(format, type.of)
      [] type.k = "struct" ->
            format # "csv" /\ \A i \in DOMAIN type.fields : LeafLegal(format, type.fields[i].type)
      [] OTHER -> TRUE

(* check_format_columns *)
ColumnsLegal(format, schema) == \A i \in DOMAIN schema : LeafLegal(format, schema[i].type)

\* Only the columns themselves are looked at.
FlatFinite(type, cell) == ~(type.k = "float" /\ cell.t = "value" /\ cell.v = "nan")

RECURSIVE Finite(_, _)
(* ensure_finite_values.  The child of a null list or struct is empty or   *)
(* null in a batch read from Parquet, so a null cell has nothing to scan.  *)
Finite(type, cell) ==
    CASE cell.t = "null" -> TRUE
      [] cell.t # "null" /\ type.k = "float" -> cell.v # "nan"
      [] cell.t # "null" /\ type.k = "list" ->
            \A i \in DOMAIN cell.items : Finite(type.of, cell.items[i])
      [] cell.t # "null" /\ type.k = "struct" ->
            \A i \in DOMAIN type.fields : Finite(type.fields[i].type, cell.items[i])
      [] OTHER -> TRUE

(* ensure_batch_finite *)
BatchFinite(schema, rows) ==
    \A r \in DOMAIN rows, i \in DOMAIN schema : Finite(schema[i].type, rows[r][i])

-----------------------------------------------------------------------------
(* Delimited text *)

(* The quoting law without its first case.                                 *)
QuotesSpecialsOnly(text) == ToSet(text) \cap {"delimiter", "quote", "lf", "cr"} # {}

NeedsQuote(text) ==
    text = <<>> \/ ToSet(text) \cap {"delimiter", "quote", "lf", "cr"} # {}

(* encode_text_field *)
EncodeTextField(text) ==
    IF ~NeedsQuote(text) THEN text
    ELSE <<"quote">>
           \o FlattenSeq([i \in DOMAIN text |->
                 IF text[i] = "quote" THEN <<"quote", "quote">> ELSE <<text[i]>>])
           \o <<"quote">>

RECURSIVE Representable(_, _)
(* format_date and format_timestamp_value, wherever the value is nested: a *)
(* value chrono cannot represent is refused.                               *)
Representable(type, cell) ==
    CASE cell.t = "value" -> ~(type.k = "temporal" /\ cell.v = "far")
      [] cell.t = "list" -> \A i \in DOMAIN cell.items : Representable(type.of, cell.items[i])
      [] cell.t = "struct" ->
            \A i \in DOMAIN cell.items : Representable(type.fields[i].type, cell.items[i])
      [] OTHER -> TRUE

(* render_text_value; a column of the null type renders as nothing.        *)
RenderTextValue(type, cell) ==
    CASE type.k = "null" -> <<>>
      [] type.k = "utf8" -> cell.s
      [] OTHER -> <<cell.v>>

Joined(fields) ==
    FlattenSeq([i \in DOMAIN fields |->
        IF i = 1 THEN fields[i] ELSE <<"delimiter">> \o fields[i]]) \o <<"lf">>

(* write_text_header *)
TextHeader(schema) == Joined([i \in DOMAIN schema |-> EncodeTextField(schema[i].name)])

(* Array::is_null: an array of the null type has no validity buffer, and   *)
(* none of its rows counts as null.                                        *)
IsNull(type, cell) == cell.t = "null" /\ type.k # "null"

(* write_text_batch; a null is an unquoted empty field.                    *)
TextRow(schema, row) ==
    Joined([i \in DOMAIN schema |->
        IF IsNull(schema[i].type, row[i]) THEN <<>>
        ELSE EncodeTextField(RenderTextValue(schema[i].type, row[i]))])

-----------------------------------------------------------------------------
(* Lines of JSON *)

RECURSIVE JsonValue(_, _)
(* write_json_value *)
JsonValue(type, cell) ==
    LET Listed(values) == FlattenSeq([i \in DOMAIN values |->
                              IF i = 1 THEN values[i] ELSE <<<<"comma">>>> \o values[i]])
    IN  CASE cell.t = "null" -> <<<<"null">>>>
          [] cell.t = "text" -> <<<<"string", cell.s>>>>
          [] cell.t = "value" -> <<<<cell.v>>>>
          [] type.k = "list" ->
                <<<<"[">>>> \o Listed([i \in DOMAIN cell.items |-> JsonValue(type.of, cell.items[i])])
                        \o <<<<"]">>>>
          [] type.k = "struct" ->
                <<<<"{">>>> \o Listed([i \in DOMAIN type.fields |->
                              <<<<"key", type.fields[i].name>>, <<":">>>>
                                \o JsonValue(type.fields[i].type, cell.items[i])]) \o <<<<"}">>>>

(* write_jsonl_batch: a row is an object of its columns.                   *)
JsonRow(schema, row) ==
    JsonValue([k |-> "struct", fields |-> schema], [t |-> "struct", items |-> row]) \o <<<<"lf">>>>

RECURSIVE ReadJson(_, _, _)
(* The value of a type that starts at position at: [cell, end].            *)
ReadJson(type, tokens, at) ==
    IF tokens[at] = <<"null">> THEN [cell |-> NullCell, end |-> at + 1]
    ELSE IF type.k \notin {"list", "struct"}
    THEN [end |-> at + 1,
          cell |-> IF type.k = "utf8" THEN [t |-> "text", s |-> tokens[at][2]]
                   ELSE [t |-> "value", v |-> tokens[at][1]]]
    ELSE LET skip == IF type.k = "list" THEN 0 ELSE 2
             Member(s, n) ==
                IF s.closed THEN s
                ELSE IF tokens[s.end] \in {<<"]">>, <<"}">>} THEN [s EXCEPT !.closed = TRUE, !.end = @ + 1]
                ELSE LET from == IF tokens[s.end] = <<"comma">> THEN s.end + 1 ELSE s.end
                         of == IF type.k = "list" THEN type.of ELSE type.fields[n].type
                         one == ReadJson(of, tokens, from + skip)
                     IN  [s EXCEPT !.items = Append(@, one.cell), !.end = one.end]
             all == FoldLeft(Member, [items |-> <<>>, end |-> at + 1, closed |-> FALSE],
                             [n \in 1..(Len(tokens) + 1) |-> n])
         IN  [cell |-> [t |-> type.k, items |-> all.items], end |-> all.end]

ReadJsonRows(schema, tokens) ==
    FoldLeft(LAMBDA s, n:
                IF s.end > Len(tokens) THEN s
                ELSE LET one == ReadJson([k |-> "struct", fields |-> schema], tokens, s.end)
                     IN  [rows |-> Append(s.rows, one.cell.items), end |-> one.end + 1],
             [rows |-> <<>>, end |-> 1], [n \in 1..Len(tokens) |-> n]).rows

-----------------------------------------------------------------------------
(* run_export_inner and encode_stream *)

Schema == encInput.schema

(* The formats that render a value refuse one chrono cannot represent; the *)
(* Parquet writer takes the batch as it is.                                *)
RowsRepresentable(rows) ==
    layout.format # "parquet" =>
        \A r \in DOMAIN rows, i \in DOMAIN Schema :
            Representable(Schema[i].type, rows[r][i])

(* What a file holds before its first batch.                               *)
Preamble == IF layout.format = "csv" THEN TextHeader(Schema) ELSE <<>>

(* write_text_batch, write_jsonl_batch or ArrowWriter::write.              *)
EncodeBatch(rows) ==
    CASE layout.format = "csv" -> FlattenSeq([r \in DOMAIN rows |-> TextRow(Schema, rows[r])])
      [] layout.format = "jsonl" -> FlattenSeq([r \in DOMAIN rows |-> JsonRow(Schema, rows[r])])
      [] layout.format = "parquet" -> rows

(* The first error ends the export: the staged file is dropped.            *)
FailEncoding(why) ==
    /\ encoder' = [encoder EXCEPT !.phase = "failed", !.why = why, !.staged = <<>>]
    /\ UNCHANGED encParts

(* A checkpoint, the manifest of the Snapshot, then the format matrix.     *)
CheckExport ==
    /\ encoder.phase = "check"
    /\ \/ \E why \in {"cancelled", "storage"} : FailEncoding(why)
       \/ ~ColumnsLegal(layout.format, Schema) /\ FailEncoding("columns")
       \/ /\ ColumnsLegal(layout.format, Schema)
          /\ encoder' = [encoder EXCEPT !.phase = "verifying"] /\ UNCHANGED encParts
    /\ UNCHANGED <<encInput, layout>>

(* Phase 1, one partition: it is read whole, counted, and not encoded; the *)
(* checkpoint follows the bounds.                                          *)
VerifyNext ==
    /\ encoder.phase = "verifying" /\ encoder.next <= Len(encInput.batches)
    /\ LET total == encoder.rows + Len(encInput.batches[encoder.next])
           tooMany == layout.shape = "partitioned" /\ encoder.next > MaxEncodedParts
       IN  \/ FailEncoding("storage")
           \/ total > MaxEncodedRows /\ FailEncoding("rows")
           \/ total <= MaxEncodedRows /\ tooMany /\ FailEncoding("parts")
           \/ total <= MaxEncodedRows /\ ~tooMany /\ FailEncoding("cancelled")
           \/ /\ total <= MaxEncodedRows /\ ~tooMany /\ UNCHANGED encParts
              /\ encoder' = [encoder EXCEPT !.next = @ + 1, !.rows = total]
    /\ UNCHANGED <<encInput, layout>>

(* Phase 2 begins: begin_export, the staged file of a single-file export   *)
(* with its header, and a second reader.                                   *)
BeginEncoding ==
    /\ encoder.phase = "verifying" /\ encoder.next > Len(encInput.batches)
    /\ \/ FailEncoding("storage")
       \/ /\ encoder' = [encoder EXCEPT !.phase = "encoding", !.next = 1, !.rows = 0,
                             !.staged = IF layout.shape = "single" THEN Preamble ELSE <<>>]
          /\ UNCHANGED encParts
    /\ UNCHANGED <<encInput, layout>>

(* The checks of one batch, in their order: ensure_batch_finite, add_rows  *)
(* and its bound, open_partition, and the values the writer refuses.       *)
BatchVerdict(rows, total) ==
    IF ~BatchFinite(Schema, rows) THEN "finite"
    ELSE IF total > MaxEncodedRows THEN "rows"
    ELSE IF layout.shape = "partitioned" /\ Len(encParts) >= MaxEncodedParts THEN "parts"
    ELSE IF ~RowsRepresentable(rows) THEN "value"
    ELSE "ok"

(* One batch.  Reading it, staging it or installing its file may fail; a   *)
(* single file is checkpointed after the append, a partition between its   *)
(* staging and its installation and again once it is installed.            *)
EncodeNext ==
    /\ encoder.phase = "encoding" /\ encoder.next <= Len(encInput.batches)
    /\ LET rows == encInput.batches[encoder.next]
           total == encoder.rows + Len(rows)
           verdict == BatchVerdict(rows, total)
       IN  \/ \E why \in {"storage", verdict} \ {"ok"} : FailEncoding(why)
           \/ verdict = "ok" /\ FailEncoding("cancelled")
           \/ /\ verdict = "ok" /\ layout.shape = "single" /\ UNCHANGED encParts
              /\ encoder' = [encoder EXCEPT !.next = @ + 1, !.rows = total,
                                            !.staged = @ \o EncodeBatch(rows)]
           \/ /\ verdict = "ok" /\ layout.shape = "partitioned"
              /\ encParts' = Append(encParts, Preamble \o EncodeBatch(rows))
              /\ \/ encoder' = [encoder EXCEPT !.next = @ + 1, !.rows = total]
                 \/ encoder' = [encoder EXCEPT !.phase = "failed", !.why = "cancelled"]
    /\ UNCHANGED <<encInput, layout>>

(* The batches are at their end: a single file is checkpointed and then    *)
(* installed.                                                              *)
EndEncoding ==
    /\ encoder.phase = "encoding" /\ encoder.next > Len(encInput.batches)
    /\ \/ /\ layout.shape = "single"
          /\ \E why \in {"storage", "cancelled"} : FailEncoding(why)
       \/ /\ encParts' = IF layout.shape = "single" THEN <<encoder.staged>> ELSE encParts
          /\ encoder' = [encoder EXCEPT !.phase = "encoded", !.staged = <<>>]
    /\ UNCHANGED <<encInput, layout>>

(* The last checkpoint, and the commit (ExportPublication).                *)
CommitEncoded ==
    /\ encoder.phase = "encoded"
    /\ \/ \E why \in {"cancelled", "storage"} : FailEncoding(why)
       \/ encoder' = [encoder EXCEPT !.phase = "done"] /\ UNCHANGED encParts
    /\ UNCHANGED <<encInput, layout>>

EncInit ==
    /\ encInput \in ExportInputs /\ layout \in [format : ExportFormats, shape : ExportShapes]
    /\ encoder = [phase |-> "check", next |-> 1, staged |-> <<>>, rows |-> 0, why |-> "none"]
    /\ encParts = <<>>

EncNext ==
    CheckExport \/ VerifyNext \/ BeginEncoding \/ EncodeNext \/ EndEncoding \/ CommitEncoded

EncSpec == EncInit /\ [][EncNext]_encVars

-----------------------------------------------------------------------------
RowsOf(file) ==
    CASE layout.format = "csv" -> ReadText(Schema, file).rows
      [] layout.format = "jsonl" -> ReadJsonRows(Schema, file)
      [] layout.format = "parquet" -> file

(* What an export installed reads back, by any reader of its format, as    *)
(* the rows of the Snapshot in their order, nulls told from empty texts,   *)
(* one file per batch or one in all, each text file with the header; and   *)
(* no non-finite number, nested ones included, reached a file (ADR-004 §3).*)
EncodingExact ==
    /\ encoder.phase = "done" =>
          /\ FlattenSeq([p \in DOMAIN encParts |-> RowsOf(encParts[p])]) = FlattenSeq(encInput.batches)
          /\ layout.shape = "single" => Len(encParts) = 1
          /\ layout.shape = "partitioned" =>
                \A p \in 1..Len(encInput.batches) : RowsOf(encParts[p]) = encInput.batches[p]
          /\ layout.format = "csv" =>
                \A p \in DOMAIN encParts :
                    ReadText(Schema, encParts[p]).header = [i \in DOMAIN Schema |-> Schema[i].name]
    /\ \A p \in DOMAIN encParts :
          layout.format = "jsonl" => <<"nan">> \notin ToSet(encParts[p])
=============================================================================
