-------------------------- MODULE ChunkedExecution --------------------------
(***************************************************************************)
(* How the engine keeps a run inside its memory: predict.rs bounds the     *)
(* working set of a chunk before it is lowered and takes the largest chunk *)
(* that fits, remainder.rs collects lowered rows in sinks whose capacity   *)
(* it grows exactly, and publishes them as envelopes of bounded rows and   *)
(* bytes (batch.rs), memory.rs accounts for what is live.                  *)
(*                                                                         *)
(* A row maps column to cell; a cell is the width of its value, or NullCell.*)
(* Sizes are counted in small units; a byte of a bitmap holds BitsPerByte  *)
(* bits.                                                                   *)
(***************************************************************************)
EXTENDS Integers, Sequences, FiniteSets, FiniteSetsExt, SequencesExt

CONSTANTS
  ChunkInputs,    \* envelopes: sequences of rows over the columns "n" (fixed width) and "t" (text)
  ChunkPrograms,  \* sequences of steps
  MaxBatchBytes,  \* MAX_BATCH_BYTES
  PackLimit,      \* rows of a published envelope
  BitsPerByte, Slot, ViewSlot, OffsetSlot, IntWidth

NullChunkCell == -1

ASSUME ChunkAssumption ==
  /\ {MaxBatchBytes, PackLimit, BitsPerByte, Slot} \subseteq Nat \ {0}
  /\ {ViewSlot, OffsetSlot, IntWidth} \subseteq Nat
  /\ \A taken \in ChunkInputs : \A k \in DOMAIN taken :
       taken[k].n \in {NullChunkCell, 0} /\ taken[k].t \in {NullChunkCell} \cup Nat

VARIABLES
  ceInput, ceSteps,   \* the envelope and the steps
  ceOffset,           \* rows of the envelope already lowered
  ceChunk,            \* the last chunk: where it started and its size
  ceStage,            \* chunk, push, done, failed
  ceReason,           \* why it failed
  ceIncoming,         \* lowered rows not yet in the sinks
  ceWorking,          \* bytes of the incoming chunk the tracker holds
  ceSinks,            \* column -> sink
  ceOut               \* published envelopes

ceVars == <<ceInput, ceSteps, ceOffset, ceChunk, ceStage, ceReason, ceIncoming, ceWorking, ceSinks, ceOut>>

SumOf(f(_), n) == FoldLeft(LAMBDA acc, k : acc + f(k), 0, [k \in 1 .. n |-> k])

Width(cell) == IF cell = NullChunkCell THEN 0 ELSE cell
Larger(a, b) == IF a > b THEN a ELSE b
BitBytes(k) == (k + BitsPerByte - 1) \div BitsPerByte

\* The rows' widths in one column: their sum and their maximum.
DataBytes(rows, c) == SumOf(LAMBDA k : Width(rows[k][c]), Len(rows))
MaxWidth(rows, c) == Max({0} \cup {Width(rows[k][c]) : k \in DOMAIN rows})

-----------------------------------------------------------------------------
(* predict.rs: the predicted-column table and the bound of every step.     *)

Utf8PhysicalBytes(k, data) == data + k * ViewSlot + (k + 1) * OffsetSlot + BitBytes(k)
FixedPhysicalBytes(k) == k * Slot + BitBytes(k)

\* from_scan_output and refresh_source_widths.
SourceColumns(rows) ==
  <<[id |-> "n", text |-> FALSE, max |-> 0, source |-> TRUE],
    [id |-> "t", text |-> TRUE, max |-> MaxWidth(rows, "t"), source |-> TRUE]>>

ColumnPhysicalBytes(col, rows) ==
  LET k == Len(rows)
  IN IF ~col.text THEN FixedPhysicalBytes(k)
     ELSE Utf8PhysicalBytes(k, IF col.source THEN DataBytes(rows, col.id) ELSE k * col.max)

ColumnPhysicalSum(cols, rows) == SumOf(LAMBDA j : ColumnPhysicalBytes(cols[j], rows), Len(cols))

ColumnNamed(cols, c) == CHOOSE col \in Range(cols) : col.id = c
Changed(cols, c, col) == [j \in DOMAIN cols |-> IF cols[j].id = c THEN col ELSE cols[j]]

\* expression_max_value_bytes: a literal, a column, a coalesce, a cast of text to text; any other
\* expression, a conditional included, counts as 0.
ExpressionMaxValueBytes(cols, e) ==
  LET column == ColumnNamed(cols, "t").max
  IN CASE e.op = "literal" -> e.width
       [] e.op = "column" -> column
       [] e.op = "coalesce" -> Larger(column, e.width)
       [] e.op = "recast" -> IntWidth
       [] OTHER -> 0

\* What a step does to [cols, live, peak]: the column table and the bytes live after it, its peak
\* counting what was live, a temporary and the result.
Into(st, temporary, cols, live) ==
  [cols |-> cols, live |-> live, peak |-> Larger(st.peak, st.live + temporary + live)]

\* A projection or a dropped column: only the remaining columns stay live.
PredictDrop(st, rows) ==
  LET cols == SelectSeq(st.cols, LAMBDA col : col.id # "t")
  IN Into(st, 0, cols, ColumnPhysicalSum(cols, rows))

\* A rule that rewrites a column: it is derived from now on, its widest value bounded by max.
ChunkRewritten(st, rows, c, max, temporary) ==
  LET cols == Changed(st.cols, c, [id |-> c, text |-> TRUE, max |-> max, source |-> FALSE])
  IN Into(st, temporary, cols, ColumnPhysicalSum(cols, rows))

PredictTrim(st, rows) ==
  LET max == ColumnNamed(st.cols, "t").max
  IN ChunkRewritten(st, rows, "t", max, Utf8PhysicalBytes(Len(rows), Len(rows) * max))

PredictReplace(st, s, rows) ==
  LET old == ColumnNamed(st.cols, "t").max
      max == Larger(old, s.width)
  IN IF s.kind = "nullify" THEN ChunkRewritten(st, rows, "t", old, BitBytes(Len(rows)))
     ELSE ChunkRewritten(st, rows, "t", max, Utf8PhysicalBytes(Len(rows), Len(rows) * max))

PredictFill(st, s, rows) ==
  LET max == Larger(ColumnNamed(st.cols, "t").max, s.width)
  IN ChunkRewritten(st, rows, "t", max, Utf8PhysicalBytes(Len(rows), Len(rows) * max))

PredictCast(st, rows) ==
  ChunkRewritten(st, rows, "n", IntWidth, Utf8PhysicalBytes(Len(rows), Len(rows) * IntWidth))

PredictDerive(st, s, rows) ==
  LET col == [id |-> s.id, text |-> TRUE, source |-> FALSE,
              max |-> ExpressionMaxValueBytes(st.cols, s.expression)]
      temporary == ColumnPhysicalBytes(col, rows)
  IN Into(st, temporary, Append(st.cols, col), st.live + temporary)

\* A filter holds its input and its output.
PredictStep(st, s, rows) ==
  CASE s.kind = "filter" -> Into(st, st.live, st.cols, st.live)
    [] s.kind = "drop" -> PredictDrop(st, rows)
    [] s.kind = "trim" -> PredictTrim(st, rows)
    [] s.kind \in {"replace", "nullify"} -> PredictReplace(st, s, rows)
    [] s.kind = "fill" -> PredictFill(st, s, rows)
    [] s.kind = "cast" -> PredictCast(st, rows)
    [] s.kind = "derive" -> PredictDerive(st, s, rows)

\* predict_export_transition: columns leave the frame one by one, each held twice while it is built.
PredictExport(cols, rows) ==
  LET bytes(j) == ColumnPhysicalBytes(cols[j], rows)
      total == SumOf(bytes, Len(cols))
  IN Max({total} \cup {total + bytes(j) : j \in DOMAIN cols})

Predict(rows, steps) ==
  LET cols == SourceColumns(rows)
      live == ColumnPhysicalSum(cols, rows)
      end == FoldLeft(LAMBDA st, s : PredictStep(st, s, rows), [cols |-> cols, live |-> live, peak |-> live], steps)
  IN Larger(end.peak, PredictExport(end.cols, rows))

\* The binary search of largest_feasible_k and of max_prefix; `fitting' are the sizes that fit.
RECURSIVE SearchLast(_, _, _)
SearchLast(low, high, fitting) ==
  IF low >= high THEN low
  ELSE LET mid == low + (high - low + 1) \div 2
       IN IF mid \in fitting THEN SearchLast(mid, high, fitting) ELSE SearchLast(low, mid - 1, fitting)

Slice(offset, k) == SubSeq(ceInput, offset + 1, offset + k)

LargestFeasible(offset) ==
  LET left == Len(ceInput) - offset
  IN SearchLast(1, left, {k \in 1 .. left : Predict(Slice(offset, k), ceSteps) <= MaxBatchBytes})

-----------------------------------------------------------------------------
(* Polars: what the steps make of the cells, and the size of a frame.      *)

LowerRow(row, s) ==
  CASE s.kind = "trim" -> [row EXCEPT !.t = IF @ > 0 THEN @ - 1 ELSE @]
    [] s.kind = "replace" -> [row EXCEPT !.t = IF @ = s.from THEN s.width ELSE @]
    [] s.kind = "nullify" -> [row EXCEPT !.t = IF @ = s.from THEN NullChunkCell ELSE @]
    [] s.kind = "fill" -> [row EXCEPT !.t = IF @ = NullChunkCell THEN s.width ELSE @]
    [] s.kind = "cast" -> [row EXCEPT !.n = IF @ = NullChunkCell THEN @ ELSE IntWidth]
    [] s.kind = "drop" -> [c \in DOMAIN row \ {"t"} |-> row[c]]
    [] s.kind = "derive" ->
         LET e == s.expression
             value == CASE e.op = "literal" -> e.width
                        [] e.op \in {"column", "recast"} -> row.t
                        [] e.op = "coalesce" -> IF row.t = NullChunkCell THEN e.width ELSE row.t
                        [] e.op = "conditional" -> IF row.n = NullChunkCell THEN row.t ELSE NullChunkCell
         IN [c \in DOMAIN row \cup {s.id} |-> IF c = s.id THEN value ELSE row[c]]
    [] OTHER -> row

LowerRows(rows, steps) ==
  FoldLeft(LAMBDA acc, s : IF s.kind = "filter" THEN SelectSeq(acc, LAMBDA row : row.t # NullChunkCell)
                           ELSE [k \in DOMAIN acc |-> LowerRow(acc[k], s)],
           rows, steps)

\* The columns of the result, and which of them are text.
OutColumns(steps) ==
  {"n"} \cup (IF \E k \in DOMAIN steps : steps[k].kind = "drop" THEN {} ELSE {"t"})
        \cup {steps[k].id : k \in {j \in DOMAIN steps : steps[j].kind = "derive"}}
IsText(steps, c) == c # "n" \/ \E k \in DOMAIN steps : steps[k].kind = "cast"

\* estimated_size of a lowered frame, and the Arrow bytes of its export.
FrameBytes(rows, steps) ==
  FoldSet(LAMBDA c, acc : acc + (IF IsText(steps, c) THEN DataBytes(rows, c) + Len(rows) * ViewSlot
                                 ELSE Len(rows) * Slot) + BitBytes(Len(rows)), 0, OutColumns(steps))
ArrowBytes(rows, steps) ==
  FoldSet(LAMBDA c, acc : acc + (IF IsText(steps, c) THEN DataBytes(rows, c) + (Len(rows) + 1) * OffsetSlot
                                 ELSE Len(rows) * Slot) + BitBytes(Len(rows)), 0, OutColumns(steps))

-----------------------------------------------------------------------------
(* remainder.rs: a sink per column.  Capacities grow exactly to what is    *)
(* needed; the validity bitmap exists only from the first null on.         *)

EmptySink == [cells |-> <<>>, slots |-> 0, data |-> 0,
              leading |-> 0, hasNull |-> FALSE, bits |-> <<>>, bitCap |-> 0]

SinkRows(sink) == IF sink.hasNull THEN Len(sink.bits) ELSE sink.leading

PrefixHasNull(cells) == \E k \in DOMAIN cells : cells[k] = NullChunkCell
ChunkCellBytes(cells) == SumOf(LAMBDA k : Width(cells[k]), Len(cells))

\* The validity bitmap after an append: none while no null was seen.
ValidityAfterAppend(sink, cells) ==
  IF ~sink.hasNull /\ ~PrefixHasNull(cells) THEN 0
  ELSE Larger(sink.bitCap, BitBytes(SinkRows(sink) + Len(cells)))

FixedAfterAppend(sink, cells) == Larger(sink.slots, Len(sink.cells) + Len(cells)) * Slot

TextAfterAppend(sink, cells) ==
  Larger(sink.slots, Len(sink.cells) + 1 + Len(cells)) * OffsetSlot
    + Larger(sink.data, ChunkCellBytes(sink.cells) + ChunkCellBytes(cells))

ExactAfterAppend(sink, text, cells) ==
  ValidityAfterAppend(sink, cells)
    + (IF text THEN TextAfterAppend(sink, cells) ELSE FixedAfterAppend(sink, cells))

\* allocated_capacity_bytes, and exact_array_bytes of the arrays a flush would build.
FixedCapacity(sink) == sink.slots * Slot + sink.bitCap
TextCapacity(sink) == Larger(sink.slots, 1) * OffsetSlot + sink.data + sink.bitCap
CapacityBytes(sink, text) == IF text THEN TextCapacity(sink) ELSE FixedCapacity(sink)

\* Mutant: the bitmap starts at the first null and forgets the valid rows before it.
MaterializeLate(sink, total) == [sink EXCEPT !.hasNull = TRUE, !.bits = <<>>, !.bitCap = BitBytes(total)]

\* materialize: a bit for every valid row before the first null.
Materialize(sink, total) ==
  [sink EXCEPT !.hasNull = TRUE, !.bits = [k \in 1 .. sink.leading |-> TRUE], !.bitCap = BitBytes(total)]

\* prepare_append of the validity sink, and append_bit for every cell.
PrepareValidity(sink, cells) ==
  LET total == SinkRows(sink) + Len(cells)
  IN IF sink.hasNull THEN [sink EXCEPT !.bitCap = Larger(@, BitBytes(total))]
     ELSE IF PrefixHasNull(cells) THEN Materialize(sink, total)
     ELSE [sink EXCEPT !.leading = @ + Len(cells)]
AppendBits(sink, cells) ==
  IF sink.hasNull THEN [sink EXCEPT !.bits = @ \o [k \in DOMAIN cells |-> cells[k] # NullChunkCell]] ELSE sink

AppendFixed(sink, cells) ==
  [sink EXCEPT !.cells = @ \o cells, !.slots = Larger(@, Len(sink.cells) + Len(cells))]

AppendText(sink, cells) ==
  [sink EXCEPT !.cells = @ \o cells,
               !.slots = Larger(@, Len(sink.cells) + Len(cells) + 1),
               !.data = Larger(@, ChunkCellBytes(sink.cells \o cells))]

AppendCells(sink, text, cells) ==
  LET ready == AppendBits(PrepareValidity(sink, cells), cells)
  IN IF text THEN AppendText(ready, cells) ELSE AppendFixed(ready, cells)

CellsOf(rows, c) == [k \in DOMAIN rows |-> rows[k][c]]
Buffered == Len(ceSinks["n"].cells)
TotalBytes(bytes(_)) == FoldSet(LAMBDA c, acc : acc + bytes(c), 0, OutColumns(ceSteps))
RemainderBytes == TotalBytes(LAMBDA c : CapacityBytes(ceSinks[c], IsText(ceSteps, c)))

ExactBytesAfterAppend(k) ==
  TotalBytes(LAMBDA c : ExactAfterAppend(ceSinks[c], IsText(ceSteps, c), CellsOf(SubSeq(ceIncoming, 1, k), c)))

\* max_prefix.
MaxPrefix ==
  LET room == Min({Len(ceIncoming), PackLimit - Buffered})
  IN SearchLast(0, room, {k \in 0 .. room : ExactBytesAfterAppend(k) <= MaxBatchBytes})

\* realloc_transient_peak: sinks grow one after the other, each holding its old and its new buffers.
GrownSinks(k) == [c \in OutColumns(ceSteps) |->
  AppendCells(ceSinks[c], IsText(ceSteps, c), CellsOf(SubSeq(ceIncoming, 1, k), c))]
TransientPeak(k) ==
  LET old(c) == CapacityBytes(ceSinks[c], IsText(ceSteps, c))
      new(c) == CapacityBytes(GrownSinks(k)[c], IsText(ceSteps, c))
  IN Max({TotalBytes(LAMBDA c : IF c = d THEN old(c) + new(c) ELSE Larger(old(c), new(c))) : d \in OutColumns(ceSteps)})

\* pre_check_realloc_peak: three payloads is what the engine may hold.
PeakExceeded(k) == ArrowBytes(ceInput, <<>>) + ceWorking + TransientPeak(k) > 3 * MaxBatchBytes

-----------------------------------------------------------------------------
(* engine.rs consume_envelope over one envelope.                           *)

CeInit ==
  /\ ceInput \in {taken \in ChunkInputs : ArrowBytes(taken, <<>>) <= MaxBatchBytes}
  /\ ceSteps \in ChunkPrograms
  /\ ceOffset = 0 /\ ceChunk = [at |-> 0, size |-> 0] /\ ceStage = "chunk" /\ ceReason = "none"
  /\ ceIncoming = <<>> /\ ceWorking = 0 /\ ceOut = <<>>
  /\ ceSinks = [c \in OutColumns(ceSteps) |-> EmptySink]

ChunkFails(reason) ==
  /\ ceStage' = "failed" /\ ceReason' = reason
  /\ UNCHANGED <<ceInput, ceSteps, ceOffset, ceChunk, ceIncoming, ceWorking, ceSinks, ceOut>>

\* One chunk: predicted, sliced, lowered; a frame beyond the bound is an internal error.
TakeChunk ==
  /\ ceStage = "chunk"
  /\ ceOffset < Len(ceInput)
  /\ IF Predict(Slice(ceOffset, 1), ceSteps) > MaxBatchBytes THEN ChunkFails("row")
     ELSE LET k == LargestFeasible(ceOffset)
              lowered == LowerRows(Slice(ceOffset, k), ceSteps)
          IN IF FrameBytes(lowered, ceSteps) > MaxBatchBytes THEN ChunkFails("internal")
             ELSE IF ArrowBytes(lowered, ceSteps) > MaxBatchBytes THEN ChunkFails("incoming")
             ELSE /\ ceIncoming' = lowered
                  /\ ceWorking' = ArrowBytes(lowered, ceSteps)
                  /\ ceOffset' = ceOffset + k
                  /\ ceChunk' = [at |-> ceOffset, size |-> k]
                  /\ ceStage' = "push"
                  /\ UNCHANGED <<ceInput, ceSteps, ceReason, ceSinks, ceOut>>

\* The validity buffer an array gets: none when no null was seen.
FinishValidity(sink) == IF sink.hasNull THEN sink.bits ELSE <<>>

\* flush: the sinks' arrays become the next envelope, and the sinks are empty.
FlushSinks(sinks) ==
  LET rows == [k \in DOMAIN sinks["n"].cells |-> [c \in DOMAIN sinks |-> sinks[c].cells[k]]]
      bytes == FoldSet(LAMBDA c, acc : acc + CapacityBytes(sinks[c], IsText(ceSteps, c)), 0, DOMAIN sinks)
      nulls == [c \in DOMAIN sinks |-> FinishValidity(sinks[c])]
  IN /\ ceOut' = Append(ceOut, [sequence |-> Len(ceOut), rows |-> rows, bytes |-> bytes, nulls |-> nulls])
     /\ ceSinks' = [c \in DOMAIN sinks |-> EmptySink]

\* One round of push: the longest prefix that fits, or a flush to make room for it.
PushPrefix ==
  /\ ceStage = "push"
  /\ ceIncoming # <<>>
  /\ LET k == MaxPrefix
         grown == GrownSinks(k)
         full == \/ Buffered + k >= PackLimit
                 \/ FoldSet(LAMBDA c, acc : acc + CapacityBytes(grown[c], IsText(ceSteps, c)), 0, DOMAIN grown)
                      >= MaxBatchBytes
     IN IF k = 0
          THEN IF Buffered = 0 THEN ChunkFails("row")
               ELSE FlushSinks(ceSinks) /\ UNCHANGED <<ceInput, ceSteps, ceOffset, ceChunk, ceStage, ceReason, ceIncoming, ceWorking>>
        ELSE IF PeakExceeded(k) THEN ChunkFails("peak")
        ELSE /\ ceIncoming' = SubSeq(ceIncoming, k + 1, Len(ceIncoming))
             /\ IF full THEN FlushSinks(grown) ELSE ceSinks' = grown /\ UNCHANGED ceOut
             /\ UNCHANGED <<ceInput, ceSteps, ceOffset, ceChunk, ceStage, ceReason, ceWorking>>

\* drop_incoming: the next chunk.
EndPush ==
  /\ ceStage = "push"
  /\ ceIncoming = <<>>
  /\ ceStage' = "chunk" /\ ceWorking' = 0
  /\ UNCHANGED <<ceInput, ceSteps, ceOffset, ceChunk, ceReason, ceIncoming, ceSinks, ceOut>>

\* The rebatcher's finish: what is left becomes the last envelope.
FinishBatches ==
  /\ ceStage = "chunk"
  /\ ceOffset = Len(ceInput)
  /\ ceStage' = "done"
  /\ IF Buffered > 0 THEN FlushSinks(ceSinks) ELSE UNCHANGED <<ceSinks, ceOut>>
  /\ UNCHANGED <<ceInput, ceSteps, ceOffset, ceChunk, ceReason, ceIncoming, ceWorking>>

CeNext == TakeChunk \/ PushPrefix \/ EndPush \/ FinishBatches

CeSpec == CeInit /\ [][CeNext]_ceVars

-----------------------------------------------------------------------------
(* Properties.                                                             *)

Underestimated ==
  \E k \in DOMAIN ceSteps : ceSteps[k].kind = "derive" /\ ceSteps[k].expression.op \in {"conditional", "recast"}

BufferedRows == [k \in 1 .. Buffered |-> [c \in DOMAIN ceSinks |-> ceSinks[c].cells[k]]]

\* Chunking and rebatching neither lose, repeat nor reorder rows, whatever sizes they choose.
RowsKept ==
  FlattenSeq([k \in DOMAIN ceOut |-> ceOut[k].rows]) \o BufferedRows \o ceIncoming
    = LowerRows(Slice(0, ceOffset), ceSteps)

\* Every published envelope is numbered in order, not empty, within both bounds, and its validity
\* bitmaps say of every row whether it is null.
EnvelopesSound ==
  \A k \in DOMAIN ceOut :
    LET out == ceOut[k]
    IN /\ out.sequence = k - 1
       /\ Len(out.rows) \in 1 .. PackLimit
       /\ out.bytes <= MaxBatchBytes
       /\ \A c \in DOMAIN out.nulls :
            LET null == {r \in DOMAIN out.rows : out.rows[r][c] = NullChunkCell}
            IN IF out.nulls[c] = <<>> THEN null = {}
               ELSE out.nulls[c] = [r \in DOMAIN out.rows |-> r \notin null]

\* A chunk is as large as its prediction allows; a run fails only for a row that is too large by
\* itself, or where the prediction is known to be too low; and since a chunk's export was predicted
\* to fit twice, growing the sinks never takes the engine beyond three payloads.
ChunksMaximal ==
  /\ ceChunk.size > 0 =>
       /\ Predict(Slice(ceChunk.at, ceChunk.size), ceSteps) <= MaxBatchBytes
       /\ ceChunk.at + ceChunk.size < Len(ceInput) =>
            Predict(Slice(ceChunk.at, ceChunk.size + 1), ceSteps) > MaxBatchBytes
  /\ ceStage = "failed" =>
       CASE ceReason = "row" -> Predict(Slice(ceOffset, 1), ceSteps) > MaxBatchBytes
         [] OTHER -> ceReason # "peak" /\ Underestimated

ChunksExact == RowsKept /\ EnvelopesSound /\ ChunksMaximal

\* The prediction is an upper bound: no lowered chunk is larger than what was predicted to fit.
PredictionBounds == ceReason # "internal"
=============================================================================
