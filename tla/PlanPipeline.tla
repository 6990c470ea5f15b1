---------------------------- MODULE PlanPipeline ----------------------------
(***************************************************************************)
(* A plan from its document to its rows: the compiler types it             *)
(* (node_graph_compiler.rs), the engine's preflight types it again         *)
(* (preflight.rs), and a run reads the source chunk by chunk, lowers every *)
(* chunk (lower.rs, ffi.rs) and appends what it yields; a preview does the *)
(* same up to its row limit and orders its rows when the last step is a    *)
(* sort (preview.rs, sort.rs).                                             *)
(***************************************************************************)
EXTENDS PlanSemantics

CONSTANTS
  SourceSchemas,  \* authorized source schemas
  SourceRows,     \* schema -> set of row sequences; a row is column id -> value
  Repertoire,     \* the steps programs are made of
  MaxSteps,       \* steps of a program
  PreviewRows,    \* row_limit of a preview
  ScanCap         \* PREVIEW_MAX_SOURCE_ROWS_SCANNED

ASSUME PipelineAssumption ==
  /\ {MaxSteps, PreviewRows, ScanCap} \subseteq Nat \ {0}
  /\ \A s \in SourceSchemas : SchemaValid(s)

VARIABLES
  plStage,     \* draft, compiled, running, previewing, ordering, done, refused, failed
  plMode,      \* materialize or preview
  plProgram,   \* the steps
  plSource,    \* the authorized schema
  plRows,      \* the rows of the source
  plRead,      \* rows read so far
  plSchema,    \* the working schema of the compiler, then of the preflight
  plOut,       \* rows written to the snapshot, or shown by the preview
  plSeen,      \* target_rows_seen: rows the preview has lowered
  plEnvelope,  \* the preview's current envelope: rows still to lower, and whether the scan cap cut it
  plFlags      \* visible_prefix_closed, rows_truncated, scan_truncated, source_exhausted

plVars == <<plStage, plMode, plProgram, plSource, plRows, plRead, plSchema, plOut, plSeen,
            plEnvelope, plFlags>>

-----------------------------------------------------------------------------
(* Lowering.                                                               *)

Fail == "fail"

IntOrder == <<"i0", "i7", "i9">>
Digits == <<"0", "7", "9">>
OrderOf(v) == CHOOSE k \in DOMAIN IntOrder : IntOrder[k] = v

\* A strict cast: null stays null, text that is no number and a number too wide fail.
CastValue(v, t) ==
  CASE v = NoValue -> v
    [] t = "text" -> IF v \in IntValues THEN Digits[OrderOf(v)] ELSE v
    [] t \in {"int", "small"} ->
         LET n == IF v \in Range(Digits) THEN IntOrder[CHOOSE k \in DOMAIN Digits : Digits[k] = v] ELSE v
         IN IF n \notin IntValues \/ (t = "small" /\ n = "i9") THEN Fail ELSE n
    [] OTHER -> v

Trimmed(v) == IF v = " x" THEN "x" ELSE v

ContainsText(l, r) == IF r = "" \/ l = r \/ (l = " x" /\ r = "x") THEN "true" ELSE "false"

Truth(b) == IF b THEN "true" ELSE "false"

\* The value of an expression where column c has the value row[c].
RECURSIVE Eval(_, _)
Eval(e, row) ==
  LET arg(k) == Eval(e[k], row)
      strict(v) == IF Fail \in {arg(2), arg(3)} THEN Fail
                   ELSE IF NoValue \in {arg(2), arg(3)} THEN NoValue ELSE v
  IN CASE e[1] = "col" -> row[e[2]]
       [] e[1] = "lit" -> e[2]
       [] e[1] = "not" -> IF arg(2) \in BoolValues THEN Truth(arg(2) = "false") ELSE arg(2)
       [] e[1] = "isnull" -> IF arg(2) = Fail THEN Fail ELSE Truth(arg(2) = NoValue)
       [] e[1] = "cast" -> IF arg(2) = Fail THEN Fail ELSE CastValue(arg(2), e[3])
       [] e[1] = "eq" -> strict(Truth(arg(2) = arg(3)))
       [] e[1] = "lt" -> IF {arg(2), arg(3)} \subseteq IntValues
                           THEN Truth(OrderOf(arg(2)) < OrderOf(arg(3))) ELSE strict("false")
       [] e[1] = "contains" -> strict(ContainsText(arg(2), arg(3)))
       [] e[1] = "and" -> IF Fail \in {arg(2), arg(3)} THEN Fail
                          ELSE IF "false" \in {arg(2), arg(3)} THEN "false"
                          ELSE IF NoValue \in {arg(2), arg(3)} THEN NoValue ELSE "true"
       [] e[1] = "coalesce" -> IF Fail \in {arg(2), arg(3)} THEN Fail
                               ELSE IF arg(2) = NoValue THEN arg(3) ELSE arg(2)
       [] e[1] = "if" -> IF Fail \in {arg(2), arg(3), arg(4)} THEN Fail
                         ELSE IF arg(2) = "true" THEN arg(3) ELSE arg(4)

\* lower_expr types the operands of binary operators and of coalesce again, on the lowering's schema.
RECURSIVE LowerExpr(_, _)
LowerExpr(e, schema) ==
  CASE e[1] = "col" -> e[2] \in Ids(schema)
    [] e[1] = "lit" -> TRUE
    [] e[1] \in {"not", "isnull", "cast"} -> LowerExpr(e[2], schema)
    [] e[1] = "if" -> \A k \in 2 .. 4 : LowerExpr(e[k], schema)
    [] OTHER ->
         LET l == InferExpr(e[2], schema)
             r == InferExpr(e[3], schema)
         IN /\ l.ok /\ r.ok
            /\ LeastUpperBound(l.type, r.type) # "none"
            /\ LowerExpr(e[2], schema) /\ LowerExpr(e[3], schema)

\* transform's state: the frame (rows by column name), the lowering's schema, the deferred literals.
Frame(rows, schema, deferred) == [ok |-> TRUE, rows |-> rows, schema |-> schema, deferred |-> deferred]
Broken == [ok |-> FALSE, rows |-> <<>>, schema |-> <<>>, deferred |-> {}]

NameOf(schema, c) == FieldOf(schema, c).name

\* The row of a frame, seen by column id.
ById(schema, row) == [c \in Ids(schema) |-> row[NameOf(schema, c)]]

\* One column of every row rewritten; any failure fails the frame.
Rewritten(st, name, value(_)) ==
  IF \E k \in DOMAIN st.rows : value(st.rows[k]) = Fail THEN Broken
  ELSE [st EXCEPT !.rows =
         [k \in DOMAIN st.rows |->
            [n \in DOMAIN st.rows[k] \cup {name} |-> IF n = name THEN value(st.rows[k]) ELSE st.rows[k][n]]]]

KeepRows(st, names) ==
  [st EXCEPT !.rows = [k \in DOMAIN @ |-> [n \in names |-> @[k][n]]],
             !.deferred = {d \in @ : d[1] \in names}]

LowerProject(st, s) ==
  IF Range(s.columns) \subseteq Ids(st.schema)
    THEN [KeepRows(st, {NameOf(st.schema, c) : c \in Range(s.columns)})
            EXCEPT !.schema = [k \in DOMAIN s.columns |-> FieldOf(@, s.columns[k])]]
    ELSE Broken

LowerFilter(st, s) ==
  LET holds(row) == Eval(s.predicate, ById(st.schema, row))
  IN IF ~LowerExpr(s.predicate, st.schema) \/ \E k \in DOMAIN st.rows : holds(st.rows[k]) = Fail
       THEN Broken
       ELSE [st EXCEPT !.rows = SelectSeq(@, LAMBDA row : holds(row) = "true")]

LowerRename(st, s) ==
  LET from == NameOf(st.schema, s.column)
      renamed(n) == IF n = from THEN s.to ELSE n
      back(n) == IF n = s.to THEN from ELSE n
  IN [st EXCEPT
        !.rows = [k \in DOMAIN @ |-> [n \in {renamed(m) : m \in DOMAIN @[k]} |-> @[k][back(n)]]],
        !.deferred = {<<renamed(d[1]), d[2]>> : d \in @},
        !.schema = WithField(@, s.column, LAMBDA f : [f EXCEPT !.name = s.to])]

LowerDrop(st, s) ==
  LET name == NameOf(st.schema, s.column)
  IN [KeepRows(st, NamesOf(st.schema) \ {name}) EXCEPT !.schema = Without(@, s.column)]

\* A text literal is not put into the frame: the column is null until export, and the literal waits.
LowerDerive(st, s) ==
  LET deferred == s.expression[1] = "lit" /\ s.type = "text"
      value(row) == IF deferred THEN NoValue ELSE Eval(s.expression, ById(st.schema, row))
      field == [id |-> s.id, name |-> s.name, type |-> s.type, nullable |-> s.nullable]
      derived == Rewritten(st, s.name, value)
  IN IF ~LowerExpr(s.expression, st.schema) \/ ~derived.ok THEN Broken
     ELSE [derived EXCEPT !.schema = Append(@, field),
                          !.deferred = IF deferred THEN @ \cup {<<s.name, s.expression[2]>>} ELSE @]

\* The schema the lowering goes on with keeps the column's old type.
LowerCast(st, s) ==
  LET name == NameOf(st.schema, s.column)
      cast(row) == CastValue(row[name], s.type)
  IN Rewritten(st, name, LAMBDA row : IF cast(row) = Fail /\ s.onFailure = "setNull" THEN NoValue ELSE cast(row))

LowerReplace(st, s) ==
  LET name == NameOf(st.schema, s.column)
  IN Rewritten(st, name, LAMBDA row : IF row[name] = s.from THEN s.to ELSE row[name])

LowerFill(st, s) ==
  LET name == NameOf(st.schema, s.column)
  IN Rewritten(st, name, LAMBDA row : IF row[name] = NoValue THEN s.value ELSE row[name])

\* apply_rule and transform: one step of the chain; a sort leaves the chunk as it is.
LowerStep(st, s) ==
  IF ~st.ok THEN Broken
  ELSE CASE s.kind = "select" -> LowerProject(st, s)
         [] s.kind = "filter" -> LowerFilter(st, s)
         [] s.kind = "rename" -> LowerRename(st, s)
         [] s.kind \in {"trim", "normalize"} ->
              LET name == NameOf(st.schema, s.column)
              IN Rewritten(st, name, LAMBDA row : Trimmed(row[name]))
         [] s.kind = "cast" -> LowerCast(st, s)
         [] s.kind = "replace" -> LowerReplace(st, s)
         [] s.kind = "fill" -> LowerFill(st, s)
         [] s.kind = "drop" -> LowerDrop(st, s)
         [] s.kind = "derive" -> LowerDerive(st, s)
         [] s.kind = "sort" -> st

\* dataframe_to_record_batch: every field by its name, a deferred literal in place of its column; a
\* literal of another type, or a null in a field that has none, fails.
ExportFrame(st, schema) ==
  LET literal(f) == {d[2] : d \in {d \in st.deferred : d[1] = f.name}}
      cell(f, row) == IF literal(f) = {} THEN row[f.name] ELSE CHOOSE v \in literal(f) : TRUE
      bad(f, row) == \/ literal(f) # {} /\ ~LiteralFits(f.type, cell(f, row))
                     \/ cell(f, row) = NoValue /\ ~f.nullable
  IN IF \/ ~st.ok
        \/ \E k \in DOMAIN st.rows, j \in DOMAIN schema : bad(schema[j], st.rows[k])
       THEN Broken
       ELSE [st EXCEPT !.rows = [k \in DOMAIN @ |-> [j \in DOMAIN schema |-> cell(schema[j], @[k])]]]

LowerChunk(rows) ==
  LET frame == [k \in DOMAIN rows |->
                  [n \in NamesOf(plSource) |->
                     rows[k][(CHOOSE f \in Range(plSource) : f.name = n).id]]]
  IN ExportFrame(FoldLeft(LowerStep, Frame(frame, plSource, {}), plProgram), plSchema)

-----------------------------------------------------------------------------
(* sort.rs: one stable ordering of the buffered rows.                      *)

Rank(rows, at, s, i) ==
  LET v(j) == rows[j][at]
      less(j, k) == IF NoValue \in {v(j), v(k)}
                      THEN v(j) # v(k) /\ (s.nullsFirst <=> v(j) = NoValue)
                      ELSE IF s.descending THEN OrderOf(v(k)) < OrderOf(v(j))
                      ELSE OrderOf(v(j)) < OrderOf(v(k))
  IN 1 + Cardinality({j \in DOMAIN rows : less(j, i) \/ (~less(i, j) /\ j < i)})

SortRows(rows, schema, s) ==
  LET at == CHOOSE j \in DOMAIN schema : schema[j].id = s.column
  IN [k \in DOMAIN rows |-> rows[CHOOSE i \in DOMAIN rows : Rank(rows, at, s, i) = k]]

-----------------------------------------------------------------------------
(* The pipeline.                                                           *)

NoEnvelope == [left |-> 0, cut |-> FALSE]
NoFlags == [closed |-> FALSE, rows |-> FALSE, scan |-> FALSE, exhausted |-> FALSE]

PlInit ==
  /\ plStage = "draft"
  /\ plMode \in {"materialize", "preview"}
  /\ plProgram \in BoundedSeq(Repertoire, MaxSteps)
  /\ plSource \in SourceSchemas
  /\ plRows \in SourceRows[plSource]
  /\ plRead = 0 /\ plSchema = plSource /\ plOut = <<>> /\ plSeen = 0
  /\ plEnvelope = NoEnvelope /\ plFlags = NoFlags

\* node_graph_compiler::compile: every config parses, every step types on the schema before it.
CompileProgram ==
  /\ plStage = "draft"
  /\ LET schema == Through(CompileTransform, plSource, plProgram)
     IN IF (\A k \in DOMAIN plProgram : ConfigValid(plProgram[k])) /\ schema # Refused
          THEN plStage' = "compiled" /\ plSchema' = schema
          ELSE plStage' = "refused" /\ plSchema' = plSource
  /\ UNCHANGED <<plMode, plProgram, plSource, plRows, plRead, plOut, plSeen, plEnvelope, plFlags>>

\* reject_paused_schema.
Paused(schema) == \E k \in DOMAIN schema : ~Executable(schema[k].type)

\* sort_step: a preview orders its rows only when the one sort is the last step.
SortLast == plProgram # <<>> /\ Last(plProgram).kind = "sort"
SortMisplaced == \E k \in 1 .. Len(plProgram) - 1 : plProgram[k].kind = "sort"

StepAdmitted(s) ==
  CASE s.kind = "filter" -> Admitted(s.predicate)
    [] s.kind = "derive" -> Executable(s.type) /\ Admitted(s.expression)
    [] s.kind = "cast" -> Executable(s.type)
    [] OTHER -> TRUE

\* What preflight_inner looks at before the schema: expressions and types no engine runs yet.
ProgramAdmitted == \A k \in DOMAIN plProgram : StepAdmitted(plProgram[k])

\* preflight_inner: the authorized schema, then the chain on it; a preview also places its sort.
PreflightProgram ==
  /\ plStage = "compiled"
  /\ LET schema == Through(ApplyStep, plSource, plProgram)
         admitted == ProgramAdmitted /\ ~Paused(plSource) /\ schema # Refused /\ ~Paused(schema)
     IN IF admitted /\ ~(plMode = "preview" /\ SortMisplaced)
          THEN /\ plStage' = IF plMode = "preview" THEN "previewing" ELSE "running"
               /\ plSchema' = schema
          ELSE plStage' = "refused" /\ UNCHANGED plSchema
  /\ UNCHANGED <<plMode, plProgram, plSource, plRows, plRead, plOut, plSeen, plEnvelope, plFlags>>

\* consume_envelope: a chunk of any size the prediction allows; a chunk that fails drops the writer.
RunChunk ==
  /\ plStage = "running"
  /\ \E k \in 1 .. Len(plRows) - plRead :
       LET lowered == LowerChunk(SubSeq(plRows, plRead + 1, plRead + k))
       IN /\ plRead' = plRead + k
          /\ plStage' = IF lowered.ok THEN "running" ELSE "failed"
          /\ plOut' = IF lowered.ok THEN plOut \o lowered.rows ELSE <<>>
  /\ UNCHANGED <<plMode, plProgram, plSource, plRows, plSchema, plSeen, plEnvelope, plFlags>>

\* The source ends: the rebatcher's rest is appended and the snapshot committed.
FinishRun ==
  /\ plStage = "running"
  /\ plRead = Len(plRows)
  /\ plStage' = "done"
  /\ UNCHANGED <<plMode, plProgram, plSource, plRows, plRead, plSchema, plOut, plSeen, plEnvelope, plFlags>>

\* The preview asks the source for an envelope, of which the scan cap may admit only a part.
PollEnvelope ==
  /\ plStage = "previewing"
  /\ plEnvelope.left = 0
  /\ IF plRead = Len(plRows)
       THEN /\ plStage' = "ordering"
            /\ plFlags' = [plFlags EXCEPT !.exhausted = TRUE]
            /\ UNCHANGED plEnvelope
       ELSE /\ \E m \in 1 .. Len(plRows) - plRead :
                 plEnvelope' = [left |-> Min({m, ScanCap - plRead}), cut |-> m > ScanCap - plRead]
            /\ UNCHANGED <<plStage, plFlags>>
  /\ UNCHANGED <<plMode, plProgram, plSource, plRows, plRead, plSchema, plOut, plSeen>>

\* Mutant: the limit is compared with the rows shown, not with the rows seen.
OverLimitShown(seen) == Min({seen, PreviewRows}) > PreviewRows

\* target_rows_seen > row_limit.
OverLimit(seen) == seen > PreviewRows

\* After an envelope: leave at the row limit, where the cap cut it, or at the cap itself, where one
\* more envelope is asked for to tell a truncated scan from an exhausted source.
AfterChunk(flags, read, left) ==
  LET atCap == left = 0 /\ read >= ScanCap
      ended == atCap /\ ~plEnvelope.cut /\ read = Len(plRows)
  IN IF flags.rows \/ ~atCap THEN flags
     ELSE [flags EXCEPT !.scan = ~ended, !.exhausted = ended]

\* One chunk of the envelope: into the sort buffer, into the visible prefix, or only counted.
PreviewChunk ==
  /\ plStage = "previewing"
  /\ \E k \in 1 .. plEnvelope.left :
       LET lowered == LowerChunk(SubSeq(plRows, plRead + 1, plRead + k))
           seen == plSeen + Len(lowered.rows)
           shown == SubSeq(plOut \o lowered.rows, 1, Min({PreviewRows, Len(plOut) + Len(lowered.rows)}))
           cut == ~SortLast /\ OverLimit(seen)
           flags == IF SortLast THEN plFlags
                    ELSE [plFlags EXCEPT !.closed = @ \/ Len(shown) >= PreviewRows, !.rows = cut]
           left == plEnvelope.left - k
           after == AfterChunk(flags, plRead + k, left)
       IN /\ plRead' = plRead + k
          /\ IF ~lowered.ok
               THEN plStage' = "failed" /\ plOut' = <<>> /\ UNCHANGED <<plSeen, plEnvelope, plFlags>>
               ELSE /\ plSeen' = seen
                    /\ plOut' = IF SortLast THEN plOut \o lowered.rows
                                ELSE IF plFlags.closed THEN plOut ELSE shown
                    /\ plFlags' = after
                    /\ plEnvelope' = IF cut THEN NoEnvelope ELSE [plEnvelope EXCEPT !.left = left]
                    /\ plStage' = IF after.rows \/ after.scan \/ after.exhausted THEN "ordering" ELSE plStage
  /\ UNCHANGED <<plMode, plProgram, plSource, plRows, plSchema>>

\* The buffer is ordered once and pushed row by row until the row limit closes the response; a
\* response that is both exhausted and truncated is an internal error.
FinishPreview ==
  /\ plStage = "ordering"
  /\ LET ordered == IF SortLast THEN SortRows(plOut, plSchema, Last(plProgram)) ELSE plOut
         flags == [plFlags EXCEPT !.rows = @ \/ (SortLast /\ Len(ordered) >= PreviewRows)]
     IN /\ plFlags' = flags
        /\ IF flags.exhausted /\ (flags.scan \/ flags.rows)
             THEN plStage' = "failed" /\ plOut' = <<>>
             ELSE plStage' = "done" /\ plOut' = SubSeq(ordered, 1, Min({PreviewRows, Len(ordered)}))
  /\ UNCHANGED <<plMode, plProgram, plSource, plRows, plRead, plSchema, plSeen, plEnvelope>>

PlNext ==
  \/ CompileProgram \/ PreflightProgram
  \/ RunChunk \/ FinishRun
  \/ PollEnvelope \/ PreviewChunk \/ FinishPreview

PlSpec == PlInit /\ [][PlNext]_plVars

-----------------------------------------------------------------------------
(* What a plan means: a row is a function from column ids to values, and   *)
(* every step is applied, in order, to every row.                          *)

RefRow(row, s) ==
  CASE s.kind = "select" -> [c \in Range(s.columns) |-> row[c]]
    [] s.kind = "drop" -> [c \in DOMAIN row \ {s.column} |-> row[c]]
    [] s.kind = "derive" -> (s.id :> Eval(s.expression, row)) @@ row
    [] s.kind = "cast" ->
         LET v == CastValue(row[s.column], s.type)
         IN [row EXCEPT ![s.column] = IF v = Fail /\ s.onFailure = "setNull" THEN NoValue ELSE v]
    [] s.kind \in {"trim", "normalize"} -> [row EXCEPT ![s.column] = Trimmed(@)]
    [] s.kind = "replace" -> [row EXCEPT ![s.column] = IF @ = s.from THEN s.to ELSE @]
    [] s.kind = "fill" -> [row EXCEPT ![s.column] = IF @ = NoValue THEN s.value ELSE @]
    [] OTHER -> row

RefStep(st, s) ==
  LET next == [k \in DOMAIN st.rows |-> RefRow(st.rows[k], s)]
      holds(row) == Eval(s.predicate, row)
      failed == CASE s.kind = "sort" -> FALSE
                  [] s.kind = "filter" -> \E k \in DOMAIN st.rows : holds(st.rows[k]) = Fail
                  [] OTHER -> \E k \in DOMAIN next : Fail \in Range(next[k])
  IN IF ~st.ok \/ failed THEN [ok |-> FALSE, rows |-> <<>>]
     ELSE [ok |-> TRUE, rows |->
            CASE s.kind = "filter" -> SelectSeq(st.rows, LAMBDA row : holds(row) = "true")
              [] s.kind = "sort" -> [k \in DOMAIN st.rows |->
                   st.rows[CHOOSE i \in DOMAIN st.rows : Rank(st.rows, s.column, s, i) = k]]
              [] OTHER -> next]

\* The rows a program makes of the first n rows of the source, laid out as the schema lists them.
Reference(program, n) ==
  LET result == FoldLeft(RefStep, [ok |-> TRUE, rows |-> SubSeq(plRows, 1, n)], program)
  IN [result EXCEPT !.rows = [k \in DOMAIN @ |-> [j \in DOMAIN plSchema |-> @[k][plSchema[j].id]]]]

Unsorted == SelectSeq(plProgram, LAMBDA s : s.kind # "sort")

\* Step s uses the value of column c.
Uses(s, c) ==
  CASE s.kind = "filter" -> c \in Reads(s.predicate)
    [] s.kind = "derive" -> c \in Reads(s.expression)
    [] s.kind \in {"cast", "trim", "normalize", "replace", "fill", "sort"} -> s.column = c
    [] OTHER -> FALSE

\* A derived text literal that a later step uses, and a cast column that a later expression reads.
LiteralUsedLater ==
  \E i, j \in DOMAIN plProgram :
    /\ i < j
    /\ plProgram[i].kind = "derive" /\ plProgram[i].type = "text" /\ plProgram[i].expression[1] = "lit"
    /\ Uses(plProgram[j], plProgram[i].id)
CastReadLater ==
  \E i, j \in DOMAIN plProgram :
    /\ i < j
    /\ plProgram[i].kind = "cast" /\ plProgram[j].kind \in {"filter", "derive"}
    /\ Uses(plProgram[j], plProgram[i].column)

\* The engine's preflight accepts every plan the compiler accepted and computes the same schema; it
\* refuses only a source with a paused type and a preview whose sort is not its last step.
CompileAgrees ==
  LET compiled == Through(CompileTransform, plSource, plProgram)
      accepted == (\A k \in DOMAIN plProgram : ConfigValid(plProgram[k])) /\ compiled # Refused
  IN /\ plStage \notin {"draft", "refused"} => plSchema = compiled
     /\ plStage = "refused" =>
          ~accepted \/ Paused(plSource) \/ (plMode = "preview" /\ SortMisplaced)

\* However the source is cut into chunks, a run publishes the rows the plan means, of the types the
\* schema declares, and fails only where a row of the plan fails.  A derived text literal used later,
\* a cast column read later, and the order a sort asks for are left to the properties below.
RunExact ==
  plMode = "materialize" /\ ~LiteralUsedLater /\ ~CastReadLater =>
    LET reference == Reference(Unsorted, Len(plRows))
    IN /\ plStage = "done" =>
            /\ reference.ok
            /\ plOut = reference.rows
            /\ \A k \in DOMAIN plOut, j \in DOMAIN plSchema :
                 /\ LiteralFits(plSchema[j].type, plOut[k][j])
                 /\ plOut[k][j] = NoValue => plSchema[j].nullable
       /\ plStage = "failed" => ~reference.ok

\* A preview shows the first RowLimit rows of what the plan makes of the rows scanned, says so
\* exactly when there are more, and tells a truncated scan from an exhausted source.  A sorted
\* preview that fills its limit is left out: it may fail.
PreviewExact ==
  plMode = "preview" /\ ~LiteralUsedLater /\ ~CastReadLater =>
    LET reference == Reference(plProgram, plRead)
        more == Len(reference.rows) > PreviewRows
    IN /\ plStage = "done" =>
            /\ reference.ok
            /\ plOut = SubSeq(reference.rows, 1, Min({PreviewRows, Len(reference.rows)}))
            /\ ~SortLast => (plFlags.rows <=> more)
            /\ plFlags.exhausted => plRead = Len(plRows)
            /\ plFlags.scan => plRead = ScanCap /\ plRead < Len(plRows)
            /\ plFlags.rows \/ plFlags.exhausted \/ plFlags.scan
       /\ plStage = "failed" => ~reference.ok \/ (SortLast /\ Len(reference.rows) >= PreviewRows)

PlanSound == CompileAgrees /\ RunExact /\ PreviewExact

\* A rule applied to a derived column sees the value the derivation gave it, a text literal included.
DerivedLiteralKept ==
  plMode = "materialize" /\ plStage = "done" /\ ~CastReadLater =>
    plOut = Reference(Unsorted, Len(plRows)).rows

\* A run whose plan has a sort publishes its rows in the order the sort asks for.
SortedAsPlanned ==
  plMode = "materialize" /\ plStage = "done" /\ ~LiteralUsedLater /\ ~CastReadLater =>
    plOut = Reference(plProgram, Len(plRows)).rows
=============================================================================
