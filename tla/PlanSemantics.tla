--------------------------- MODULE PlanSemantics ---------------------------
(***************************************************************************)
(* What the steps of a plan mean: node configs, expression typing, the     *)
(* effect of a rule on the schema as the compiler sees it (stillflow-plan  *)
(* semantics.rs) and as the engine's preflight recomputes it               *)
(* (incremental.rs), and what the engine's lowering does to rows           *)
(* (lower.rs, ffi.rs).                                                     *)
(*                                                                         *)
(* A schema is a sequence of fields [id, name, type, nullable].  Types are *)
(* "int" and "small" (Int64 and Int32), "text", "bool", "list" (any type   *)
(* whose execution is paused) and "void", the type of the null literal.    *)
(* Values are strings: "7" is a text, "i7" an integer, "i9" an integer     *)
(* that Int32 cannot hold, "null" the absence of a value.  An expression   *)
(* is a tuple headed by its operator.                                      *)
(***************************************************************************)
EXTENDS Naturals, Sequences, FiniteSets, FiniteSetsExt, SequencesExt

CONSTANTS
  Columns,        \* column ids
  Names,          \* column names
  Expressions     \* the expressions filters and derived columns may hold

NoValue == "null"
IntValues == {"i0", "i7", "i9"}
TextValues == {"", "x", " x", "0", "7", "9"}
BoolValues == {"true", "false"}
Scalars == IntValues \cup TextValues \cup BoolValues \cup {NoValue}
Types == {"int", "small", "text", "bool", "list"}

-----------------------------------------------------------------------------
(* Node configs, one set per definition.                                   *)

SelectConfigs == [kind : {"select"}, columns : BoundedSeq(Columns, Cardinality(Columns))]
FilterConfigs == [kind : {"filter"}, predicate : Expressions]
RenameConfigs == [kind : {"rename"}, column : Columns, to : Names]
TrimConfigs == [kind : {"trim"}, column : Columns]
NormalizeConfigs == [kind : {"normalize"}, column : Columns]
CastConfigs == [kind : {"cast"}, column : Columns, type : Types, onFailure : {"error", "setNull"}]
ReplaceConfigs == [kind : {"replace"}, column : Columns, from : Scalars, to : Scalars]
FillConfigs == [kind : {"fill"}, column : Columns, value : Scalars]
DropConfigs == [kind : {"drop"}, column : Columns]
DeriveConfigs == [kind : {"derive"}, id : Columns, name : Names, type : Types,
                  nullable : BOOLEAN, expression : Expressions]
SortConfigs == [kind : {"sort"}, column : Columns, descending : BOOLEAN, nullsFirst : BOOLEAN]

\* A config its definition parses; select's columns and sort's keys are distinct and not empty.
ConfigValid(step) ==
  \/ step \in SelectConfigs /\ step.columns # <<>> /\ IsInjective(step.columns)
  \/ step \in FilterConfigs
  \/ step \in RenameConfigs
  \/ step \in TrimConfigs
  \/ step \in NormalizeConfigs
  \/ step \in CastConfigs
  \/ step \in ReplaceConfigs
  \/ step \in FillConfigs
  \/ step \in DropConfigs
  \/ step \in DeriveConfigs
  \/ step \in SortConfigs

-----------------------------------------------------------------------------
(* Schemas and types.                                                      *)

Ids(schema) == {schema[k].id : k \in DOMAIN schema}
FieldOf(schema, c) == schema[CHOOSE k \in DOMAIN schema : schema[k].id = c]
NamesOf(schema) == {schema[k].name : k \in DOMAIN schema}

\* LogicalSchema::validate: names and ids are unique.
SchemaValid(schema) ==
  /\ Cardinality(Ids(schema)) = Len(schema)
  /\ Cardinality(NamesOf(schema)) = Len(schema)

\* The schema with field c changed by the function `change', applied to the field.
WithField(schema, c, change(_)) ==
  [k \in DOMAIN schema |-> IF schema[k].id = c THEN change(schema[k]) ELSE schema[k]]

Without(schema, c) == SelectSeq(schema, LAMBDA f : f.id # c)

\* LogicalType::least_upper_bound: equal types, null with anything, the wider integer; else none.
LeastUpperBound(t, u) ==
  CASE t = u -> t
    [] t = "void" -> u
    [] u = "void" -> t
    [] {t, u} = {"int", "small"} -> "int"
    [] OTHER -> "none"

\* capability::reject_paused_type.
Executable(t) == t # "list"

\* is_sortable_type, and the types an ordered comparison admits.
Ordered(t) == t \in {"int", "small"}

LiteralType(v) ==
  CASE v = NoValue -> "void"
    [] v \in IntValues -> "int"
    [] v \in TextValues -> "text"
    [] v \in BoolValues -> "bool"

\* validate_literal_for_column: null fits every column, an Int64 literal every integer column.
LiteralFits(t, v) ==
  \/ v = NoValue
  \/ LiteralType(v) = t
  \/ v \in IntValues /\ t = "small"

-----------------------------------------------------------------------------
(* infer_expr: the type and nullability of an expression.                  *)

Typed(t, n) == [ok |-> TRUE, type |-> t, nullable |-> n]
Untyped == [ok |-> FALSE, type |-> "none", nullable |-> FALSE]

InferComparison(op, l, r) ==
  LET joined == LeastUpperBound(l.type, r.type)
  IN IF joined # "none" /\ Executable(joined) /\ (op = "lt" => Ordered(joined))
       THEN Typed("bool", l.nullable \/ r.nullable)
       ELSE Untyped

InferLogical(l, r) ==
  IF l.type = "bool" /\ r.type = "bool" THEN Typed("bool", l.nullable \/ r.nullable) ELSE Untyped

InferContains(l, r) ==
  IF {l.type, r.type} \subseteq {"text", "void"}
    THEN Typed("bool", l.nullable \/ r.nullable)
    ELSE Untyped

InferConditional(p, l, r) ==
  IF p.type = "bool" /\ (l.type = r.type \/ "void" \in {l.type, r.type})
    THEN Typed(IF l.type = "void" THEN r.type ELSE l.type, l.nullable \/ r.nullable)
    ELSE Untyped

\* Mutant: a coalesce is never null.
InferCoalesceNarrow(l, r) ==
  LET joined == LeastUpperBound(l.type, r.type)
  IN IF joined # "none" /\ Executable(joined) THEN Typed(joined, FALSE) ELSE Untyped

\* A coalesce is null only if every arm may be.
InferCoalesce(l, r) ==
  LET joined == LeastUpperBound(l.type, r.type)
  IN IF joined # "none" /\ Executable(joined) THEN Typed(joined, l.nullable /\ r.nullable) ELSE Untyped

InferCast(inner, t) == IF Executable(t) THEN Typed(t, inner.nullable) ELSE Untyped

RECURSIVE InferExpr(_, _)
InferExpr(e, schema) ==
  CASE e[1] = "col" -> IF e[2] \in Ids(schema) /\ Executable(FieldOf(schema, e[2]).type)
                         THEN Typed(FieldOf(schema, e[2]).type, FieldOf(schema, e[2]).nullable)
                         ELSE Untyped
    [] e[1] = "lit" -> Typed(LiteralType(e[2]), e[2] = NoValue)
    [] e[1] = "negate" -> Untyped
    [] e[1] \in {"not", "isnull", "cast"} ->
         LET inner == InferExpr(e[2], schema)
         IN IF ~inner.ok THEN Untyped
            ELSE IF e[1] = "not" THEN IF inner.type = "bool" THEN inner ELSE Untyped
            ELSE IF e[1] = "isnull" THEN Typed("bool", FALSE)
            ELSE InferCast(inner, e[3])
    [] e[1] \in {"eq", "lt", "and", "contains", "coalesce"} ->
         LET l == InferExpr(e[2], schema)
             r == InferExpr(e[3], schema)
         IN IF ~l.ok \/ ~r.ok THEN Untyped
            ELSE (CASE e[1] \in {"eq", "lt"} -> InferComparison(e[1], l, r)
                    [] e[1] = "and" -> InferLogical(l, r)
                    [] e[1] = "contains" -> InferContains(l, r)
                    [] e[1] = "coalesce" -> InferCoalesce(l, r))
    [] e[1] = "if" ->
         LET p == InferExpr(e[2], schema)
             l == InferExpr(e[3], schema)
             r == InferExpr(e[4], schema)
         IN IF p.ok /\ l.ok /\ r.ok THEN InferConditional(p, l, r) ELSE Untyped

\* The columns an expression reads.
RECURSIVE Reads(_)
Reads(e) ==
  CASE e[1] = "col" -> {e[2]}
    [] e[1] = "lit" -> {}
    [] e[1] \in {"not", "isnull", "negate", "cast"} -> Reads(e[2])
    [] OTHER -> UNION {Reads(e[k]) : k \in 2 .. Len(e)}

\* reject_paused_capability: checked arithmetic is refused wherever it appears.
RECURSIVE Admitted(_)
Admitted(e) ==
  CASE e[1] \in {"col", "lit"} -> TRUE
    [] e[1] = "negate" -> FALSE
    [] e[1] = "cast" -> Executable(e[3]) /\ Admitted(e[2])
    [] e[1] \in {"not", "isnull"} -> Admitted(e[2])
    [] OTHER -> \A k \in 2 .. Len(e) : Admitted(e[k])

-----------------------------------------------------------------------------
(* rule_effect and project_effect: the schema after a step, for the        *)
(* compiler.  Refused is the empty schema, which no step yields.           *)

Refused == <<>>

Rebuild(schema) == IF SchemaValid(schema) THEN schema ELSE Refused

ProjectEffect(schema, columns) ==
  IF columns # <<>> /\ IsInjective(columns) /\ Range(columns) \subseteq Ids(schema)
    THEN Rebuild([k \in DOMAIN columns |-> FieldOf(schema, columns[k])])
    ELSE Refused

RenameEffect(schema, s) == Rebuild(WithField(schema, s.column, LAMBDA f : [f EXCEPT !.name = s.to]))

TextEffect(schema, s) == IF FieldOf(schema, s.column).type = "text" THEN schema ELSE Refused

CastEffect(schema, s) ==
  IF Executable(s.type)
    THEN Rebuild(WithField(schema, s.column,
           LAMBDA f : [f EXCEPT !.type = s.type, !.nullable = @ \/ s.onFailure = "setNull"]))
    ELSE Refused

ReplaceEffect(schema, s) ==
  LET t == FieldOf(schema, s.column).type
  IN IF LiteralFits(t, s.from) /\ LiteralFits(t, s.to)
       THEN Rebuild(WithField(schema, s.column, LAMBDA f : [f EXCEPT !.nullable = @ \/ s.to = NoValue]))
       ELSE Refused

FillEffect(schema, s) ==
  IF s.value # NoValue /\ LiteralFits(FieldOf(schema, s.column).type, s.value)
    THEN Rebuild(WithField(schema, s.column, LAMBDA f : [f EXCEPT !.nullable = FALSE]))
    ELSE Refused

DropEffect(schema, s) == IF Len(schema) > 1 THEN Rebuild(Without(schema, s.column)) ELSE Refused

DeriveEffect(schema, s) ==
  LET analysis == InferExpr(s.expression, schema)
  IN IF /\ analysis.ok
        /\ Executable(s.type)
        /\ analysis.type \in {"void", s.type}
        /\ s.id \notin Ids(schema)
        /\ s.name \notin NamesOf(schema)
        /\ s.nullable \/ ~analysis.nullable
       THEN Rebuild(Append(schema, [id |-> s.id, name |-> s.name, type |-> s.type, nullable |-> s.nullable]))
       ELSE Refused

\* compile_transform: the next working schema, or Refused.
CompileTransform(schema, s) ==
  IF s.kind \notin {"select", "filter", "derive"} /\ s.column \notin Ids(schema) THEN Refused
  ELSE CASE s.kind = "select" -> ProjectEffect(schema, s.columns)
         [] s.kind = "filter" -> LET a == InferExpr(s.predicate, schema)
                                 IN IF a.ok /\ a.type = "bool" THEN schema ELSE Refused
         [] s.kind = "rename" -> RenameEffect(schema, s)
         [] s.kind \in {"trim", "normalize"} -> TextEffect(schema, s)
         [] s.kind = "cast" -> CastEffect(schema, s)
         [] s.kind = "replace" -> ReplaceEffect(schema, s)
         [] s.kind = "fill" -> FillEffect(schema, s)
         [] s.kind = "drop" -> DropEffect(schema, s)
         [] s.kind = "derive" -> DeriveEffect(schema, s)
         [] s.kind = "sort" -> IF Ordered(FieldOf(schema, s.column).type) THEN schema ELSE Refused

-----------------------------------------------------------------------------
(* The engine's preflight computes the schema again: IncrementalSchema     *)
(* edits one schema in place and never rebuilds it.                        *)

ApplyRename(schema, s) ==
  IF \E k \in DOMAIN schema : schema[k].id # s.column /\ schema[k].name = s.to
    THEN Refused
    ELSE WithField(schema, s.column, LAMBDA f : [f EXCEPT !.name = s.to])

ApplyDrop(schema, s) == IF Len(schema) <= 1 THEN Refused ELSE Without(schema, s.column)

\* Mutant: a cast keeps the column's nullability.
ApplyCastKept(schema, s) ==
  IF ~Executable(s.type) THEN Refused
  ELSE WithField(schema, s.column, LAMBDA f : [f EXCEPT !.type = s.type])

ApplyCast(schema, s) ==
  IF ~Executable(s.type) THEN Refused
  ELSE WithField(schema, s.column,
         LAMBDA f : [f EXCEPT !.type = s.type, !.nullable = IF s.onFailure = "setNull" THEN TRUE ELSE @])

ApplyLiteralRule(schema, s) ==
  LET t == FieldOf(schema, s.column).type
  IN IF s.kind = "fill"
       THEN IF s.value = NoValue \/ ~LiteralFits(t, s.value) THEN Refused
            ELSE WithField(schema, s.column, LAMBDA f : [f EXCEPT !.nullable = FALSE])
       ELSE IF ~LiteralFits(t, s.from) \/ ~LiteralFits(t, s.to) THEN Refused
            ELSE IF s.to = NoValue THEN WithField(schema, s.column, LAMBDA f : [f EXCEPT !.nullable = TRUE])
            ELSE schema

ApplyDerive(schema, s) ==
  LET inferred == InferExpr(s.expression, schema)
  IN IF \/ ~inferred.ok
        \/ ~Executable(s.type)
        \/ inferred.type # "void" /\ inferred.type # s.type
        \/ s.id \in Ids(schema) \/ s.name \in NamesOf(schema)
        \/ ~s.nullable /\ inferred.nullable
       THEN Refused
       ELSE Append(schema, [id |-> s.id, name |-> s.name, type |-> s.type, nullable |-> s.nullable])

\* propagate_schema: one compiled step; a sort is not looked at.
ApplyStep(schema, s) ==
  CASE s.kind = "sort" -> schema
    [] s.kind = "select" -> IF Range(s.columns) \subseteq Ids(schema) /\ IsInjective(s.columns)
                              THEN [k \in DOMAIN s.columns |-> FieldOf(schema, s.columns[k])]
                              ELSE Refused
    [] s.kind = "filter" -> LET a == InferExpr(s.predicate, schema)
                            IN IF a.ok /\ a.type = "bool" THEN schema ELSE Refused
    [] s.kind = "derive" -> ApplyDerive(schema, s)
    [] OTHER ->
         IF s.column \notin Ids(schema) THEN Refused
         ELSE CASE s.kind = "rename" -> ApplyRename(schema, s)
                [] s.kind = "drop" -> ApplyDrop(schema, s)
                [] s.kind \in {"trim", "normalize"} ->
                     IF FieldOf(schema, s.column).type = "text" THEN schema ELSE Refused
                [] s.kind = "cast" -> ApplyCast(schema, s)
                [] s.kind \in {"replace", "fill"} -> ApplyLiteralRule(schema, s)

\* The whole chain, each step on the schema the previous one left.
Through(step(_, _), schema, program) ==
  FoldLeft(LAMBDA acc, s : IF acc = Refused THEN Refused ELSE step(acc, s), schema, program)
=============================================================================
