--------------------------- MODULE MCPlanPipeline ---------------------------
(* Model-checking instance of PlanPipeline: two source schemas, a few rows   *)
(* with nulls and blanks, and a repertoire in which every step occurs, valid *)
(* and invalid.                                                              *)
EXTENDS PlanPipeline

Col(c) == <<"col", c>>
Lit(v) == <<"lit", v>>

MCField(i, n, t, u) == [id |-> i, name |-> n, type |-> t, nullable |-> u]
MCWide == <<MCField("a", "A", "int", TRUE), MCField("b", "B", "text", TRUE)>>
MCNestedSchema == <<MCField("a", "A", "int", FALSE), MCField("b", "B", "list", TRUE)>>
MCSchemas == {MCWide, MCNestedSchema}
MCRow(x, y) == [c \in {"a", "b"} |-> IF c = "a" THEN x ELSE y]
MCSourceRows ==
    MCWide :> {<<MCRow("i9", " x"), MCRow("null", "7"), MCRow("i7", "null")>>, <<MCRow("i7", "x"), MCRow("i0", "x")>>, <<>>}
    @@ MCNestedSchema :> {<<MCRow("i0", "x")>>}

MCFilter(p) == [kind |-> "filter", predicate |-> p]
MCCast(c, t, f) == [kind |-> "cast", column |-> c, type |-> t, onFailure |-> f]
MCReplace(c, from, to) == [kind |-> "replace", column |-> c, from |-> from, to |-> to]
MCDerive(t, u, e) == [kind |-> "derive", id |-> "c", name |-> "C", type |-> t, nullable |-> u, expression |-> e]

MCRepertoire ==
    {[kind |-> "select", columns |-> s] : s \in {<<"b", "a">>, <<"a">>}}
    \cup {MCFilter(p) : p \in {<<"lt", Col("a"), Lit("i7")>>, <<"eq", Col("b"), Lit("x")>>, <<"negate", Col("a")>>,
                               <<"and", <<"isnull", Col("b")>>, <<"lt", Col("a"), Lit("i7")>>>>}}
    \cup {[kind |-> "rename", column |-> "a", to |-> "B"], [kind |-> "rename", column |-> "b", to |-> "C"],
          [kind |-> "trim", column |-> "b"], [kind |-> "normalize", column |-> "c"],
          [kind |-> "fill", column |-> "a", value |-> "i7"], [kind |-> "drop", column |-> "b"],
          [kind |-> "sort", column |-> "a", descending |-> TRUE, nullsFirst |-> FALSE]}
    \cup {MCCast("a", "small", "setNull"), MCCast("b", "int", "error"), MCCast("a", "text", "setNull"),
          MCReplace("b", "x", "null"), MCReplace("c", "x", "7")}
    \cup {MCDerive("int", nullable, <<"coalesce", Col("a"), Col("a")>>) : nullable \in BOOLEAN}
    \cup {MCDerive("text", FALSE, Lit("x")), MCDerive("bool", TRUE, <<"contains", Col("b"), Lit("x")>>),
          MCDerive("text", TRUE, <<"if", <<"not", <<"isnull", Col("b")>>>>, Col("b"), Lit("")>>)}

MCExpressions ==
    {r.predicate : r \in {r \in MCRepertoire : r.kind = "filter"}}
    \cup {r.expression : r \in {r \in MCRepertoire : r.kind = "derive"}}
=============================================================================
