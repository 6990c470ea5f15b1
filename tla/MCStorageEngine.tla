--------------------------- MODULE MCStorageEngine ---------------------------
(* Model-checking instance of the storage root and of the engine and the     *)
(* connectors that read and fill it.  As in MCControlPlane the modules share *)
(* no variable: a behaviour picks one (under) and runs it alone.             *)
EXTENDS ManagedRoot, SourceConnectors, Verification, Profiling, NodeGraph, MCPlanPipeline, ChunkedExecution,
        MCProjectedRows, TabularReading, FloatSummation, ExportEncoding, TLC

CONSTANTS s1, s2, r1, noSnapshot

VARIABLE under    \* the module this behaviour runs

\* Two Snapshots, bundles or exports; a reader; keys of the dedup index.
MCPair == {s1, s2}
MCReaders == {r1}
MCSymmetry == Permutations(MCPair)

\* Verification: texts and floats that only a canonical key tells apart, and four plans.
MCText(s) == <<"Utf8", s>>
MCA == MCText(<<"a">>)
MCB == MCText(<<"b">>)
MCNoText == <<"Utf8">>
MCPredicate(c) ==
    [column |-> c, yes |-> {MCA, MCText(<<"a", "b">>), MCText(<<>>), <<"Float64", "0">>}, unknown |-> {MCNoText}]
MCValidate(c, s) == [op |-> "validate", predicate |-> MCPredicate(c), severity |-> s, message |-> TRUE]
MCSwap(v) == [op |-> "replace", column |-> "x", from |-> MCB, to |-> v]
MCDedup(keys) == [op |-> "dedup", keys |-> keys]
MCKeep(c) == [op |-> "filter", predicate |-> MCPredicate(c)]
MCRules(rules) == [op |-> "rules", rules |-> rules]
MCPlan(scan, y, rejects, nodes) ==
    [scan |-> scan, reserved |-> FALSE, types |-> [x |-> "Utf8", y |-> y], rejects |-> rejects, nodes |-> nodes]
MCPlans ==
    {MCPlan(<<>>, "List", TRUE, <<MCRules(<<MCDedup(<<"x", "y">>)>>)>>),
     MCPlan(<<>>, "Float64", TRUE, <<MCRules(<<MCSwap(MCA), MCValidate("x", "error"), MCDedup(<<"x", "y">>)>>)>>),
     MCPlan(<<MCKeep("y")>>, "Float64", TRUE,
            <<MCRules(<<MCValidate("x", "warning"), MCSwap(MCNoText), MCValidate("x", "error")>>),
              [op |-> "project", columns |-> {"x"}], MCRules(<<MCDedup(<<"x">>)>>)>>),
     MCPlan(<<>>, "Float64", FALSE, <<MCRules(<<MCDedup(<<"y">>), MCKeep("x")>>)>>)}
MCVerRow(a, b) == [x |-> a, y |-> <<"Float64", b>>]
MCVerRows ==
    {MCVerRow(MCA, "0"), MCVerRow(MCA, "-0"), MCVerRow(MCB, "nan"), MCVerRow(MCNoText, "0"),
     MCVerRow(MCText(<<"a", "b">>), "0"), MCVerRow(MCB, "0")}

\* Profiling: numbers and texts of three lengths, with nulls, and three baselines.
MCProfRow(a, b) == [n |-> a, t |-> b]
MCProfRows == {MCProfRow(0, 0), MCProfRow(1, 1), MCProfRow(3, 1), MCProfRow(Null, 2)}
MCTextLength == 0 :> 0 @@ 1 :> 1 @@ 2 :> 3
MCBaselines ==
    {<<>>, <<MCProfRow(0, 0), MCProfRow(1, 1), MCProfRow(0, 1)>>, <<MCProfRow(Null, 2), MCProfRow(0, Null)>>}

\* NodeGraph: four nodes whose identifiers sort in and against path order.
MCKindsOf ==
    <<1, 0>> :> {"atomic", "composite"} @@ <<2, 1>> :> {"composite", "atomic", "broken"}
    @@ <<2, 8>> :> {"source", "atomic"} @@ <<3, 0>> :> {"output"}
MCGraphNodes == DOMAIN MCKindsOf

\* ChunkedExecution: rows with a null, a long and a short text; each step that changes widths.
MCCell(n, t) == [n |-> n, t |-> t]
MCChunkInputs == BoundedSeq({MCCell(0, 0), MCCell(-1, 40), MCCell(0, 10), MCCell(0, -1)}, 4)
MCDeriveChunk(o, i) == [kind |-> "derive", id |-> i, expression |-> [op |-> o, width |-> 2]]
MCChunkPrograms ==
    {<<>>, <<[kind |-> "trim"]>>, <<[kind |-> "cast"]>>, <<[kind |-> "replace", from |-> 0, width |-> 30]>>,
     <<[kind |-> "fill", width |-> 3], [kind |-> "drop"]>>,
     <<[kind |-> "nullify", from |-> 10], MCDeriveChunk("literal", "d")>>,
     <<MCDeriveChunk("column", "d"), [kind |-> "filter"]>>, <<MCDeriveChunk("coalesce", "d")>>,
     <<MCDeriveChunk("conditional", "d"), MCDeriveChunk("conditional", "e")>>,
     <<MCDeriveChunk("recast", "d"), [kind |-> "drop"]>>}

\* SourceDiscovery: a tree with nested roots, a link out of it, and what a rename can make of it.
MCEntries(f) == [n \in EntryNames |-> IF n \in DOMAIN f THEN f[n] ELSE NoEntry]
MCTree(inC, inB) ==
    "top" :> MCEntries(1 :> "a" @@ 2 :> "out") @@ "a" :> MCEntries(1 :> "b" @@ 2 :> "link" @@ 3 :> "f")
    @@ "b" :> MCEntries(1 :> "c" @@ 3 :> "g" @@ 4 :> inB) @@ "c" :> MCEntries(3 :> inC)
    @@ "out" :> MCEntries(1 :> "deep" @@ 3 :> "secret") @@ "deep" :> MCEntries(3 :> "secret")
MCTrees == {MCTree("g", NoEntry), MCTree(NoEntry, NoEntry), MCTree(NoEntry, "h")}
MCTarget == "link" :> "out"
MCRootLists == {<<<<1>>, <<1, 1>>>>, <<<<1, 1>>, <<1>>>>}

\* TabularReading: rows a cell of which reads as several types, a short row, and replacements.
MCInt == <<"null", "int">>
MCBool == <<"null", "text", "bool">>
MCWord == <<"null", "text">>
MCTabRows == {<<MCInt, MCBool>>, <<<<"null", "int", "uint">>, <<"null">>>>, <<MCWord, MCBool>>, <<MCInt>>}
MCFile(h, rows) == [header |-> h, rows |-> rows]
MCOtherFiles ==
    {MCFile(1, <<<<MCWord, MCBool>>, <<MCInt, MCBool>>>>), MCFile(1, <<<<<<"null">>, <<"null">>>>>>),
     MCFile(2, <<<<MCInt, MCBool>>>>)}

\* ObjectAccess: records with quotes, escapes and brackets inside, and bodies of zero to two parts.
MCTextRecords ==
    {<<"other", "newline">>, <<"quote", "newline", "quote", "newline">>,
     <<"quote", "quote", "quote", "quote", "newline">>, <<"brace", "unbrace">>,
     <<"brace", "quote", "unbrace", "quote", "unbrace">>,
     <<"brace", "open", "brace", "unbrace", "close", "quote", "escape", "quote", "quote", "unbrace">>}
MCBytes(n) == [i \in 1 .. n |-> "other"]
MCBodies == {<<>>, <<MCBytes(1)>>, <<MCBytes(2), MCBytes(1)>>, <<MCBytes(10), MCBytes(10)>>}

\* ExportEncoding: texts that need quoting, numbers JSON cannot hold, nested values, an unsupported type.
MCType(k) == [k |-> k]
MCColumn(n, type) == [name |-> n, type |-> type]
MCString(s) == [t |-> "text", s |-> s]
MCValue(v) == [t |-> "value", v |-> v]
MCStruct(a, b) == [t |-> "struct", items |-> <<a, b>>]
MCItems(s) == [t |-> "list", items |-> s]
MCFlat == <<MCColumn(<<>>, MCType("utf8")), MCColumn(<<"a", "delimiter">>, MCType("float"))>>
MCNested ==
    <<MCColumn(<<"a">>, [k |-> "list", of |-> [k |-> "struct", fields |->
          <<MCColumn(<<"b">>, MCType("float")), MCColumn(<<"c">>, MCType("utf8"))>>]]),
      MCColumn(<<"d">>, MCType("temporal"))>>
MCStrings ==
    {MCString(s) : s \in {<<>>, <<"a">>, <<"quote">>, <<"delimiter">>, <<"lf", "a">>, <<"cr">>, <<"a", "quote", "quote">>}}
MCFlatRows == (MCStrings \cup {NullCell}) \X {NullCell, MCValue("1"), MCValue("nan")}
MCFiniteRows == {r \in MCFlatRows : r[2] # MCValue("nan")}
MCNestedRows ==
    {<<MCItems(<<>>), MCValue("far")>>, <<MCItems(<<MCStruct(MCValue("nan"), NullCell)>>), NullCell>>,
     <<MCItems(<<MCStruct(MCValue("1"), MCString(<<>>)), NullCell>>), MCValue("1")>>, <<NullCell, MCValue("1")>>}
MCExport(schema, batches) == [schema |-> schema, batches |-> batches]
MCInputs ==
    {MCExport(MCFlat, <<>>), MCExport(<<MCColumn(<<"a">>, MCType("binary"))>>, <<<<<<MCValue("1")>>>>>>)}
    \cup {MCExport(MCFlat, <<<<r>>>>) : r \in MCFlatRows}
    \cup {MCExport(MCFlat, <<<<r, s>>, <<s>>>>) : r, s \in MCFiniteRows}
    \cup {MCExport(MCNested, b) : b \in UNION {{<<<<r>>, <<s>>>>, <<<<r>>, <<s>>, <<r>>>>} : r, s \in MCNestedRows}}
    \cup {MCExport(MCFlat, <<<<r, r>>, <<r, r>>>>) : r \in {<<NullCell, NullCell>>}}
    \cup {MCExport(<<MCColumn(<<"a">>, MCType("null")), MCColumn(<<"b">>, MCType("utf8"))>>,
                   <<<<<<NullCell, s>>>>>>) : s \in {NullCell, MCString(<<>>)}}
-----------------------------------------------------------------------------
(* A part of the managed root or a connector that is not running stays in an *)
(* initial state; an engine module or a reader that is not running has no    *)
(* state: its variables hold Nothing.                                        *)

StartsOld == opnVersion = Min(OldestVersion)

IdleDsc == tree = MCTree("g", NoEntry) /\ allowed = <<<<1>>, <<1, 1>>>> /\ DscInit

IdleOa ==
    /\ identity = "version" /\ objectKind = "lines"
    /\ object = [id |-> 1, stamp |-> 1, bytes |-> <<>>, records |-> <<>>] /\ OaInit

Nothing == 0

IdleVer ==
    /\ vfPlan = Nothing /\ vfSource = Nothing /\ vfRead = Nothing /\ vfRun = Nothing /\ vfEnd = Nothing

IdleProf ==
    /\ pfSource = Nothing /\ pfBase = Nothing /\ pfRead = Nothing /\ pfScan = Nothing /\ pfPhase = Nothing
    /\ pfQuality = Nothing /\ pfDrift = Nothing

IdleNg ==
    /\ ngGraph = Nothing /\ ngStage = Nothing /\ ngPath = Nothing /\ ngPlan = Nothing /\ ngIds = Nothing
    /\ ngDocuments = Nothing

IdlePl ==
    /\ plStage = Nothing /\ plMode = Nothing /\ plProgram = Nothing /\ plSource = Nothing
    /\ plRows = Nothing /\ plRead = Nothing /\ plSchema = Nothing /\ plOut = Nothing /\ plSeen = Nothing
    /\ plEnvelope = Nothing /\ plFlags = Nothing

IdleCe ==
    /\ ceInput = Nothing /\ ceSteps = Nothing /\ ceOffset = Nothing /\ ceChunk = Nothing
    /\ ceStage = Nothing /\ ceReason = Nothing /\ ceIncoming = Nothing /\ ceWorking = Nothing
    /\ ceSinks = Nothing /\ ceOut = Nothing

IdlePr ==
    /\ selected = Nothing /\ fed = Nothing /\ generic = Nothing /\ direct = Nothing /\ closed = Nothing

IdleTab ==
    /\ tabFormat = Nothing /\ disk = Nothing /\ tabReader = Nothing /\ replaced = Nothing

IdleFs ==
    /\ positive = Nothing /\ negative = Nothing /\ added = Nothing /\ sumResult = Nothing

IdleEnc ==
    /\ encInput = Nothing /\ layout = Nothing /\ encoder = Nothing /\ encParts = Nothing

MCInit ==
    /\ under \in {"snapshots", "bundles", "exports", "dedup", "opening", "backup", "verification", "profiling",
                  "graphs", "plans", "chunks", "discovery", "rows", "tables", "objects", "floats", "encoding"}
    /\ StoreInit
    /\ BundleInit /\ ExportInit /\ DedupInit /\ BackupInit
    /\ OpeningInit /\ (under = "opening" \/ StartsOld)
    /\ IF under = "verification" THEN VerInit ELSE IdleVer
    /\ IF under = "profiling" THEN ProfInit ELSE IdleProf
    /\ IF under = "graphs" THEN NgInit ELSE IdleNg
    /\ IF under = "plans" THEN PlInit ELSE IdlePl
    /\ IF under = "chunks" THEN CeInit ELSE IdleCe
    /\ IF under = "discovery" THEN DscInit ELSE IdleDsc
    /\ IF under = "rows" THEN PrInit ELSE IdlePr
    /\ IF under = "tables" THEN TabInit ELSE IdleTab
    /\ IF under = "objects" THEN OaInit ELSE IdleOa
    /\ IF under = "floats" THEN FsInit ELSE IdleFs
    /\ IF under = "encoding" THEN EncInit ELSE IdleEnc

Alone(name) ==
    /\ under = name /\ UNCHANGED under
    /\ name # "snapshots" => UNCHANGED storeVars
    /\ name # "bundles" => UNCHANGED bunVars
    /\ name # "exports" => UNCHANGED expVars
    /\ name # "dedup" => UNCHANGED dedVars
    /\ name # "opening" => UNCHANGED opnVars
    /\ name # "backup" => UNCHANGED bakVars
    /\ name # "verification" => UNCHANGED vfVars
    /\ name # "profiling" => UNCHANGED pfVars
    /\ name # "graphs" => UNCHANGED ngVars
    /\ name # "plans" => UNCHANGED plVars
    /\ name # "chunks" => UNCHANGED ceVars
    /\ name # "discovery" => UNCHANGED dscVars
    /\ name # "rows" => UNCHANGED prVars
    /\ name # "tables" => UNCHANGED tabVars
    /\ name # "objects" => UNCHANGED oaVars
    /\ name # "floats" => UNCHANGED sumVars
    /\ name # "encoding" => UNCHANGED encVars

MCNext ==
    \/ Alone("snapshots") /\ StoreNext
    \/ Alone("bundles") /\ BundleNext
    \/ Alone("exports") /\ ExportNext
    \/ Alone("dedup") /\ DedupNext
    \/ Alone("opening") /\ OpeningNext
    \/ Alone("backup") /\ BackupNext
    \/ Alone("verification") /\ VerNext
    \/ Alone("profiling") /\ ProfNext
    \/ Alone("graphs") /\ NgNext
    \/ Alone("plans") /\ PlNext
    \/ Alone("chunks") /\ CeNext
    \/ Alone("discovery") /\ DscNext
    \/ Alone("rows") /\ PrNext
    \/ Alone("tables") /\ TabNext
    \/ Alone("objects") /\ OaNext
    \/ Alone("floats") /\ FsNext
    \/ Alone("encoding") /\ EncNext

MCVars ==
    <<under, storeVars, bunVars, expVars, dedVars, opnVars, bakVars, vfVars, pfVars, ngVars,
      plVars, ceVars, dscVars, prVars, tabVars, oaVars, sumVars, encVars>>

MCSpec == MCInit /\ [][MCNext]_MCVars

-----------------------------------------------------------------------------
(* Properties: those of ManagedRoot and SourceConnectors and, for each engine *)
(* module and reader, its own, of the behaviours that run it.                *)

\* verification.rs, profile.rs, quality.rs and drift.rs: however the source is
\* cut into envelopes and wherever a limit falls, the published rows, findings,
\* tallies, statistics and metrics are those of the whole source.
ReportsExact ==
    /\ under = "verification" => VerificationExact
    /\ under = "profiling" => ProfileExact /\ ReportsSound
    /\ under = "floats" => FloatTotalsExact

\* The node graph compiler, preflight, materialisation and preview: a graph
\* compiles to its path and nothing else, and what a checked plan produces is
\* what its steps mean.
PlansFollowed ==
    /\ under = "graphs" => GraphsCompiled
    /\ under = "plans" => PlanSound

\* Chunked lowering and the export encoders: rows leave in their order, none
\* lost and none twice, within the byte limits, and read back as they were.
OutputExact ==
    /\ under = "chunks" => ChunksExact
    /\ under = "encoding" => EncodingExact

\* Discovery, the readers of staged text and of tables, and the two JSON row
\* writers: what is listed is what the roots hold, rows are handed out once, whole,
\* in order and typed as inferred, and both writers take and refuse the same rows.
ReadersExact ==
    /\ DiscoveryExact /\ PreviewWholeRecords /\ StagedRecordsRead
    /\ under = "tables" => TablesSound
    /\ under = "rows" => WritersAccept
=============================================================================
