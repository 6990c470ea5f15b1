----------------------------- MODULE NodeGraph -----------------------------
(***************************************************************************)
(* From a node graph document to a logical plan: the structural checks of  *)
(* stillflow-core/node_graph, the compiler of stillflow-plan and the walk  *)
(* of stillflow-engine's preflight that reads the plan back.               *)
(*                                                                         *)
(* A node id is a pair <<high, low>>: the compiler makes the ids of the    *)
(* plan nodes inside a composite by overwriting the low bits of the        *)
(* product id (internal_plan_node_id), so only the two halves matter.      *)
(* A config is one of                                                      *)
(*   "source", "output"   the endpoints,                                   *)
(*   "atomic"             any single-rule transform,                       *)
(*   "composite"          a package node (trim-clean: Trim, then Replace), *)
(*   "broken"             an unknown type or version, or a config that its *)
(*                        definition refuses.                              *)
(* What the rules of a transform do to rows and schemas is PlanPipeline's. *)
(***************************************************************************)
EXTENDS Naturals, Sequences, FiniteSets, FiniteSetsExt, SequencesExt

CONSTANTS
  GraphNodes,       \* node ids <<high, low>>, low < InternalBit
  KindsOf,          \* the configs a document may give each of them
  MaxGraphNodes,    \* MAX_NODES
  MaxCompileWork,   \* MAX_COMPILE_WORK
  MaxDocuments      \* documents compiled in one behaviour

ASSUME NodeGraphAssumption ==
  /\ GraphNodes \subseteq Nat \X Nat
  /\ KindsOf \in [GraphNodes -> SUBSET {"source", "output", "atomic", "composite", "broken"}]
  /\ {MaxGraphNodes, MaxCompileWork, MaxDocuments} \subseteq Nat

VARIABLES
  ngGraph,      \* the document: nodes (id -> config), edges, source, output
  ngStage,      \* where the compiler is
  ngPath,       \* the nodes in path order
  ngPlan,       \* plan node id -> [of, step, inputs]
  ngIds,        \* node id -> plan node id (node_plan_ids)
  ngDocuments   \* documents submitted so far

ngVars == <<ngGraph, ngStage, ngPath, ngPlan, ngIds, ngDocuments>>

None == <<>>

-----------------------------------------------------------------------------
(* Definitions and packages.                                               *)

IsSource(kind) == kind = "source"

IsOutput(kind) == kind = "output"

\* NodeRegistry::lookup, then the definition's own check of the config.
ConfigResolves(kind) == kind # "broken"

\* The steps a package node expands to: trim-clean is Trim and ReplaceLiteral.
ExpansionSteps(kind) == IF kind = "composite" THEN <<"trim", "replace">> ELSE <<kind>>

-----------------------------------------------------------------------------
(* NodeGraph::validate_basic and validated_configs.                        *)

Successors(g, n) == {e \in g.edges : e[1] = n}

Predecessors(g, n) == {e \in g.edges : e[2] = n}

Members(g) == DOMAIN g.nodes

ValidateBasic(g) ==
  /\ g.source # g.output
  /\ Cardinality(Members(g)) <= MaxGraphNodes
  /\ Members(g) # {}
  /\ Cardinality(g.edges) = Cardinality(Members(g)) - 1
  /\ {g.source, g.output} \subseteq Members(g)
  /\ \A e \in g.edges : {e[1], e[2]} \subseteq Members(g)

EndpointsDeclared(g) ==
  /\ Cardinality({n \in Members(g) : IsSource(g.nodes[n])}) = 1
  /\ Cardinality({n \in Members(g) : IsOutput(g.nodes[n])}) = 1
  /\ IsSource(g.nodes[g.source])
  /\ IsOutput(g.nodes[g.output])

\* A source has no input port and an output no output port.
EdgesSound(g) ==
  \A e \in g.edges :
    /\ ~IsOutput(g.nodes[e[1]])
    /\ ~IsSource(g.nodes[e[2]])
    /\ e[1] # e[2]

\* Mutant: only incoming edges are counted.
DegreesIn(g) ==
  \A n \in Members(g) :
    Cardinality(Predecessors(g, n)) = IF IsSource(g.nodes[n]) THEN 0 ELSE 1

DegreesLinear(g) ==
  \A n \in Members(g) :
    /\ Cardinality(Predecessors(g, n)) = IF IsSource(g.nodes[n]) THEN 0 ELSE 1
    /\ Cardinality(Successors(g, n)) = IF IsOutput(g.nodes[n]) THEN 0 ELSE 1

\* The walk from the source: the prefix of the unique path that `fuel' steps reach,
\* None when it comes back to a visited node or ends before the output.
RECURSIVE WalkFrom(_, _, _)
WalkFrom(g, path, fuel) ==
  LET current == Last(path)
      next == {e[2] : e \in Successors(g, current)}
  IN IF current = g.output THEN path
     ELSE IF fuel = 0 \/ Cardinality(next) # 1 THEN None
     ELSE LET n == CHOOSE x \in next : TRUE
          IN IF n \in Range(path) THEN None ELSE WalkFrom(g, Append(path, n), fuel - 1)

\* Mutant: a walk that reaches the output is enough.
WalkArrives(g) == WalkFrom(g, <<g.source>>, Cardinality(Members(g))) # None

WalkCovers(g) ==
  LET path == WalkFrom(g, <<g.source>>, Cardinality(Members(g)))
  IN path # None /\ Len(path) = Cardinality(Members(g))

ValidatedConfigs(g) ==
  /\ ValidateBasic(g)
  /\ Cardinality(Members(g)) >= 2
  /\ \A n \in Members(g) : ConfigResolves(g.nodes[n])
  /\ EndpointsDeclared(g)
  /\ EdgesSound(g)
  /\ DegreesLinear(g)
  /\ WalkCovers(g)

-----------------------------------------------------------------------------
(* NodeGraphCompiler::compile.                                             *)

CheckShapeWork(g) ==
  /\ Cardinality(Members(g)) <= MaxGraphNodes
  /\ Cardinality(Members(g)) + Cardinality(g.edges) <= MaxCompileWork

\* A package counts its steps once more.
CheckCompileWork(g) ==
  LET steps(n) == IF g.nodes[n] = "composite" THEN 4 * Len(ExpansionSteps(g.nodes[n])) ELSE 0
  IN Cardinality(Members(g)) + Cardinality(g.edges) + MapThenSumSet(steps, Members(g)) <= MaxCompileWork

UniquePath(g) == WalkFrom(g, <<g.source>>, Cardinality(Members(g)))

\* internal_plan_node_id: the high bits of the product id, the ordinal below the marker bit.
InternalBit == 8

InternalId(n, ordinal) == <<n[1], InternalBit + ordinal>>

\* The plan ids of the steps of node n: its own id, or one internal id per expansion step.
StepIds(g, n) ==
  IF g.nodes[n] = "composite"
    THEN [k \in DOMAIN ExpansionSteps("composite") |-> InternalId(n, k - 1)]
    ELSE <<n>>

\* Every internal id is compared with the ids assigned to nodes so far, its own composite's included.
InternalCollides(g, ids, n) ==
  /\ g.nodes[n] = "composite"
  /\ \E k \in DOMAIN StepIds(g, n) : \E m \in DOMAIN ids : ids[m] = StepIds(g, n)[k]

\* Mutant: every step of a package reads the node before the package.
LoweredFlat(g, n, previous) ==
  LET ids == StepIds(g, n)
  IN [id \in Range(ids) |->
        [of |-> n, step |-> ExpansionSteps(g.nodes[n])[Max({k \in DOMAIN ids : ids[k] = id})],
         inputs |-> previous]]

\* The plan entries of node n when `previous' is the plan node before it.
Lowered(g, n, previous) ==
  LET ids == StepIds(g, n)
      entry(k) == [of |-> n, step |-> ExpansionSteps(g.nodes[n])[k],
                   inputs |-> IF k > 1 THEN {ids[k - 1]} ELSE previous]
  IN [id \in Range(ids) |-> entry(Max({k \in DOMAIN ids : ids[k] = id}))]

\* The later insertion wins, as in the compiler's BTreeMap.
Inserted(plan, entries) ==
  [id \in DOMAIN plan \cup DOMAIN entries |->
     IF id \in DOMAIN entries THEN entries[id] ELSE plan[id]]

\* LogicalPlan::validate: inputs exist, no self edge, and Kahn's order reaches every node.
RECURSIVE Reached(_, _)
Reached(plan, done) ==
  LET ready == {id \in DOMAIN plan \ done : plan[id].inputs \subseteq done}
  IN IF ready = {} THEN done ELSE Reached(plan, done \cup ready)

PlanValid(plan, root) ==
  /\ root \in DOMAIN plan
  /\ \A id \in DOMAIN plan :
       /\ plan[id].inputs \subseteq DOMAIN plan
       /\ id \notin plan[id].inputs
       /\ Cardinality(plan[id].inputs) = IF plan[id].step = "source" THEN 0 ELSE 1
  /\ Reached(plan, {}) = DOMAIN plan

-----------------------------------------------------------------------------
(* Actions.                                                                *)

NgInit ==
  /\ ngGraph = None
  /\ ngStage = "idle"
  /\ ngPath = <<>>
  /\ ngPlan = <<>>
  /\ ngIds = <<>>
  /\ ngDocuments = 0

\* A client sends any document over the ids: nodes, configs, endpoints and one edge less than nodes,
\* the count every document that passes validate_basic has.
SubmitGraph ==
  /\ ngStage = "idle"
  /\ ngDocuments < MaxDocuments
  /\ \E members \in SUBSET GraphNodes :
       /\ members # {}
       /\ \E nodes \in [members -> UNION Range(KindsOf)], source, output \in members :
            /\ \A n \in members : nodes[n] \in KindsOf[n]
            /\ IsSource(nodes[source]) \/ \A n \in members : ~IsSource(nodes[n])
            /\ IsOutput(nodes[output]) \/ \A n \in members : ~IsOutput(nodes[n])
            /\ \E edges \in kSubset(Cardinality(members) - 1, members \X members) :
                 ngGraph' = [nodes |-> nodes, edges |-> edges, source |-> source, output |-> output]
  /\ ngStage' = "submitted"
  /\ ngDocuments' = ngDocuments + 1
  /\ UNCHANGED <<ngPath, ngPlan, ngIds>>

\* Any error ends the compilation and leaves nothing behind.
Refuse ==
  /\ ngStage' = "idle"
  /\ ngGraph' = None
  /\ ngPath' = <<>>
  /\ ngPlan' = <<>>
  /\ ngIds' = <<>>
  /\ UNCHANGED ngDocuments

\* compile up to the loop: work bounds, the graph's own validation, the path, the authorized source.
StartCompile ==
  /\ ngStage = "submitted"
  /\ IF CheckShapeWork(ngGraph) /\ ValidatedConfigs(ngGraph) /\ CheckCompileWork(ngGraph)
       THEN /\ ngStage' = "compiling"
            /\ ngPath' = UniquePath(ngGraph)
            /\ ngIds' = [n \in Members(ngGraph) |-> n]
            /\ ngPlan' = <<>>
            /\ UNCHANGED <<ngGraph, ngDocuments>>
       ELSE Refuse

\* Limits on bytes, metadata and columns, and the source binding, refuse documents the shape admits.
RefuseData ==
  /\ ngStage = "submitted"
  /\ Refuse

\* The nodes already lowered, in path order.
Done == {n \in Members(ngGraph) : \E id \in DOMAIN ngPlan : ngPlan[id].of = n}

Next1 == ngPath[CHOOSE k \in DOMAIN ngPath : k = Cardinality(Done) + 1]

\* One turn of the loop over the path: a composite expands to its steps, and the node then answers
\* to the id of the last of them.
CompileNode ==
  /\ ngStage = "compiling"
  /\ Cardinality(Done) < Len(ngPath)
  /\ LET n == Next1
         at == Cardinality(Done)
         previous == IF at = 0 THEN {} ELSE {ngIds[ngPath[at]]}
     IN IF InternalCollides(ngGraph, ngIds, n)
          THEN Refuse
          ELSE /\ ngPlan' = Inserted(ngPlan, Lowered(ngGraph, n, previous))
               /\ ngIds' = [ngIds EXCEPT ![n] = Last(StepIds(ngGraph, n))]
               /\ UNCHANGED <<ngGraph, ngStage, ngPath, ngDocuments>>

\* LogicalPlan::new, the canonical bytes and the fingerprint each validate the plan.
FinishPlan ==
  /\ ngStage = "compiling"
  /\ Cardinality(Done) = Len(ngPath)
  /\ IF PlanValid(ngPlan, ngIds[ngGraph.output])
       THEN /\ ngStage' = "compiled"
            /\ UNCHANGED <<ngGraph, ngPath, ngPlan, ngIds, ngDocuments>>
       ELSE Refuse

\* The caller is done with the compiled graph.
NextDocument ==
  /\ ngStage = "compiled"
  /\ Refuse

NgNext ==
  \/ SubmitGraph
  \/ StartCompile
  \/ RefuseData
  \/ CompileNode
  \/ FinishPlan
  \/ NextDocument

NgSpec == NgInit /\ [][NgNext]_ngVars

-----------------------------------------------------------------------------
(* What reads the compiled plan.                                           *)

\* preflight's linearize: from the scan, follow the only child to the root.
RECURSIVE Linearized(_, _, _)
Linearized(plan, root, path) ==
  LET children == {id \in DOMAIN plan : Last(path) \in plan[id].inputs}
  IN IF Last(path) = root THEN path
     ELSE IF Cardinality(children) # 1 \/ children \subseteq Range(path) THEN None
     ELSE Linearized(plan, root, Append(path, CHOOSE id \in children : TRUE))

Linearize(plan, root) ==
  LET scans == {id \in DOMAIN plan : plan[id].step = "source"}
      roots == {id \in DOMAIN plan : plan[id].step = "output"}
  IN IF Cardinality(scans) # 1 \/ roots # {root} THEN None
     ELSE LET path == Linearized(plan, root, <<CHOOSE id \in scans : TRUE>>)
          IN IF path # None /\ Len(path) = Cardinality(DOMAIN plan) THEN path ELSE None

\* preview_plan_node_id: the plan node whose output a preview of node n shows.
PreviewId(n) ==
  IF n \in DOMAIN ngIds /\ ngIds[n] # ngIds[ngGraph.output] THEN ngIds[n] ELSE None

-----------------------------------------------------------------------------
(* Properties.                                                             *)

\* The reference: the steps of the graph read off its edges alone, an order of its nodes in
\* which every consecutive pair is an edge, from the source to the output.
Orders(g) ==
  {order \in SetToSeqs(Members(g)) :
     /\ order[1] = g.source
     /\ Last(order) = g.output
     /\ \A k \in 1 .. Len(order) - 1 : <<order[k], order[k + 1]>> \in g.edges}

Expanded(g, order) == FlattenSeq([k \in DOMAIN order |-> ExpansionSteps(g.nodes[order[k]])])

(***************************************************************************)
(* What the engine runs is what the document says: a compiled plan, read   *)
(* back by preflight's linearize, has the steps of the document's nodes,   *)
(* packages expanded, in the document's order; the plan node a preview of  *)
(* a node stops at ends the steps of exactly the nodes up to that one, and *)
(* is none for the output.                                                 *)
(***************************************************************************)
PlanIsGraph ==
  ngStage = "compiled" =>
    LET read == Linearize(ngPlan, ngIds[ngGraph.output])
        order == CHOOSE o \in Orders(ngGraph) : TRUE
    IN /\ Orders(ngGraph) # {}
       /\ read # None
       /\ [k \in DOMAIN read |-> ngPlan[read[k]].step] = Expanded(ngGraph, order)
       /\ \A k \in 1 .. Len(order) - 1 :
            \E stop \in DOMAIN read :
              /\ read[stop] = PreviewId(order[k])
              /\ [j \in 1 .. stop |-> ngPlan[read[j]].step]
                   = Expanded(ngGraph, SubSeq(order, 1, k))
       /\ PreviewId(ngGraph.output) = None

(***************************************************************************)
(* Nothing well formed is lost to the shape checks: a document whose nodes *)
(* resolve and whose edges form one path from its only source to its only  *)
(* output passes validated_configs.                                        *)
(***************************************************************************)
WellFormed(g) ==
  /\ g.source # g.output
  /\ Cardinality(Members(g)) <= MaxGraphNodes
  /\ \A n \in Members(g) : ConfigResolves(g.nodes[n])
  /\ {n \in Members(g) : IsSource(g.nodes[n])} = {g.source}
  /\ {n \in Members(g) : IsOutput(g.nodes[n])} = {g.output}
  /\ Orders(g) # {}

ShapeExact == ngStage = "submitted" => (WellFormed(ngGraph) <=> ValidatedConfigs(ngGraph))

GraphsCompiled == PlanIsGraph /\ ShapeExact

=============================================================================
