---------------------------- MODULE GraphValidation ----------------------------
(***************************************************************************)
(* The two validations of a workflow graph (graph/validation.py): of the   *)
(* structure of a graph and of every registered subgraph, before the calls *)
(* are expanded, and of the expanded graph.  A diagnostic is [code, at]:   *)
(* its code and the node it names, or << >> when it names none; the port   *)
(* and the position of an edge are left out.                               *)
(***************************************************************************)
EXTENDS Subgraphs

CONSTANTS
  Catalogue,         \* node type -> [inputs, required, outputs, ...]: its ports' schemas
  KnownTypes,        \* the <<name, version>> references of the type registry
  MaxLoopIterations

ASSUME MaxLoopIterationsAssumption == MaxLoopIterations \in Nat

ForEach == "ng.control.for_each"
Collect == "ng.control.collect"
Switch == "ng.control.switch"

JsonTypes == {"null", "boolean", "object", "array", "number", "string", "integer"}

\* A port's schema is [ref, json]: its x-comfyng-type and the JSON types it names, none when
\* it has no type keyword.
Untyped == << >>

IsWildcard(schema) == schema.json = {} \/ JsonTypes \subseteq schema.json

Accepts(schema, json) ==
  \/ schema.json = {}
  \/ json \in schema.json
  \/ json = "integer" /\ "number" \in schema.json

Compatible(source, target) == source.json = {} \/ \A json \in source.json : Accepts(target, json)

Diagnostic(code, at) == [code |-> code, at |-> at]

\* All but this one are errors.
Warnings == {"unused_output"}

Errors(diagnostics) == {d \in diagnostics : d.code \notin Warnings}

Report(S, code) == {Diagnostic(code, x) : x \in S}

Nowhere == << >>

ReportIf(condition, code) == IF condition THEN {Diagnostic(code, Nowhere)} ELSE {}

Repeated(g) ==
  {g.nodes[i].id : i \in {i \in DOMAIN g.nodes :
     \E j \in DOMAIN g.nodes : i # j /\ g.nodes[i].id = g.nodes[j].id}}

InputPorts(n, registry) ==
  IF n.type \in DOMAIN registry THEN DOMAIN registry[n.type].inputs
  ELSE IF n.type \in DOMAIN Catalogue THEN DOMAIN Catalogue[n.type].inputs ELSE {}

OutputPorts(n, registry) ==
  IF n.type \in DOMAIN registry THEN DOMAIN registry[n.type].outputs
  ELSE IF n.type \in DOMAIN Catalogue THEN DOMAIN Catalogue[n.type].outputs ELSE {}

HasInput(g, id, port, registry) == port \in InputPorts(NodeOf(g, id), registry)

HasOutput(g, id, port, registry) == port \in OutputPorts(NodeOf(g, id), registry)

\* What both validations say of a graph's identifiers, edges and bindings.
Shape(g, registry) ==
  LET edges == Range(g.edges)
      from == {e \in edges : e.src \in Ids(g)}
      to == {e \in edges : e.dst \in Ids(g)}
      ins == {b \in Range(g.inputs) : b.node \in Ids(g)}
      outs == {b \in Range(g.outputs) : b.node \in Ids(g)}
  IN  UNION {
        Report(Repeated(g), "duplicate_node_id"),
        Report({n.id : n \in {n \in Range(g.nodes) :
                  n.type \notin DOMAIN Catalogue \cup DOMAIN registry}},
               "unknown_node_definition"),
        ReportIf(from # edges, "missing_source_node"),
        ReportIf(to # edges, "missing_target_node"),
        Report({b.node : b \in Range(g.inputs) \ ins}, "missing_graph_input_node"),
        Report({b.node : b \in {b \in ins : ~HasInput(g, b.node, b.port, registry)}},
               "missing_graph_input_port"),
        Report({b.node : b \in Range(g.outputs) \ outs}, "missing_graph_output_node"),
        Report({b.node : b \in {b \in outs : ~HasOutput(g, b.node, b.port, registry)}},
               "missing_graph_output_port")}

StructureOf(g, registry, root) ==
  LET calls == {n \in Range(g.nodes) : n.type \in DOMAIN registry}
      from == {e \in Range(g.edges) : e.src \in Ids(g)}
      to == {e \in Range(g.edges) : e.dst \in Ids(g)}
  IN  UNION {
        Shape(g, registry),
        Report({e.src : e \in {e \in from : ~HasOutput(g, e.src, e.out, registry)}},
               "missing_source_port"),
        Report({e.dst : e \in {e \in to : ~HasInput(g, e.dst, e.in, registry)}},
               "missing_target_port"),
        Report({n.id : n \in {n \in calls : n.meta.kind \notin Kinds}}, "invalid_subgraph_kind"),
        Report({n.id : n \in {n \in calls :
                  ~(DOMAIN n.inputs \subseteq InputPorts(n, registry))}},
               "unknown_subgraph_input"),
        ReportIf(~root /\ from \cap to # Range(g.edges), "invalid_subgraph_edge")}

ValidateStructure(g, registry) ==
  StructureOf(g, registry, TRUE)
  \cup UNION {StructureOf(registry[t], registry, FALSE) : t \in DOMAIN registry}

--------------------------------------------------------------------------------
\* The expanded graph has no calls.
NoCalls == [t \in {} |-> {}]

SourceSchema(g, e) == Catalogue[NodeOf(g, e.src).type].outputs[e.out]

TargetSchema(g, e) == Catalogue[NodeOf(g, e.dst).type].inputs[e.in]

\* A malformed reference is written "".
Malformed(ref) == ref # Untyped /\ ref[1] = NoText

\* What an edge between two known ports is told of its types, or NoText.
EdgeTypes(source, target) ==
  LET typed == {schema \in {source, target} : schema.ref # Untyped}
      untyped == {source, target} \ typed
  IN  IF \E schema \in typed : Malformed(schema.ref) THEN "invalid_type_reference"
      ELSE IF \E schema \in typed : schema.ref \notin KnownTypes THEN "unknown_type"
      ELSE IF untyped = {}
      THEN IF source.ref[1] # target.ref[1] THEN "incompatible_types"
           ELSE IF source.ref # target.ref THEN "type_version_mismatch" ELSE NoText
      ELSE IF \/ typed # {} /\ \E schema \in untyped : ~IsWildcard(schema)
              \/ typed = {} /\ ~Compatible(source, target)
      THEN "incompatible_types" ELSE NoText

\* The edges between two nodes of the graph, and those of them whose nodes are both defined.
Joined(g) == SelectSeq(g.edges, LAMBDA e : {e.src, e.dst} \subseteq Ids(g))

Defined(g) ==
  SelectSeq(Joined(g), LAMBDA e :
    {NodeOf(g, e.src).type, NodeOf(g, e.dst).type} \subseteq DOMAIN Catalogue)

\* How many literals, edges and graph inputs feed a port.
BindingsOf(g, n, port) ==
  (IF port \in DOMAIN n.inputs THEN 1 ELSE 0)
  + Cardinality({i \in DOMAIN Defined(g) :
      Defined(g)[i].dst = n.id /\ Defined(g)[i].in = port})
  + Cardinality({name \in DOMAIN g.inputs : g.inputs[name] = [node |-> n.id, port |-> port]})

\* A literal list's length, or else a positive metadata.max_iterations; 0 stands for no bound.
IsLiteralLoop(n) == "items" \in DOMAIN n.inputs /\ n.inputs["items"].json = "array"

LoopBound(n) == IF IsLiteralLoop(n) THEN n.inputs["items"].value ELSE n.meta.max

NodeDiagnostics(g, n) ==
  LET def == Catalogue[n.type]
      ports == DOMAIN def.inputs
      used == {e.out : e \in {e \in Range(Defined(g)) : e.src = n.id}}
              \cup {b.port : b \in {b \in Range(g.outputs) : b.node = n.id}}
      About(condition, code) == IF condition THEN {Diagnostic(code, n.id)} ELSE {}
  IN  UNION {
        About(~(DOMAIN n.inputs \subseteq ports), "unknown_literal_input"),
        About(\E p \in DOMAIN n.inputs \cap ports : ~Accepts(def.inputs[p], n.inputs[p].json),
              "invalid_literal_input"),
        About(\E p \in def.required : BindingsOf(g, n, p) = 0, "missing_required_input"),
        About(\E p \in ports : BindingsOf(g, n, p) > 1, "multiple_input_bindings"),
        About(n.type = ForEach /\ ~IsLiteralLoop(n) /\ n.meta.max = 0, "unbounded_loop"),
        About(n.type = ForEach /\ LoopBound(n) > MaxLoopIterations, "loop_bound_exceeded"),
        About(~(DOMAIN def.outputs \subseteq used), "unused_output")}

EdgeDiagnostics(g, e) ==
  LET hasSource == HasOutput(g, e.src, e.out, NoCalls)
      hasTarget == HasInput(g, e.dst, e.in, NoCalls)
      types == IF hasSource /\ hasTarget THEN EdgeTypes(SourceSchema(g, e), TargetSchema(g, e))
               ELSE NoText
  IN  (IF hasSource THEN {} ELSE {Diagnostic("missing_source_port", e.src)})
      \cup (IF hasTarget THEN {} ELSE {Diagnostic("missing_target_port", e.dst)})
      \cup ReportIf(types # NoText, types)

CycleDiagnostics(g) ==
  LET unplaced == Unplaced(Ids(g), Joined(g))
  IN  IF Repeated(g) = {} /\ unplaced # {} THEN {Diagnostic("cycle", First(unplaced))} ELSE {}

Validate(g) ==
  LET known == {n \in Range(g.nodes) : n.type \in DOMAIN Catalogue}
  IN  UNION {
        Shape(g, NoCalls),
        UNION {EdgeDiagnostics(g, e) : e \in Range(Defined(g))},
        UNION {NodeDiagnostics(g, n) : n \in known},
        CycleDiagnostics(g)}

================================================================================
