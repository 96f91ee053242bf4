------------------------------- MODULE Subgraphs -------------------------------
(***************************************************************************)
(* Expansion of subgraph calls (graph/subgraphs.py).                       *)
(*                                                                         *)
(* A registry maps a node type to the graph that stands for it.  A node of *)
(* a registered type is a call; expanding a graph replaces every call, in  *)
(* the order of their identifiers, by a copy of its expanded graph.  Each  *)
(* result carries the code of the error raised on the way, or NoText.      *)
(***************************************************************************)
EXTENDS WorkflowGraph

CONSTANT MaxSubgraphDepth

ASSUME MaxSubgraphDepthAssumption == MaxSubgraphDepth \in Nat \ {0}

Kinds == {"subgraph", "function", "macro"}

\* uuid5 of the call over the inner identifier.
Cloned(call, inner) == call \o inner

ClonedPort(call, binding) == [binding EXCEPT !.node = Cloned(call.id, @)]

Failed(code) == [code |-> code, graph |-> [nodes |-> << >>], traces |-> << >>]

\* The code of the first check that fails.
FirstFailing(checks) ==
  LET failing == SelectSeq(checks, LAMBDA c : c.fails)
  IN  IF failing = << >> THEN NoText ELSE failing[1].code

Check(fails, code) == [fails |-> fails, code |-> code]

\* The call's literals that its graph binds to a node.  When two of them are bound to one
\* port, the later one overwrites the other.
Overrides(call, child, id) ==
  LET bound == {p \in DOMAIN call.inputs : p \in DOMAIN child.inputs /\ child.inputs[p].node = id}
  IN  [port \in {child.inputs[p].port : p \in bound} |->
        call.inputs[CHOOSE p \in bound : child.inputs[p].port = port]]

\* What is wrong with an edge's end at the call.
EdgeCheck(e, call, child) ==
  IF e.dst = call.id THEN Check(e.in \notin DOMAIN child.inputs, "unknown_subgraph_input")
  ELSE Check(e.src = call.id /\ e.out \notin DOMAIN child.outputs, "unknown_subgraph_output")

InlineError(g, call, child) ==
  LET PortsOfCall(bindings) == {b.port : b \in {b \in Range(bindings) : b.node = call.id}}
  IN  FirstFailing(
        << Check(\E id \in Ids(child) : Cloned(call.id, id) \in Ids(g) \ {call.id},
                 "subgraph_node_collision"),
           Check(~(DOMAIN call.inputs \subseteq DOMAIN child.inputs), "unknown_subgraph_input"),
           Check(\E n \in Range(child.nodes) :
                   DOMAIN n.inputs \cap DOMAIN Overrides(call, child, n.id) # {},
                 "multiple_subgraph_input"),
           Check({e.in : e \in EdgesInto(g, call.id)} \cap DOMAIN call.inputs # {},
                 "multiple_subgraph_input") >>
        \o [i \in DOMAIN g.edges |-> EdgeCheck(g.edges[i], call, child)]
        \o << Check(\E e \in Range(child.edges) : ~({e.src, e.dst} \subseteq Ids(child)),
                    "invalid_subgraph_edge"),
              Check(~(PortsOfCall(g.inputs) \subseteq DOMAIN child.inputs),
                    "unknown_subgraph_input"),
              Check(~(PortsOfCall(g.outputs) \subseteq DOMAIN child.outputs),
                    "unknown_subgraph_output"),
              Check(\E b \in Range(child.inputs) \cup Range(child.outputs) :
                      b.node \notin Ids(child),
                    "invalid_subgraph_binding") >>)

\* An edge that enters the call is moved to the port behind the input it names, and keeps its
\* source even when that is the call itself; one that leaves it, to the port behind the output.
Rewired(e, call, child) ==
  IF e.dst = call.id
  THEN LET to == ClonedPort(call, child.inputs[e.in])
       IN  [e EXCEPT !.dst = to.node, !.in = to.port]
  ELSE IF e.src = call.id
  THEN LET from == ClonedPort(call, child.outputs[e.out])
       IN  [e EXCEPT !.src = from.node, !.out = from.port]
  ELSE e

\* Mutant: a binding at the call is given the first port of the graph, not the one it names.
ReboundToFirst(bindings, call, ports) ==
  [name \in DOMAIN bindings |->
    IF bindings[name].node = call.id
    THEN ClonedPort(call, CHOOSE p \in Range(ports) : TRUE)
    ELSE bindings[name]]

Rebound(bindings, call, ports) ==
  [name \in DOMAIN bindings |->
    IF bindings[name].node = call.id
    THEN ClonedPort(call, ports[bindings[name].port])
    ELSE bindings[name]]

InlineCall(g, call, child) ==
  LET CloneNode(n) ==
        [n EXCEPT !.id = Cloned(call.id, @),
                  !.inputs = Overrides(call, child, n.id) @@ @]
      CloneEdge(e) ==
        [e EXCEPT !.src = Cloned(call.id, @), !.dst = Cloned(call.id, @)]
  IN  [g EXCEPT
        !.nodes = SelectSeq(@, LAMBDA n : n.id # call.id)
                  \o [i \in DOMAIN child.nodes |-> CloneNode(child.nodes[i])],
        !.edges = [i \in DOMAIN @ |-> Rewired(@[i], call, child)]
                  \o [i \in DOMAIN child.edges |-> CloneEdge(child.edges[i])],
        !.inputs = Rebound(@, call, child.inputs),
        !.outputs = Rebound(@, call, child.outputs)]

\* A root trace has no parent: << >>, which is no node's identifier.
TraceOf(call, child) ==
  [kind |-> call.meta.kind, call |-> call.id, parent |-> << >>, type |-> call.type,
   version |-> child.version, members |-> {Cloned(call.id, id) : id \in Ids(child)},
   depth |-> 0]

Rebased(trace, call) ==
  [trace EXCEPT !.call = Cloned(call.id, @),
                !.parent = IF @ = << >> THEN call.id ELSE Cloned(call.id, @),
                !.members = {Cloned(call.id, id) : id \in @},
                !.depth = @ + 1]

\* The next call is replaced by its expanded graph, unless something is wrong with it.
ExpandCall(x, id, stack, child) ==
  LET call == NodeOf(x.graph, id)
      error == IF call.type \in Range(stack) THEN "recursive_subgraph"
               ELSE IF child.code # NoText THEN child.code
               ELSE IF child.graph.nodes = << >> THEN "empty_subgraph"
               ELSE IF call.meta.kind \notin Kinds THEN "invalid_subgraph_kind"
               ELSE InlineError(x.graph, call, child.graph)
  IN  IF error # NoText THEN Failed(error)
      ELSE [x EXCEPT !.graph = InlineCall(@, call, child.graph),
                     !.traces = Append(@, TraceOf(call, child.graph))
                                \o [i \in DOMAIN child.traces |-> Rebased(child.traces[i], call)]]

\* The calls of a graph are replaced in order; stack holds the types of the calls it stands for.
Expand(g, registry) ==
  LET expanded[stack \in Seq(DOMAIN registry)] ==
        LET graph == IF stack = << >> THEN g ELSE registry[Last(stack)]
            calls == {n.id : n \in {n \in Range(graph.nodes) : n.type \in DOMAIN registry}}
            Child(x, id) == expanded[Append(stack, NodeOf(x.graph, id).type)]
            Replace(x, id) ==
              IF x.code # NoText THEN x ELSE ExpandCall(x, id, stack, Child(x, id))
        IN  IF Len(stack) > MaxSubgraphDepth THEN Failed("subgraph_depth_exceeded")
            ELSE FoldLeft(Replace, [code |-> NoText, graph |-> graph, traces |-> << >>],
                          InOrder(calls))
  IN  expanded[<< >>]

================================================================================
