------------------------------ MODULE GraphMeaning ------------------------------
(***************************************************************************)
(* What a workflow computes, and two properties of the compiler in terms   *)
(* of it (graph/subgraphs.py, graph/cache.py).                             *)
(***************************************************************************)
EXTENDS GraphCompiler

\* What an output stands for: the operation and the terms of all that feeds it.  env holds
\* the terms of the graph's inputs; a call stands for the output of its graph.
Term(op, out, value, args) == [op |-> op, out |-> out, value |-> value, args |-> args]

RECURSIVE Meaning(_, _, _, _, _)
Meaning(g, registry, env, id, out) ==
  LET n == NodeOf(g, id)
      given == {name \in ExternalInputs(g, id) : name \in DOMAIN env}
      ports == DOMAIN n.inputs \cup {e.in : e \in EdgesInto(g, id)}
               \cup {g.inputs[name].port : name \in given}
      Arg(port) ==
        IF port \in DOMAIN n.inputs
        THEN Term("literal", n.inputs[port].json, n.inputs[port].value, << >>)
        ELSE IF \E e \in EdgesInto(g, id) : e.in = port
        THEN LET e == CHOOSE e \in EdgesInto(g, id) : e.in = port
             IN  Meaning(g, registry, env, e.src, e.out)
        ELSE env[CHOOSE name \in given : g.inputs[name].port = port]
      args == [port \in ports |-> Arg(port)]
  IN  IF n.type \in DOMAIN registry
      THEN LET child == registry[n.type]
           IN  Meaning(child, registry, args, child.outputs[out].node, child.outputs[out].port)
      ELSE Term(n.type, out, 0, args)

Env(g) == [name \in DOMAIN g.inputs |-> Term("input", name, 0, << >>)]

\* An accepted graph computes, expanded, exactly what its calls say it computes: no edge,
\* literal or binding at the border of a call is lost or sent elsewhere (_inline_call).
ExpansionKeepsMeaning ==
  stage = "validated" =>
    \A name \in DOMAIN workflow.graph.outputs :
      LET submitted == workflow.graph.outputs[name]
          final == expanded.outputs[name]
      IN  Meaning(workflow.graph, workflow.registry, Env(workflow.graph),
                  submitted.node, submitted.port)
          = Meaning(expanded, NoCalls, Env(expanded), final.node, final.port)

\* Two nodes with one cache key compute the same thing from the same inputs: a cached result
\* is never taken for another node's (node_cache_key and the upstream keys of compile).
CacheKeysAreSound ==
  stage = "validated" =>
    LET keys == CacheKeys(expanded)
    IN  \A a, b \in Ids(expanded) :
          keys[a] = keys[b] =>
            Meaning(expanded, NoCalls, Env(expanded), a, NoText)
            = Meaning(expanded, NoCalls, Env(expanded), b, NoText)

================================================================================
