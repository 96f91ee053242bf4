----------------------------- MODULE WorkflowGraph -----------------------------
(***************************************************************************)
(* Workflow graphs and their topology (graph/types.py, graph/topology.py). *)
(*                                                                         *)
(* A graph is a record                                                     *)
(*    [version, nodes, edges, inputs, outputs]                             *)
(* whose nodes [id, type, inputs, meta] and edges [src, out, dst, in] are  *)
(* kept in sequences, because the code accepts a node or an edge twice and *)
(* must report it, and whose inputs and outputs map a name to a port       *)
(* [node, port].  A node's own inputs map a port to a literal              *)
(* [json, value]: the JSON type and a number that stands for the value (a  *)
(* list's length, the truth of a boolean).                                 *)
(*                                                                         *)
(* An identifier is a sequence of numbers: <<k>> for a node of a stored    *)
(* graph, and the call's identifier followed by the inner one for a clone  *)
(* of a subgraph's node.  The order of identifiers is arbitrary in the     *)
(* code (the text of a UUID); here it is the lexicographic one.            *)
(***************************************************************************)
EXTENDS Naturals, SequencesExt

NoText == ""

Ids(g) == {n.id : n \in Range(g.nodes)}

\* The node a dictionary keyed by identifier holds.
NodeOf(g, id) == CHOOSE n \in Range(g.nodes) : n.id = id

EdgesInto(g, id) == {e \in Range(g.edges) : e.dst = id}

EdgesFrom(g, id) == {e \in Range(g.edges) : e.src = id}

Sources(g) == [id \in Ids(g) |-> {e.src : e \in EdgesInto(g, id)}]

Targets(g) == [id \in Ids(g) |-> {e.dst : e \in EdgesFrom(g, id)}]

\* str(a) < str(b)
Before(a, b) ==
  \/ IsStrictPrefix(a, b)
  \/ \E i \in DOMAIN a \cap DOMAIN b :
       a[i] < b[i] /\ SubSeq(a, 1, i - 1) = SubSeq(b, 1, i - 1)

First(S) == CHOOSE x \in S : \A y \in S \ {x} : Before(x, y)

\* sorted(S, key=str)
InOrder(S) ==
  [i \in 1..Cardinality(S) |->
    CHOOSE x \in S : Cardinality({y \in S : Before(y, x)}) = i - 1]

\* Kahn's algorithm: the nodes whose edges all come from nodes already placed.
Ready(ids, edges, placed) ==
  {id \in ids \ placed : \A e \in Range(edges) : e.dst = id => e.src \in placed}

Layers(ids, edges) ==
  LET after[placed \in SUBSET ids] ==
        LET layer == Ready(ids, edges, placed)
        IN  IF layer = {} THEN << >> ELSE <<InOrder(layer)>> \o after[placed \cup layer]
  IN  after[{}]

\* The nodes CycleError names.
Unplaced(ids, edges) == ids \ Range(FlattenSeq(Layers(ids, edges)))

\* Mutant: only one target of a node counts.
PathLengthsOfFirst(g) ==
  LET targets == Targets(g)
      length[id \in Ids(g)] == 1 + (IF targets[id] = {} THEN 0 ELSE length[First(targets[id])])
  IN  [id \in Ids(g) |-> length[id]]

\* A node's length is one more than that of the longest of its targets.
PathLengths(g) ==
  LET targets == Targets(g)
      length[id \in Ids(g)] ==
        1 + Max({0} \cup {length[t] : t \in targets[id]})
  IN  [id \in Ids(g) |-> length[id]]

\* From the longest root, each time the first target that is one shorter.
CriticalPath(g, lengths) ==
  LET targets == Targets(g)
      roots == {id \in Ids(g) : EdgesInto(g, id) = {}}
      path[id \in Ids(g)] ==
        LET next == {t \in targets[id] : lengths[t] = lengths[id] - 1}
        IN  <<id>> \o (IF next = {} THEN << >> ELSE path[First(next)])
      longest == {r \in roots : \A other \in roots : lengths[other] <= lengths[r]}
  IN  IF Ids(g) = {} THEN << >> ELSE path[First(longest)]

IsClosed(T, next) == \A x \in T : next[x] \subseteq T

\* The least set that holds S and what comes next to each of its members.
Closure(S, next) ==
  {x \in DOMAIN next :
    \A T \in SUBSET DOMAIN next : S \subseteq T /\ IsClosed(T, next) => x \in T}

================================================================================
