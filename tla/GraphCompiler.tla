----------------------------- MODULE GraphCompiler -----------------------------
(***************************************************************************)
(* Compilation of a workflow graph into an execution plan                  *)
(* (graph/compiler.py, graph/cache.py), one action per pass of             *)
(* GraphCompiler.compile: the structure, the expansion of the calls, the   *)
(* validation of the expanded graph, the steps and the chains of nodes     *)
(* fused into one step, the control regions, and the plan, whose           *)
(* contracts check it once more when it is built.                          *)
(*                                                                         *)
(* A cache key is kept as the content that is hashed, so equal keys are    *)
(* equal contents: digests do not collide.                                 *)
(***************************************************************************)
EXTENDS GraphValidation

CONSTANT Workflows   \* the [graph, registry] that may be submitted

VARIABLES
  workflow,      \* what is compiled
  stage,         \* the passes done, or how the compilation ended
  diagnostics,
  expanded,      \* the expanded graph
  traces,        \* of the calls it replaced
  path,          \* the critical path
  steps,         \* the plan's steps, in order
  regions        \* its control regions, by controller

vars == <<workflow, stage, diagnostics, expanded, traces, path, steps, regions>>

NoGraph == [version |-> 0, nodes |-> << >>, edges |-> << >>, inputs |-> << >>, outputs |-> << >>]

Init ==
  /\ workflow \in Workflows
  /\ stage = "submitted"
  /\ diagnostics = {}
  /\ expanded = NoGraph
  /\ traces = << >>
  /\ path = << >>
  /\ steps = << >>
  /\ regions = << >>

--------------------------------------------------------------------------------
(* Steps *)

Definition(g, id) == Catalogue[NodeOf(g, id).type]

\* The names of the graph's inputs that are bound to a node.
ExternalInputs(g, id) == {name \in DOMAIN g.inputs : g.inputs[name].node = id}

\* A step is constant when nothing it is computed from comes from outside the graph.
Constants(g) ==
  LET sources == Sources(g)
      constant[id \in Ids(g)] ==
        ExternalInputs(g, id) = {} /\ \A source \in sources[id] : constant[source]
  IN  [id \in Ids(g) |-> constant[id]]

\* Mutant: the key does not say which output of the node is read.
UpstreamKeyWithoutPort(key, port) == [key |-> <<key>>, port |-> NoText]

UpstreamKey(key, port) == [key |-> <<key>>, port |-> port]

UpstreamInput(name) == [key |-> << >>, port |-> name]

\* node_cache_key: a node's content, without its identifier.
NodeKey(n, upstream) ==
  [type |-> n.type, inputs |-> n.inputs, meta |-> n.meta, upstream |-> upstream]

\* For each port that is fed, the key of the node that feeds it and the port it comes from.
CacheKeys(g) ==
  LET key[id \in Ids(g)] ==
        LET n == NodeOf(g, id)
            Fed(port) ==
              IF \E name \in ExternalInputs(g, id) : g.inputs[name].port = port
              THEN UpstreamInput(CHOOSE name \in ExternalInputs(g, id) : g.inputs[name].port = port)
              ELSE LET e == CHOOSE e \in EdgesInto(g, id) : e.in = port
                   IN  UpstreamKey(key[e.src], e.out)
            fed == {e.in : e \in EdgesInto(g, id)}
                   \cup {g.inputs[name].port : name \in ExternalInputs(g, id)}
        IN  NodeKey(n, [port \in fed |-> Fed(port)])
  IN  [id \in Ids(g) |-> key[id]]

ControlOf(n) ==
  IF n.type = ForEach THEN "loop" ELSE IF n.type = Switch THEN "condition" ELSE NoText

Cacheable(g, id, constants) ==
  LET def == Definition(g, id)
  IN  /\ constants[id]
      /\ def.pure
      /\ def.deterministic
      /\ def.cached
      /\ def.effects = {}
      /\ ControlOf(NodeOf(g, id)) = NoText
      /\ ~def.resources.network

\* The parts of a group run together and need the sum; the members of a chain and the groups
\* of a plan run one after the other and need the largest.  Video memory is treated as ram is.
Combined(resources, ram) ==
  [gpu |-> Max({0} \cup {r.gpu : r \in Range(resources)}),
   ram |-> ram,
   network |-> \E r \in Range(resources) : r.network]

Rams(resources) == [i \in DOMAIN resources |-> resources[i].ram]

Together(resources) == Combined(resources, FoldLeft(+, 0, Rams(resources)))

InTurn(resources) == Combined(resources, Max({0} \cup Range(Rams(resources))))

--------------------------------------------------------------------------------
(* Fusion *)

\* A definition's runtime is that of its package, and NoText when no manifest declares both.
SameRuntime(source, target) == source.runtime # NoText /\ source.runtime = target.runtime

\* Mutant: the first node may feed others as well, as long as the second one has no other input.
CanFuseSharedSource(g, e) ==
  LET source == Definition(g, e.src)
      target == Definition(g, e.dst)
  IN  /\ source.fusion # NoText /\ source.fusion = target.fusion
      /\ EdgesInto(g, e.dst) = {e}
      /\ Cardinality({d \in EdgesFrom(g, e.src) : Definition(g, d.dst).fusion # NoText}) = 1
      /\ e.dst \notin {b.node : b \in Range(g.inputs)}
      /\ SameRuntime(source, target)

\* Two nodes may be run as one step when they are pure, of one kind and one runtime, and the
\* edge between them is the only way out of the first and into the second.
CanFuse(g, e) ==
  LET source == Definition(g, e.src)
      target == Definition(g, e.dst)
  IN  /\ source.fusion # NoText /\ source.fusion = target.fusion
      /\ source.pure /\ source.deterministic /\ target.pure /\ target.deterministic
      /\ source.effects = {} /\ target.effects = {}
      /\ EdgesFrom(g, e.src) = {e}
      /\ EdgesInto(g, e.dst) = {e}
      /\ e.src \notin {b.node : b \in Range(g.outputs)}
      /\ e.dst \notin {b.node : b \in Range(g.inputs)}
      /\ ControlOf(NodeOf(g, e.src)) = NoText /\ ControlOf(NodeOf(g, e.dst)) = NoText
      /\ SameRuntime(source, target)
      /\ ~source.resources.network
      /\ source.outputs[e.out] = target.inputs[e.in]

\* The chain that starts at a node.
ChainFrom(g) ==
  LET fusible == {e \in Range(g.edges) : CanFuse(g, e)}
      chain[id \in Ids(g)] ==
        <<id>> \o (IF \E e \in fusible : e.src = id
                   THEN chain[(CHOOSE e \in fusible : e.src = id).dst] ELSE << >>)
  IN  [id \in Ids(g) |-> chain[id]]

\* The first node of the order starts a chain; its members are not looked at again.
UnitsOf(order, chains) ==
  LET units[rest \in Seq(Range(order))] ==
        IF rest = << >> THEN << >>
        ELSE LET unit == chains[Head(rest)]
             IN  <<unit>> \o units[SelectSeq(rest, LAMBDA id : id \notin Range(unit))]
  IN  units[order]

\* The member a unit is known by.
Representatives(g, units) ==
  [id \in Ids(g) |-> (CHOOSE unit \in Range(units) : id \in Range(unit))[1]]

UnitEdges(g, rep) ==
  LET crossing == SelectSeq(g.edges, LAMBDA e : rep[e.src] # rep[e.dst])
  IN  [i \in DOMAIN crossing |-> [crossing[i] EXCEPT !.src = rep[@], !.dst = rep[@]]]

FusedKey(unit, keys) ==
  [members |-> unit, keys |-> [i \in DOMAIN unit |-> keys[unit[i]]]]

\* The units, the member each node's unit is known by, and the units' layers.
LaidOut(units, rep, edges) ==
  [units |-> units, rep |-> rep, edges |-> edges,
   layers |-> Layers({unit[1] : unit \in Range(units)}, edges)]

Layout(g, units) ==
  LET rep == Representatives(g, units)
  IN  LaidOut(units, rep, UnitEdges(g, rep))

\* What the nodes' own steps carry.
Facts(g, critical) ==
  [lengths |-> PathLengths(g), constants |-> Constants(g), keys |-> CacheKeys(g),
   critical |-> Range(critical)]

StepOf(g, layout, facts, i) ==
  LET id == FlattenSeq(layout.layers)[i]
      members == CHOOSE unit \in Range(layout.units) : unit[1] = id
      rep == layout.rep
  IN  [index |-> i, id |-> id, members |-> members,
       group |-> CHOOSE k \in DOMAIN layout.layers : id \in Range(layout.layers[k]),
       incoming |-> {e \in Range(g.edges) : rep[e.dst] = id /\ rep[e.src] # id},
       dependencies |-> {e.src : e \in {e \in Range(layout.edges) : e.dst = id}},
       dependents |-> {e.dst : e \in {e \in Range(layout.edges) : e.src = id}},
       key |-> FusedKey(members, facts.keys),
       constant |-> \A m \in Range(members) : facts.constants[m],
       cacheable |-> \A m \in Range(members) : Cacheable(g, m, facts.constants),
       length |-> Max({facts.lengths[m] : m \in Range(members)}),
       critical |-> Range(members) \cap facts.critical # {},
       resources |-> InTurn([m \in DOMAIN members |-> Definition(g, members[m]).resources]),
       control |-> IF Len(members) = 1 THEN ControlOf(NodeOf(g, id)) ELSE NoText]

\* The steps of the plan: one for each unit, in the layers of the units.
Laid(g, layout, facts) ==
  [i \in DOMAIN FlattenSeq(layout.layers) |-> StepOf(g, layout, facts, i)]

StepsOf(g, order, critical) ==
  Laid(g, Layout(g, UnitsOf(order, ChainFrom(g))), Facts(g, critical))

--------------------------------------------------------------------------------
(* Control regions *)

StepOfNode(sequence, id) == CHOOSE s \in Range(sequence) : id \in Range(s.members)

\* _ordered_representatives: the steps that run a set of nodes.  Nothing reads their order.
StepsRunning(sequence, ids) == {StepOfNode(sequence, id).id : id \in ids}

Boundaries(g, loop) ==
  {id \in Closure(Targets(g)[loop], Targets(g)) : NodeOf(g, id).type = Collect}

\* What the loop feeds on the way to one of its boundaries.
Body(g, loop) ==
  LET descendants == Closure(Targets(g)[loop], Targets(g))
      leading == UNION {Closure(Sources(g)[b], Sources(g)) : b \in Boundaries(g, loop)}
  IN  (leading \cap descendants) \ (Boundaries(g, loop) \cup {loop})

Iterable(g, loop) ==
  Closure({e.src : e \in {e \in EdgesInto(g, loop) : e.in = "items"}}, Sources(g)) \ {loop}

Loops(g) == {n.id : n \in {n \in Range(g.nodes) : n.type = ForEach}}

MalformedLoops(g) == {loop \in Loops(g) : Targets(g)[loop] # {} /\ Boundaries(g, loop) = {}}

BranchNames == {"true_value", "false_value"}

\* Mutant: what both branches share is left in both.
BranchWithShared(g, switch, name) ==
  LET Feeding(port) ==
        Closure({e.src : e \in {e \in EdgesInto(g, switch) : e.in = port}}, Sources(g))
  IN  Feeding(name) \ (Feeding("condition") \cup {switch} \cup Loops(g))

\* What feeds a branch of a switch, unless it also feeds the other branch or the condition,
\* and except the loops the switch stands in.
Branch(g, switch, name) ==
  LET Feeding(port) ==
        Closure({e.src : e \in {e \in EdgesInto(g, switch) : e.in = port}}, Sources(g))
      shared == Feeding("true_value") \cap Feeding("false_value")
      enclosing == {loop \in Loops(g) : switch \in Body(g, loop)}
  IN  Feeding(name) \ (shared \cup Feeding("condition") \cup {switch} \cup enclosing)

NoSteps == {}

DraftOf(g, sequence, step) ==
  IF step.control = "condition"
  THEN [kind |-> "condition", max |-> 0,
        branches |-> [name \in BranchNames |-> StepsRunning(sequence, Branch(g, step.id, name))],
        iterable |-> NoSteps, body |-> NoSteps, boundary |-> NoSteps]
  ELSE [kind |-> "loop", max |-> LoopBound(NodeOf(g, step.id)),
        branches |-> [name \in {} |-> NoSteps],
        iterable |-> StepsRunning(sequence, Iterable(g, step.id)),
        body |-> StepsRunning(sequence, Body(g, step.id)),
        boundary |-> StepsRunning(sequence, Boundaries(g, step.id))]

DraftsOf(g, sequence) ==
  [id \in {s.id : s \in {s \in Range(sequence) : s.control # NoText}} |->
    DraftOf(g, sequence, StepOfNode(sequence, id))]

\* Mutant: the body of a loop is forgotten.
MembersWithoutBody(draft) ==
  draft.iterable \cup draft.boundary \cup UNION Range(draft.branches)

MembersOf(draft) ==
  draft.iterable \cup draft.body \cup draft.boundary \cup UNION Range(draft.branches)

\* The smallest region that holds the controller, the earlier one of two; {} if there is none.
ParentOf(drafts, sequence, id) ==
  LET around == {c \in DOMAIN drafts \ {id} : id \in MembersOf(drafts[c])}
      Size(c) == Cardinality(MembersOf(drafts[c]))
      Closer(c, d) ==
        \/ Size(c) < Size(d)
        \/ Size(c) = Size(d)
           /\ StepOfNode(sequence, c).index <= StepOfNode(sequence, d).index
  IN  {c \in around : \A d \in around : Closer(c, d)}

RegionsOf(drafts, sequence) ==
  LET parent == [id \in DOMAIN drafts |-> ParentOf(drafts, sequence, id)]
      depth[id \in DOMAIN drafts] ==
        IF parent[id] = {} THEN 0 ELSE 1 + depth[CHOOSE p \in parent[id] : TRUE]
      RegionOf(draft, id) ==
        [kind |-> draft.kind, max |-> draft.max, branches |-> draft.branches,
         iterable |-> draft.iterable, body |-> draft.body, boundary |-> draft.boundary,
         parent |-> parent[id], depth |-> depth[id]]
  IN  [id \in DOMAIN drafts |-> RegionOf(drafts[id], id)]

\* A controller that is among its own ancestors.
CyclicNesting(drafts, sequence) ==
  LET parent == [id \in DOMAIN drafts |-> ParentOf(drafts, sequence, id)]
  IN  \E id \in DOMAIN drafts : id \in Closure(parent[id], parent)

--------------------------------------------------------------------------------
(* The contracts of the plan and of its parts, which raise when they do not hold. *)

GroupsOf(sequence) ==
  LET Grouped(k) ==
        LET members == SelectSeq(sequence, LAMBDA s : s.group = k)
            needed == UNION {s.dependencies : s \in Range(members)}
        IN  [steps |-> members,
             dependencies |-> {StepOfNode(sequence, d).group : d \in needed} \ {k},
             resources |-> Together([i \in DOMAIN members |-> members[i].resources])]
  IN  [k \in 1..Max({0} \cup {s.group : s \in Range(sequence)}) |-> Grouped(k)]

PeakOf(groups) == InTurn([k \in DOMAIN groups |-> groups[k].resources])

StepContract(g, s) ==
  LET members == Range(s.members)
  IN  /\ s.members[1] = s.id
      /\ Cardinality(members) = Len(s.members)
      /\ members \cap (s.dependencies \cup s.dependents) = {}
      /\ \A e \in s.incoming : e.dst \in members /\ e.src \notin members
      /\ s.control # NoText => members = {s.id}

FusionContract(g, s) ==
  \A i \in 1..Len(s.members) - 1 :
    \E e \in Range(g.edges) : e.src = s.members[i] /\ e.dst = s.members[i + 1]

RegionContract(c, region) ==
  /\ c \notin region.parent
  /\ region.depth \in Nat
  /\ (region.parent = {}) <=> (region.depth = 0)
  /\ c \notin region.iterable \cup region.body \cup region.boundary
  /\ \A a, b \in DOMAIN region.branches :
       a # b => region.branches[a] \cap region.branches[b] = {}
  /\ region.body \cap (region.iterable \cup region.boundary) = {}

\* A branch that is not empty has a step without a dependency and one without a dependent in it.
BranchContract(sequence, branch) ==
  LET S == {s \in Range(sequence) : s.id \in branch}
  IN  S # {} => /\ \E s \in S : s.dependencies \cap branch = {}
                /\ \E s \in S : s.dependents \cap branch = {}

GroupContract(group, k) == group.steps # << >> /\ \A d \in group.dependencies : d < k

TraceContract(t) ==
  t.members # {} /\ t.parent # t.call /\ ((t.parent = << >>) <=> (t.depth = 0))

\* The traces form a tree, and the members of a trace are among those of its parent.
TracesAreNested(g, all) ==
  /\ Cardinality({t.call : t \in Range(all)}) = Len(all)
  /\ \A t \in Range(all) :
       /\ t.members \subseteq Ids(g)
       /\ t.parent # << >> =>
            \E p \in Range(all) :
              p.call = t.parent /\ t.depth = p.depth + 1 /\ t.members \subseteq p.members

PlanContract(g, order, critical, sequence, controls, calls) ==
  LET groups == GroupsOf(sequence)
      Position(id) == CHOOSE i \in DOMAIN order : order[i] = id
      stepIds == {s.id : s \in Range(sequence)}
  IN  /\ Len(order) = Len(g.nodes) /\ Range(order) = Ids(g)
      /\ \A e \in Range(g.edges) : Position(e.src) < Position(e.dst)
      /\ \A i \in 1..Len(critical) - 1 : Position(critical[i]) < Position(critical[i + 1])
      /\ sequence \in Seq(Range(sequence)) /\ \A i \in DOMAIN sequence : sequence[i].index = i
      /\ UNION {Range(s.members) : s \in Range(sequence)} = Ids(g)
      /\ \A s, t \in Range(sequence) :
           s # t => s.id # t.id /\ Range(s.members) \cap Range(t.members) = {}
      /\ \A s, t \in Range(sequence) : s.id \in t.dependencies <=> t.id \in s.dependents
      /\ \A s \in Range(sequence) : s.dependencies \cup s.dependents \subseteq stepIds
      /\ FlattenSeq([k \in DOMAIN groups |-> groups[k].steps]) = sequence
      /\ \A k \in DOMAIN groups : GroupContract(groups[k], k)
      /\ \A s \in Range(sequence) : StepContract(g, s) /\ FusionContract(g, s)
      /\ DOMAIN controls = {s.id : s \in {s \in Range(sequence) : s.control # NoText}}
      /\ \A c \in DOMAIN controls :
           /\ RegionContract(c, controls[c])
           /\ MembersOf(controls[c]) \subseteq stepIds
           /\ \A name \in DOMAIN controls[c].branches :
                BranchContract(sequence, controls[c].branches[name])
           /\ \A p \in controls[c].parent :
                p \in DOMAIN controls /\ controls[c].depth = controls[p].depth + 1
      /\ TracesAreNested(g, calls) /\ \A t \in Range(calls) : TraceContract(t)
      /\ {b.node : b \in Range(g.outputs)} \subseteq Ids(g)

--------------------------------------------------------------------------------
(* The passes *)

Order(g) == FlattenSeq(Layers(Ids(g), g.edges))

\* A pass that ends the compilation when there are errors, and leads to the next one if not.
Leads(errors, next) == stage' = IF errors = {} THEN next ELSE "rejected"

CheckStructure ==
  /\ stage = "submitted"
  /\ LET found == ValidateStructure(workflow.graph, workflow.registry)
     IN  Leads(Errors(found), "structured") /\ diagnostics' = found
  /\ UNCHANGED <<workflow, expanded, traces, path, steps, regions>>

ExpandSubgraphs ==
  /\ stage = "structured"
  /\ LET result == Expand(workflow.graph, workflow.registry)
         found == ReportIf(result.code # NoText, result.code)
     IN  /\ Leads(found, "expanded")
         /\ diagnostics' = found
         /\ expanded' = IF found = {} THEN result.graph ELSE NoGraph
         /\ traces' = result.traces
  /\ UNCHANGED <<workflow, path, steps, regions>>

ValidateExpanded ==
  /\ stage = "expanded"
  /\ LET found == Validate(expanded)
     IN  Leads(Errors(found), "validated") /\ diagnostics' = found
  /\ UNCHANGED <<workflow, expanded, traces, path, steps, regions>>

PlanSteps ==
  /\ stage = "validated"
  /\ stage' = "scheduled"
  /\ path' = CriticalPath(expanded, PathLengths(expanded))
  /\ steps' = StepsOf(expanded, Order(expanded), path')
  /\ UNCHANGED <<workflow, diagnostics, expanded, traces, regions>>

DeriveRegions ==
  /\ stage = "scheduled"
  /\ LET drafts == DraftsOf(expanded, steps)
         cyclic == CyclicNesting(drafts, steps)
         found == Report(MalformedLoops(expanded), "malformed_loop_region")
                  \cup ReportIf(cyclic, "invalid_control_nesting")
     IN  /\ Leads(found, "controlled")
         /\ diagnostics' = diagnostics \cup found
         /\ regions' = IF cyclic THEN << >> ELSE RegionsOf(drafts, steps)
  /\ UNCHANGED <<workflow, expanded, traces, path, steps>>

\* A contract that does not hold raises ValueError, which is no GraphCompilationError.
BuildPlan ==
  /\ stage = "controlled"
  /\ stage' = IF PlanContract(expanded, Order(expanded), path, steps, regions, traces)
              THEN "planned" ELSE "raised"
  /\ UNCHANGED <<workflow, diagnostics, expanded, traces, path, steps, regions>>

Ended == stage \in {"planned", "rejected", "raised"}

Next ==
  CheckStructure \/ ExpandSubgraphs \/ ValidateExpanded \/ PlanSteps \/ DeriveRegions \/ BuildPlan

Spec == Init /\ [][Next]_vars

--------------------------------------------------------------------------------
(* Properties *)

\* Whatever is submitted ends in a plan or in a list of diagnostics: no contract of the plan
\* or of its parts (ExecutionPlan.__post_init__ and the others) is the first to find a fault.
CompilationNeverRaises == stage # "raised"

\* The groups can be run one after the other, the steps of each all at once: what enters a
\* step comes from the end of a step of an earlier group and goes to the step's beginning,
\* what the plan returns is the end of a step, and the peak is enough for every group.
PlanCanRun ==
  stage = "planned" =>
    LET groups == GroupsOf(steps)
        Ends(S) == {Last(s.members) : s \in S}
        Inner(s) == {<<s.members[i], s.members[i + 1]>> : i \in 1..Len(s.members) - 1}
        Need(k) == FoldLeft(LAMBDA sum, s : sum + s.resources.ram, 0, groups[k].steps)
    IN  /\ \A s \in Range(steps) : \A e \in Range(expanded.edges) :
             e.dst \in Range(s.members) =>
               \/ <<e.src, e.dst>> \in Inner(s)
               \/ /\ e.dst = s.id
                  /\ e.src \in Ends({t \in Range(steps) : t.group < s.group})
        /\ \A b \in Range(expanded.outputs) : b.node \in Ends(Range(steps))
        /\ \A k \in DOMAIN groups : Need(k) <= PeakOf(groups).ram
        /\ \A s \in Range(steps) : \A id \in Range(s.members) :
             Definition(expanded, id).resources.ram <= s.resources.ram

\* The critical path is a path, and no path is longer: it has a node in every layer.
CriticalPathIsLongest ==
  stage = "scheduled" =>
    /\ Len(path) = Len(Layers(Ids(expanded), expanded.edges))
    /\ \A i \in 1..Len(path) - 1 : path[i + 1] \in Targets(expanded)[path[i]]
    /\ \A s \in Range(steps) : s.critical <=> Range(s.members) \cap Range(path) # {}

\* What a loop feeds without passing a boundary, and whether all of it leads to one.
FedBy(g, loop) ==
  Closure(Targets(g)[loop],
          [id \in Ids(g) |-> IF NodeOf(g, id).type = Collect THEN {} ELSE Targets(g)[id]])

Terminates(g, loop) == FedBy(g, loop) \subseteq Body(g, loop) \cup Boundaries(g, loop)

Above(id) == Closure(regions[id].parent, [c \in DOMAIN regions |-> regions[c].parent])

\* The loop feeds every other loop whose body has a control node in common with its own.
IsOutermost(loop) ==
  \A other \in DOMAIN regions \ {loop} :
    regions[other].body \cap regions[loop].body \cap DOMAIN regions # {} =>
      other \in regions[loop].body

\* The control nodes a loop feeds all lead to one of its boundaries.
EndsControl(loop) ==
  Closure(Targets(expanded)[loop], Targets(expanded)) \cap DOMAIN regions
    \subseteq regions[loop].body

\* The control nodes in the body of such a loop are nested in its region, however many other
\* regions stand between the two (parent_for, resolve_depth): although a parent is chosen by
\* size alone, no chain of parents leaves the body but through the loop.
BodiesAreNested ==
  stage = "planned" =>
    \A loop, id \in DOMAIN regions :
      IsOutermost(loop) /\ EndsControl(loop) /\ id \in regions[loop].body => loop \in Above(id)

\* The regions of a plan form a forest, although each parent is chosen by itself, by size
\* (parent_for): a region has at most one parent, and from every region the parents lead to one
\* whose controller is in no other region.
RegionsFormAForest ==
  stage = "planned" =>
    \A c \in DOMAIN regions :
      /\ \A p, q \in regions[c].parent : p = q
      /\ \E root \in Above(c) \cup {c} :
           \A d \in DOMAIN regions \ {root} : root \notin MembersOf(regions[d])

\* Not so for every loop whose body ends at its boundaries, as one would conclude from
\* test_nested_condition_region_is_owned_by_enclosing_loop (tests/unit/graph/test_compiler.py:762).
BodiesAreOwned ==
  stage = "planned" =>
    \A loop, id \in DOMAIN regions :
      Terminates(expanded, loop) /\ id \in regions[loop].body => loop \in Above(id)

\* "a for-each body must terminate at an NG Collect boundary" (the diagnostic of compile):
\* no accepted loop feeds a node that leads to no collect.
LoopBodiesTerminate ==
  stage = "planned" => \A loop \in Loops(expanded) : Terminates(expanded, loop)

================================================================================
