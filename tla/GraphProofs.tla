------------------------------ MODULE GraphProofs ------------------------------
(***************************************************************************)
(* The control regions of every plan, whatever the workflow, the catalogue *)
(* and the registry: they form a forest, and the control nodes in the body *)
(* of an outermost loop that ends what it controls are nested in its       *)
(* region.                                                                 *)
(***************************************************************************)
EXTENDS GraphCompiler, FiniteSetTheorems, WellFoundedInduction, TLAPS

--------------------------------------------------------------------------------
(* Least elements. *)

LEMMA LeastNumber ==
  ASSUME NEW S \in SUBSET Nat, S # {}
  PROVE  \E n \in S : \A m \in S : n <= m
<1>1. PICK n \in S : \A m \in S : <<m, n>> \notin OpToRel(<, Nat)
  BY NatLessThanWellFounded, WFMin, Zenon
<1>2. \A m \in S : ~(m < n)
  BY <1>1 DEF OpToRel
<1>. QED
  BY <1>2

LEMMA LeastOf ==
  ASSUME NEW S, S # {}, NEW f, \A x \in S : f[x] \in Nat
  PROVE  \E x \in S : \A y \in S : f[x] <= f[y]
<1>1. {f[x] : x \in S} \in SUBSET Nat /\ {f[x] : x \in S} # {}
  OBVIOUS
<1>2. PICK n \in {f[x] : x \in S} : \A m \in {f[x] : x \in S} : n <= m
  BY <1>1, LeastNumber, Zenon
<1>. QED
  BY <1>2

--------------------------------------------------------------------------------
(* Closures. *)

LEMMA ClosureHolds ==
  ASSUME NEW S, NEW next
  PROVE  /\ Closure(S, next) \subseteq DOMAIN next
         /\ S \subseteq DOMAIN next => S \subseteq Closure(S, next)
BY DEF Closure

LEMMA ClosureIsClosed ==
  ASSUME NEW S, NEW next, NEW x \in Closure(S, next), next[x] \subseteq DOMAIN next
  PROVE  next[x] \subseteq Closure(S, next)
BY DEF Closure, IsClosed

LEMMA ClosureIsLeast ==
  ASSUME NEW S, NEW next, NEW T \in SUBSET DOMAIN next, S \subseteq T, IsClosed(T, next)
  PROVE  Closure(S, next) \subseteq T
BY DEF Closure

\* What a member leads to, the set leads to.
LEMMA ClosureIsTransitive ==
  ASSUME NEW S, NEW next, NEW x \in Closure(S, next)
  PROVE  Closure(next[x], next) \subseteq Closure(S, next)
BY DEF Closure, IsClosed

--------------------------------------------------------------------------------
(* The expanded graph. *)

EdgesJoinNodes(g) == \A e \in Range(g.edges) : e.src \in Ids(g) /\ e.dst \in Ids(g)

\* A graph without errors has no edge to or from a node it does not hold.
LEMMA ValidEdges ==
  ASSUME NEW g, Errors(Validate(g)) = {}
  PROVE  EdgesJoinNodes(g)
<1>. DEFINE from == {e \in Range(g.edges) : e.src \in Ids(g)}
            to == {e \in Range(g.edges) : e.dst \in Ids(g)}
<1>1. Errors(Shape(g, NoCalls)) = {}
  <2>1. Shape(g, NoCalls) \subseteq Validate(g)
    BY DEF Validate
  <2>. QED
    BY <2>1 DEF Errors
<1>2. /\ ReportIf(from # Range(g.edges), "missing_source_node") \subseteq Shape(g, NoCalls)
      /\ ReportIf(to # Range(g.edges), "missing_target_node") \subseteq Shape(g, NoCalls)
  BY DEF Shape
<1>3. ASSUME NEW condition, NEW code, code # "unused_output",
             ReportIf(condition, code) \subseteq Shape(g, NoCalls)
      PROVE  ~condition
  <2>. SUFFICES ASSUME condition PROVE FALSE
    OBVIOUS
  <2>1. Diagnostic(code, Nowhere) \in Shape(g, NoCalls)
    BY <1>3 DEF ReportIf
  <2>2. Diagnostic(code, Nowhere).code = code
    BY DEF Diagnostic
  <2>. QED
    BY <2>1, <2>2, <1>1, <1>3 DEF Errors, Warnings
<1>4. ~(from # Range(g.edges)) /\ ~(to # Range(g.edges))
  <2>. HIDE DEF from, to
  <2>. QED
    BY <1>2, <1>3
<1>. QED
  BY <1>4 DEF EdgesJoinNodes

\* What feeds a node through some of its edges, the node is fed by: it is among what they feed.
LEMMA FeedingIsMutual ==
  ASSUME NEW g, EdgesJoinNodes(g), NEW p \in Ids(g),
         NEW S, S \subseteq {e.src : e \in EdgesInto(g, p)},
         NEW x \in Closure(S, Sources(g))
  PROVE  x \in Ids(g) /\ p \in Closure(Targets(g)[x], Targets(g))
<1>. DEFINE T == Targets(g)
            U == {y \in Ids(g) : p \in Closure(T[y], T)}
<1>1. DOMAIN T = Ids(g) /\ DOMAIN Sources(g) = Ids(g)
  BY DEF Targets, Sources
<1>2. \A e \in Range(g.edges) : e.dst \in T[e.src] /\ e.src \in Ids(g) /\ T[e.src] \subseteq Ids(g)
  BY DEF Targets, EdgesFrom, EdgesJoinNodes
<1>3. S \subseteq U
  <2>. SUFFICES ASSUME NEW y \in S PROVE y \in U
    OBVIOUS
  <2>1. PICK e \in Range(g.edges) : e.dst = p /\ e.src = y
    BY DEF EdgesInto
  <2>2. p \in T[y] /\ T[y] \subseteq Ids(g) /\ y \in Ids(g)
    BY <2>1, <1>2
  <2>3. T[y] \subseteq Closure(T[y], T)
    BY <2>2, <1>1, ClosureHolds
  <2>. QED
    BY <2>2, <2>3
<1>4. IsClosed(U, Sources(g))
  <2>. SUFFICES ASSUME NEW y \in U, NEW z \in Sources(g)[y] PROVE z \in U
    BY DEF IsClosed
  <2>1. PICK e \in Range(g.edges) : e.dst = y /\ e.src = z
    BY DEF Sources, EdgesInto
  <2>2. y \in T[z] /\ T[z] \subseteq Ids(g) /\ z \in Ids(g)
    BY <2>1, <1>2
  <2>3. y \in Closure(T[z], T)
    BY <2>2, <1>1, ClosureHolds
  <2>4. Closure(T[y], T) \subseteq Closure(T[z], T)
    BY <2>3, ClosureIsTransitive
  <2>. QED
    BY <2>2, <2>4
<1>5. Closure(S, Sources(g)) \subseteq U
  <2>. HIDE DEF U
  <2>1. U \in SUBSET DOMAIN Sources(g)
    BY <1>1 DEF U
  <2>. QED
    BY <2>1, <1>3, <1>4, ClosureIsLeast
<1>. QED
  BY <1>5

--------------------------------------------------------------------------------
(* The steps of a plan. *)

Controls(sequence) == {s \in Range(sequence) : s.control # NoText}

\* A step that is a control says which.
StepsAreAnnotated(g, sequence) ==
  \A s \in Controls(sequence) : s.control = ControlOf(NodeOf(g, s.id))

LEMMA StepsOfIsAnnotated ==
  ASSUME NEW g, NEW layout, NEW facts
  PROVE  StepsAreAnnotated(g, Laid(g, layout, facts))
<1>1. ASSUME NEW i, StepOf(g, layout, facts, i).control # NoText
      PROVE  StepOf(g, layout, facts, i).control = ControlOf(NodeOf(g, StepOf(g, layout, facts, i).id))
  BY <1>1 DEF StepOf
<1>. QED
  BY <1>1 DEF StepsAreAnnotated, Controls, Laid, Range

\* What the contracts of a plan say of its steps.
Partitioned(g, sequence) ==
  /\ sequence \in Seq(Range(sequence))
  /\ \A i \in DOMAIN sequence : sequence[i].index = i
  /\ UNION {Range(s.members) : s \in Range(sequence)} = Ids(g)
  /\ \A s, t \in Range(sequence) :
       s # t => s.id # t.id /\ Range(s.members) \cap Range(t.members) = {}
  /\ \A s \in Controls(sequence) : Range(s.members) = {s.id}

\* A control node's step is its own.
LEMMA ControlHasOwnStep ==
  ASSUME NEW g, NEW sequence, Partitioned(g, sequence), NEW s \in Controls(sequence)
  PROVE  StepOfNode(sequence, s.id) = s /\ s.id \in Ids(g)
<1>1. s \in Range(sequence) /\ s.id \in Range(s.members)
  BY DEF Partitioned, Controls
<1>2. \A t \in Range(sequence) : s.id \in Range(t.members) => t = s
  BY <1>1 DEF Partitioned
<1>3. StepOfNode(sequence, s.id) = s
  BY <1>1, <1>2 DEF StepOfNode
<1>4. s.id \in Ids(g)
  BY <1>1 DEF Partitioned
<1>. QED
  BY <1>3, <1>4

\* So it runs a set of nodes exactly when it is one of them.
LEMMA ControlRunsItself ==
  ASSUME NEW g, NEW sequence, Partitioned(g, sequence), NEW s \in Controls(sequence),
         NEW X, X \subseteq Ids(g)
  PROVE  s.id \in StepsRunning(sequence, X) <=> s.id \in X
<1>1. s.id \in X => s.id \in StepsRunning(sequence, X)
  BY ControlHasOwnStep DEF StepsRunning
<1>2. ASSUME NEW x \in X, s.id = StepOfNode(sequence, x).id
      PROVE  x = s.id
  <2>1. \E t \in Range(sequence) : x \in Range(t.members)
    BY DEF Partitioned
  <2>2. /\ StepOfNode(sequence, x) \in Range(sequence)
        /\ x \in Range(StepOfNode(sequence, x).members)
    BY <2>1 DEF StepOfNode
  <2>3. StepOfNode(sequence, x) = s
    BY <2>2, <1>2 DEF Partitioned, Controls
  <2>. QED
    BY <2>2, <2>3 DEF Partitioned
<1>. QED
  BY <1>1, <1>2 DEF StepsRunning

--------------------------------------------------------------------------------
(* The drafts of the regions. *)

LEMMA DraftOfControl ==
  ASSUME NEW g, NEW sequence, Partitioned(g, sequence), NEW s \in Controls(sequence)
  PROVE  /\ DOMAIN DraftsOf(g, sequence) = {t.id : t \in Controls(sequence)}
         /\ DraftsOf(g, sequence)[s.id] = DraftOf(g, sequence, s)
<1>1. DOMAIN DraftsOf(g, sequence) = {t.id : t \in Controls(sequence)}
  BY DEF DraftsOf, Controls
<1>2. DraftsOf(g, sequence)[s.id] = DraftOf(g, sequence, StepOfNode(sequence, s.id))
  BY <1>1 DEF DraftsOf, Controls
<1>. QED
  BY <1>1, <1>2, ControlHasOwnStep

\* Everything is found along the edges.
LEMMA RegionsAreInGraph ==
  ASSUME NEW g, NEW c
  PROVE  /\ Boundaries(g, c) \subseteq Ids(g)
         /\ Body(g, c) \subseteq Closure(Targets(g)[c], Targets(g))
         /\ Closure(Targets(g)[c], Targets(g)) \subseteq Ids(g)
         /\ Iterable(g, c) \subseteq Ids(g)
         /\ \A name : Branch(g, c, name) \subseteq Ids(g)
<1>1. DOMAIN Targets(g) = Ids(g) /\ DOMAIN Sources(g) = Ids(g)
  BY DEF Targets, Sources
<1>2. \A S : Closure(S, Targets(g)) \subseteq Ids(g) /\ Closure(S, Sources(g)) \subseteq Ids(g)
  BY <1>1, ClosureHolds
<1>3. Boundaries(g, c) \subseteq Ids(g)
  BY <1>2 DEF Boundaries
<1>4. Body(g, c) \subseteq Closure(Targets(g)[c], Targets(g))
  BY DEF Body
<1>5. Iterable(g, c) \subseteq Ids(g)
  BY <1>2 DEF Iterable
<1>6. \A name : Branch(g, c, name) \subseteq Ids(g)
  BY <1>2 DEF Branch
<1>. QED
  BY <1>2, <1>3, <1>4, <1>5, <1>6

\* A control node in the body of a region is one the controller leads to.
LEMMA BodyIsDownstream ==
  ASSUME NEW g, NEW sequence, Partitioned(g, sequence),
         NEW s \in Controls(sequence), NEW t \in Controls(sequence),
         t.id \in DraftsOf(g, sequence)[s.id].body
  PROVE  t.id \in Closure(Targets(g)[s.id], Targets(g))
<1>1. t.id \in StepsRunning(sequence, Body(g, s.id))
  <2>1. t.id \in DraftOf(g, sequence, s).body
    BY DraftOfControl
  <2>2. s.control # "condition"
    BY <2>1 DEF DraftOf, NoSteps
  <2>. QED
    BY <2>1, <2>2, ControlHasOwnStep DEF DraftOf
<1>2. t.id \in Body(g, s.id)
  BY <1>1, ControlRunsItself, RegionsAreInGraph
<1>. QED
  BY <1>2, RegionsAreInGraph

\* A control node that is in a region but not in its body leads to the controller.
LEMMA MemberIsUpstream ==
  ASSUME NEW g, NEW sequence, EdgesJoinNodes(g), Partitioned(g, sequence),
         StepsAreAnnotated(g, sequence),
         NEW s \in Controls(sequence), NEW t \in Controls(sequence),
         t.id \in MembersOf(DraftsOf(g, sequence)[s.id]),
         t.id \notin DraftsOf(g, sequence)[s.id].body
  PROVE  s.id \in Closure(Targets(g)[t.id], Targets(g))
<1>. DEFINE draft == DraftOf(g, sequence, s)
<1>1. DraftsOf(g, sequence)[s.id] = draft
  BY DraftOfControl
<1>2. s.id \in Ids(g) /\ t.id \in Ids(g)
  BY ControlHasOwnStep
<1>3. t.id \notin draft.boundary
  <2>1. SUFFICES ASSUME t.id \in StepsRunning(sequence, Boundaries(g, s.id)) PROVE FALSE
    BY DEF DraftOf, NoSteps
  <2>2. t.id \in Boundaries(g, s.id)
    BY <2>1, ControlRunsItself, RegionsAreInGraph
  <2>3. NodeOf(g, t.id).type = Collect
    BY <2>2 DEF Boundaries
  <2>4. ControlOf(NodeOf(g, t.id)) # NoText
    BY DEF StepsAreAnnotated, Controls
  <2>. QED
    BY <2>3, <2>4 DEF ControlOf, Collect, ForEach, Switch
<1>4. CASE t.id \in draft.iterable
  <2>1. t.id \in StepsRunning(sequence, Iterable(g, s.id))
    BY <1>4 DEF DraftOf, NoSteps
  <2>2. t.id \in Iterable(g, s.id)
    BY <2>1, ControlRunsItself, RegionsAreInGraph
  <2>. DEFINE S == {e.src : e \in {e \in EdgesInto(g, s.id) : e.in = "items"}}
  <2>3. t.id \in Closure(S, Sources(g)) /\ S \subseteq {e.src : e \in EdgesInto(g, s.id)}
    BY <2>2 DEF Iterable
  <2>. HIDE DEF S
  <2>. QED
    BY <2>3, <1>2, FeedingIsMutual
<1>5. CASE t.id \in UNION Range(draft.branches)
  <2>1. PICK name \in BranchNames : t.id \in StepsRunning(sequence, Branch(g, s.id, name))
    BY <1>5 DEF DraftOf, Range
  <2>2. t.id \in Branch(g, s.id, name)
    BY <2>1, ControlRunsItself, RegionsAreInGraph
  <2>. DEFINE S == {e.src : e \in {e \in EdgesInto(g, s.id) : e.in = name}}
  <2>3. t.id \in Closure(S, Sources(g)) /\ S \subseteq {e.src : e \in EdgesInto(g, s.id)}
    BY <2>2 DEF Branch
  <2>. HIDE DEF S
  <2>. QED
    BY <2>3, <1>2, FeedingIsMutual
<1>6. t.id \in draft.iterable \/ t.id \in UNION Range(draft.branches)
  <2>. HIDE DEF draft
  <2>. QED
    BY <1>1, <1>3 DEF MembersOf
<1>. QED
  BY <1>4, <1>5, <1>6

--------------------------------------------------------------------------------
(* The parents. *)

\* Finitely many steps can be counted.
LEMMA StepsAreCounted ==
  ASSUME NEW sequence, sequence \in Seq(Range(sequence)),
         NEW S, S \subseteq {s.id : s \in Range(sequence)}
  PROVE  Cardinality(S) \in Nat
<1>1. PICK n \in Nat : DOMAIN sequence = 1..n
  OBVIOUS
<1>2. IsFiniteSet(1..n)
  BY FS_Interval
<1>. DEFINE ids == {s.id : s \in Range(sequence)}
            f == [i \in 1..n |-> sequence[i].id]
<1>3. f \in Surjection(1..n, ids)
  BY <1>1 DEF Surjection, Range
<1>. HIDE DEF ids, f
<1>4. IsFiniteSet(ids)
  BY <1>2, <1>3, FS_Surjection
<1>5. S \subseteq ids
  BY DEF ids
<1>. QED
  BY <1>4, <1>5, FS_Subset, FS_CardinalityType

\* Whatever is in a region has a parent: of finitely many regions one is the smallest, and of
\* the smallest one comes first.
LEMMA MembersHaveParents ==
  ASSUME NEW g, NEW sequence, Partitioned(g, sequence),
         NEW drafts, DOMAIN drafts = {t.id : t \in Controls(sequence)},
         \A c \in DOMAIN drafts : MembersOf(drafts[c]) \subseteq {s.id : s \in Range(sequence)},
         NEW id, NEW c \in DOMAIN drafts \ {id}, id \in MembersOf(drafts[c])
  PROVE  ParentOf(drafts, sequence, id) # {}
<1>. DEFINE around == {d \in DOMAIN drafts \ {id} : id \in MembersOf(drafts[d])}
            size == [d \in around |-> Cardinality(MembersOf(drafts[d]))]
            place == [d \in around |-> StepOfNode(sequence, d).index]
<1>1. sequence \in Seq(Range(sequence))
  BY DEF Partitioned
<1>2. \A d \in around : size[d] \in Nat
  BY <1>1, StepsAreCounted
<1>3. \A d \in around : place[d] \in Nat
  <2>. SUFFICES ASSUME NEW d \in around PROVE StepOfNode(sequence, d).index \in Nat
    OBVIOUS
  <2>1. PICK s \in Controls(sequence) : s.id = d
    OBVIOUS
  <2>2. StepOfNode(sequence, d) = s
    BY <2>1, ControlHasOwnStep
  <2>3. PICK i \in DOMAIN sequence : s = sequence[i]
    BY DEF Controls, Range
  <2>4. i \in Nat /\ s.index = i
    BY <2>3 DEF Partitioned
  <2>. QED
    BY <2>2, <2>4
<1>4. c \in around
  OBVIOUS
<1>. HIDE DEF around
<1>5. PICK a \in around : \A d \in around : size[a] <= size[d]
  <2>. HIDE DEF size
  <2>. QED
    BY <1>2, <1>4, LeastOf
<1>. DEFINE least == {d \in around : size[d] = size[a]}
<1>6. a \in least /\ \A d \in least : place[d] \in Nat
  BY <1>3
<1>7. PICK b \in least : \A d \in least : place[b] <= place[d]
  <2>. HIDE DEF least, place
  <2>. QED
    BY <1>6, LeastOf
<1>8. b \in around /\ \A d \in around :
        size[b] < size[d] \/ (size[b] = size[d] /\ place[b] <= place[d])
  <2>1. b \in around /\ size[b] = size[a]
    OBVIOUS
  <2>2. \A d \in around : size[d] = size[a] => place[b] <= place[d]
    BY <1>7
  <2>. HIDE DEF size, place, least
  <2>3. ASSUME NEW d \in around
        PROVE  size[b] < size[d] \/ (size[b] = size[d] /\ place[b] <= place[d])
    <3>1. size[a] <= size[d] /\ size[a] \in Nat /\ size[d] \in Nat
      BY <1>5, <1>2
    <3>. QED
      BY <3>1, <2>1, <2>2
  <2>. QED
    BY <2>1, <2>3
<1>9. b \in ParentOf(drafts, sequence, id)
  BY <1>8 DEF ParentOf, around
<1>. QED
  BY <1>9

--------------------------------------------------------------------------------
(* The invariant: what each pass leaves behind for the next ones. *)

ExpandedIsValid ==
  stage \in {"validated", "scheduled", "controlled", "planned"} =>
    Errors(Validate(expanded)) = {}

ControlsAreAnnotated ==
  stage \in {"scheduled", "controlled", "planned"} => StepsAreAnnotated(expanded, steps)

RegionsAreDerived ==
  stage \in {"controlled", "planned"} =>
    regions = RegionsOf(DraftsOf(expanded, steps), steps)

PlanIsChecked ==
  stage = "planned" => PlanContract(expanded, Order(expanded), path, steps, regions, traces)

PassInv == ExpandedIsValid /\ ControlsAreAnnotated /\ RegionsAreDerived /\ PlanIsChecked

LEMMA InitPassInv == Init => PassInv
BY DEF Init, PassInv, ExpandedIsValid, ControlsAreAnnotated, RegionsAreDerived, PlanIsChecked

LEMMA PassInvIsInductive == PassInv /\ [Next]_vars => PassInv'
<1>. SUFFICES ASSUME PassInv, [Next]_vars
              PROVE  PassInv'
  OBVIOUS
<1>1. CASE CheckStructure
  <2>1. stage' \in {"structured", "rejected"}
    BY <1>1 DEF CheckStructure, Leads
  <2>. QED
    BY <2>1 DEF PassInv, ExpandedIsValid, ControlsAreAnnotated, RegionsAreDerived, PlanIsChecked
<1>2. CASE ExpandSubgraphs
  <2>1. stage' \in {"expanded", "rejected"}
    BY <1>2 DEF ExpandSubgraphs, Leads
  <2>. QED
    BY <2>1 DEF PassInv, ExpandedIsValid, ControlsAreAnnotated, RegionsAreDerived, PlanIsChecked
<1>3. CASE ValidateExpanded
  <2>1. /\ stage' \in {"validated", "rejected"}
        /\ stage' = "validated" => Errors(Validate(expanded)) = {}
        /\ expanded' = expanded
    BY <1>3 DEF ValidateExpanded, Leads
  <2>. QED
    BY <2>1 DEF PassInv, ExpandedIsValid, ControlsAreAnnotated, RegionsAreDerived, PlanIsChecked
<1>4. CASE PlanSteps
  <2>1. stage' = "scheduled" /\ stage = "validated" /\ expanded' = expanded
    BY <1>4 DEF PlanSteps
  <2>2. StepsAreAnnotated(expanded, steps')
    BY <1>4, StepsOfIsAnnotated DEF PlanSteps, StepsOf
  <2>. QED
    BY <2>1, <2>2
    DEF PassInv, ExpandedIsValid, ControlsAreAnnotated, RegionsAreDerived, PlanIsChecked
<1>5. CASE DeriveRegions
  <2>1. /\ stage = "scheduled" /\ stage' \in {"controlled", "rejected"}
        /\ expanded' = expanded /\ steps' = steps
    BY <1>5 DEF DeriveRegions, Leads
  <2>. DEFINE drafts == DraftsOf(expanded, steps)
              cyclic == CyclicNesting(drafts, steps)
              found == Report(MalformedLoops(expanded), "malformed_loop_region")
                       \cup ReportIf(cyclic, "invalid_control_nesting")
  <2>2. /\ stage' = IF found = {} THEN "controlled" ELSE "rejected"
        /\ regions' = IF cyclic THEN << >> ELSE RegionsOf(drafts, steps)
    BY <1>5 DEF DeriveRegions, Leads
  <2>3. stage' = "controlled" => regions' = RegionsOf(drafts, steps)
    <3>1. cyclic => found # {}
      BY DEF ReportIf
    <3>. HIDE DEF found, cyclic, drafts
    <3>. QED
      BY <3>1, <2>2
  <2>. QED
    BY <2>1, <2>3
    DEF PassInv, ExpandedIsValid, ControlsAreAnnotated, RegionsAreDerived, PlanIsChecked
<1>6. CASE BuildPlan
  <2>1. /\ stage = "controlled" /\ stage' \in {"planned", "raised"}
        /\ UNCHANGED <<expanded, steps, path, regions, traces>>
        /\ stage' = "planned" =>
             PlanContract(expanded, Order(expanded), path, steps, regions, traces)
    BY <1>6 DEF BuildPlan
  <2>. QED
    BY <2>1 DEF PassInv, ExpandedIsValid, ControlsAreAnnotated, RegionsAreDerived, PlanIsChecked
<1>7. CASE UNCHANGED vars
  BY <1>7
  DEF vars, PassInv, ExpandedIsValid, ControlsAreAnnotated, RegionsAreDerived, PlanIsChecked
<1>. QED
  BY <1>1, <1>2, <1>3, <1>4, <1>5, <1>6, <1>7 DEF Next

LEMMA PassInvHolds == Spec => []PassInv
<1>. QED
  BY InitPassInv, PassInvIsInductive, PTL DEF Spec

--------------------------------------------------------------------------------
(* The regions of a plan. *)

LEMMA PlanIsPartitioned ==
  ASSUME PassInv, stage = "planned"
  PROVE  /\ Partitioned(expanded, steps)
         /\ StepsAreAnnotated(expanded, steps)
         /\ EdgesJoinNodes(expanded)
<1>1. PlanContract(expanded, Order(expanded), path, steps, regions, traces)
  BY DEF PassInv, PlanIsChecked
<1>2. \A s \in Controls(steps) : Range(s.members) = {s.id}
  BY <1>1 DEF PlanContract, StepContract, Controls
<1>3. Partitioned(expanded, steps)
  BY <1>1, <1>2 DEF PlanContract, Partitioned
<1>. QED
  BY <1>3, ValidEdges DEF PassInv, ExpandedIsValid, ControlsAreAnnotated

\* A region is its draft with a parent and a depth.
LEMMA RegionsOfPlan ==
  ASSUME PassInv, stage = "planned"
  PROVE  /\ DOMAIN regions = {s.id : s \in Controls(steps)}
         /\ \A c \in DOMAIN regions :
              /\ regions[c].parent = ParentOf(DraftsOf(expanded, steps), steps, c)
              /\ regions[c].body = DraftsOf(expanded, steps)[c].body
              /\ MembersOf(regions[c]) = MembersOf(DraftsOf(expanded, steps)[c])
<1>. DEFINE drafts == DraftsOf(expanded, steps)
<1>1. regions = RegionsOf(drafts, steps)
  BY DEF PassInv, RegionsAreDerived
<1>2. DOMAIN drafts = {s.id : s \in Controls(steps)}
  BY DEF DraftsOf, Controls
<1>. HIDE DEF drafts
<1>3. DOMAIN regions = DOMAIN drafts
  BY <1>1 DEF RegionsOf
<1>4. \A c \in DOMAIN drafts :
        /\ regions[c].parent = ParentOf(drafts, steps, c)
        /\ regions[c].iterable = drafts[c].iterable
        /\ regions[c].body = drafts[c].body
        /\ regions[c].boundary = drafts[c].boundary
        /\ regions[c].branches = drafts[c].branches
  BY <1>1 DEF RegionsOf
<1>5. \A c \in DOMAIN drafts : MembersOf(regions[c]) = MembersOf(drafts[c])
  BY <1>4 DEF MembersOf
<1>. QED
  BY <1>2, <1>3, <1>4, <1>5 DEF drafts

--------------------------------------------------------------------------------
(* Nesting. *)

\* A parent of a control node in the loop's body is the loop, or in the body too.
LEMMA ParentsStayInBody ==
  ASSUME PassInv, stage = "planned",
         NEW loop \in DOMAIN regions, IsOutermost(loop), EndsControl(loop),
         NEW id \in DOMAIN regions, id \in regions[loop].body,
         NEW p \in regions[id].parent
  PROVE  p \in DOMAIN regions /\ (p = loop \/ p \in regions[loop].body)
<1>. DEFINE drafts == DraftsOf(expanded, steps)
            T == Targets(expanded)
<1>1. /\ Partitioned(expanded, steps)
      /\ StepsAreAnnotated(expanded, steps)
      /\ EdgesJoinNodes(expanded)
  BY PlanIsPartitioned
<1>2. p \in DOMAIN regions /\ id \in MembersOf(drafts[p])
  BY RegionsOfPlan, <1>1, DraftOfControl DEF ParentOf, DraftsOf, Controls
<1>3. PICK u, s, t \in Controls(steps) : u.id = loop /\ s.id = p /\ t.id = id
  BY <1>2, RegionsOfPlan
<1>4. CASE id \in drafts[p].body
  <2>1. id \in regions[p].body
    BY <1>2, <1>4, RegionsOfPlan
  <2>. QED
    BY <1>2, <2>1 DEF IsOutermost
<1>5. CASE id \notin drafts[p].body
  <2>1. p \in Closure(T[id], T)
    BY <1>1, <1>2, <1>3, <1>5, MemberIsUpstream
  <2>2. id \in Closure(T[loop], T)
    BY <1>1, <1>3, RegionsOfPlan, BodyIsDownstream
  <2>3. p \in Closure(T[loop], T)
    BY <2>1, <2>2, ClosureIsTransitive
  <2>. QED
    BY <1>2, <2>3 DEF EndsControl
<1>. QED
  BY <1>4, <1>5

\* A region whose controller is in another one has a parent.
LEMMA InsideHasParent ==
  ASSUME PassInv, stage = "planned",
         NEW c \in DOMAIN regions, NEW id \in DOMAIN regions \ {c}, id \in MembersOf(regions[c])
  PROVE  regions[id].parent # {}
<1>. DEFINE drafts == DraftsOf(expanded, steps)
<1>1. PlanContract(expanded, Order(expanded), path, steps, regions, traces)
  BY DEF PassInv, PlanIsChecked
<1>2. \A d \in DOMAIN regions : MembersOf(regions[d]) \subseteq {s.id : s \in Range(steps)}
  BY <1>1 DEF PlanContract
<1>3. DOMAIN drafts = DOMAIN regions
  BY RegionsOfPlan DEF DraftsOf, Controls
<1>4. \A d \in DOMAIN drafts : MembersOf(drafts[d]) \subseteq {s.id : s \in Range(steps)}
  BY <1>2, <1>3, RegionsOfPlan
<1>5. id \in MembersOf(drafts[c])
  BY RegionsOfPlan
<1>6. ParentOf(drafts, steps, id) # {}
  <2>1. Partitioned(expanded, steps)
    BY PlanIsPartitioned
  <2>2. DOMAIN drafts = {s.id : s \in Controls(steps)}
    BY <1>3, RegionsOfPlan
  <2>. HIDE DEF drafts
  <2>. QED
    BY <1>3, <1>4, <1>5, <2>1, <2>2, MembersHaveParents
<1>. QED
  BY <1>6, RegionsOfPlan

\* A parent is a region, of a smaller depth.
LEMMA ParentsAreShallower ==
  ASSUME PassInv, stage = "planned", NEW id \in DOMAIN regions
  PROVE  /\ regions[id].depth \in Nat
         /\ \A p \in regions[id].parent :
              p \in DOMAIN regions /\ regions[p].depth < regions[id].depth
<1>1. PlanContract(expanded, Order(expanded), path, steps, regions, traces)
  BY DEF PassInv, PlanIsChecked
<1>2. \A c \in DOMAIN regions :
        /\ regions[c].depth \in Nat
        /\ \A p \in regions[c].parent :
             p \in DOMAIN regions /\ regions[c].depth = regions[p].depth + 1
  BY <1>1 DEF PlanContract, RegionContract
<1>. QED
  BY <1>2

\* A control node in the loop's body has a parent, of a smaller depth.
LEMMA BodyHasParent ==
  ASSUME PassInv, stage = "planned",
         NEW loop \in DOMAIN regions, NEW id \in DOMAIN regions, id \in regions[loop].body
  PROVE  /\ regions[id].parent # {}
         /\ \A p \in regions[id].parent :
              p \in DOMAIN regions /\ regions[p].depth < regions[id].depth
<1>1. PlanContract(expanded, Order(expanded), path, steps, regions, traces)
  BY DEF PassInv, PlanIsChecked
<1>2. loop # id /\ id \in MembersOf(regions[loop])
  BY <1>1 DEF PlanContract, RegionContract, MembersOf
<1>3. regions[id].parent # {}
  BY <1>2, InsideHasParent
<1>. QED
  BY <1>3, ParentsAreShallower

\* Going up from the body, the chain of parents cannot end in the body and cannot go on for
\* ever: it meets the loop.
LEMMA LoopIsAbove ==
  ASSUME PassInv, stage = "planned",
         NEW loop \in DOMAIN regions, IsOutermost(loop), EndsControl(loop),
         NEW id \in DOMAIN regions, id \in regions[loop].body
  PROVE  loop \in Above(id)
<1>. DEFINE next == [c \in DOMAIN regions |-> regions[c].parent]
            inside == {c \in Above(id) : c \in regions[loop].body}
<1>1. SUFFICES ASSUME loop \notin Above(id) PROVE FALSE
  OBVIOUS
<1>2. Above(id) = Closure(regions[id].parent, next) /\ DOMAIN next = DOMAIN regions
  BY DEF Above
<1>3. regions[id].parent \subseteq DOMAIN regions
  BY ParentsStayInBody
<1>4. Above(id) \subseteq DOMAIN regions /\ regions[id].parent \subseteq Above(id)
  <2>. HIDE DEF next
  <2>. QED
    BY <1>2, <1>3, ClosureHolds
<1>5. ASSUME NEW c \in inside, NEW p \in regions[c].parent
      PROVE  p \in inside
  <2>1. c \in DOMAIN regions /\ c \in regions[loop].body
    BY <1>4
  <2>2. p \in DOMAIN regions /\ (p = loop \/ p \in regions[loop].body)
    BY <2>1, ParentsStayInBody
  <2>3. next[c] \subseteq DOMAIN next
    BY <2>1, ParentsStayInBody
  <2>4. next[c] \subseteq Above(id)
    <3>. HIDE DEF next
    <3>. QED
      BY <1>2, <2>3, ClosureIsClosed
  <2>5. p \in Above(id)
    BY <2>1, <2>4
  <2>. QED
    BY <1>1, <2>2, <2>5
<1>6. regions[id].parent \subseteq inside
  BY <1>1, <1>4, ParentsStayInBody
<1>7. PICK c \in inside : \A p \in inside : regions[c].depth <= regions[p].depth
  <2>1. inside # {}
    BY <1>6, BodyHasParent
  <2>. DEFINE depth == [x \in inside |-> regions[x].depth]
  <2>2. \A x \in inside : depth[x] \in Nat
    BY <1>4 DEF PassInv, PlanIsChecked, PlanContract, RegionContract
  <2>3. PICK c \in inside : \A p \in inside : depth[c] <= depth[p]
    <3>. HIDE DEF inside, depth
    <3>. QED
      BY <2>1, <2>2, LeastOf
  <2>. QED
    BY <2>3
<1>8. PICK p \in regions[c].parent : regions[p].depth < regions[c].depth
  BY <1>4, BodyHasParent
<1>9. p \in inside /\ c \in DOMAIN regions /\ p \in DOMAIN regions
  BY <1>4, <1>5, <1>8
<1>10. regions[p].depth \in Nat /\ regions[c].depth \in Nat
  BY <1>9 DEF PassInv, PlanIsChecked, PlanContract, RegionContract
<1>. QED
  BY <1>7, <1>8, <1>9, <1>10

\* The control nodes in the body of an outermost loop that ends what it controls are nested in
\* its region, in every plan the compiler returns (parent_for, resolve_depth).
THEOREM LoopsAreNested == Spec => []BodiesAreNested
<1>1. PassInv => BodiesAreNested
  BY LoopIsAbove DEF BodiesAreNested
<1>. QED
  BY <1>1, PassInvHolds, PTL

--------------------------------------------------------------------------------
(* The forest. *)

\* Of two regions around a control node one is smaller or comes first: no two are its parents.
LEMMA OneParent ==
  ASSUME PassInv, stage = "planned", NEW c \in DOMAIN regions,
         NEW p \in regions[c].parent, NEW q \in regions[c].parent
  PROVE  p = q
<1>. DEFINE drafts == DraftsOf(expanded, steps)
            Size(d) == Cardinality(MembersOf(drafts[d]))
            Place(d) == StepOfNode(steps, d).index
<1>1. Partitioned(expanded, steps)
  BY PlanIsPartitioned
<1>2. p \in ParentOf(drafts, steps, c) /\ q \in ParentOf(drafts, steps, c)
  BY RegionsOfPlan
<1>3. /\ p \in DOMAIN drafts /\ q \in DOMAIN drafts
      /\ Size(p) < Size(q) \/ (Size(p) = Size(q) /\ Place(p) <= Place(q))
      /\ Size(q) < Size(p) \/ (Size(q) = Size(p) /\ Place(q) <= Place(p))
  BY <1>2 DEF ParentOf
<1>4. PICK s, t \in Controls(steps) : s.id = p /\ t.id = q
  BY <1>3 DEF DraftsOf, Controls
<1>5. StepOfNode(steps, p) = s /\ StepOfNode(steps, q) = t
  BY <1>1, <1>4, ControlHasOwnStep
<1>6. PICK i, j \in DOMAIN steps : s = steps[i] /\ t = steps[j]
  BY DEF Controls, Range
<1>7. i \in Nat /\ j \in Nat /\ s.index = i /\ t.index = j
  BY <1>1, <1>6 DEF Partitioned
<1>8. Size(p) \in Nat /\ Size(q) \in Nat
  <2>1. steps \in Seq(Range(steps))
    BY <1>1 DEF Partitioned
  <2>2. \A d \in DOMAIN regions : MembersOf(regions[d]) \subseteq {x.id : x \in Range(steps)}
    BY DEF PassInv, PlanIsChecked, PlanContract
  <2>3. p \in DOMAIN regions /\ q \in DOMAIN regions
    BY ParentsAreShallower
  <2>4. MembersOf(drafts[p]) = MembersOf(regions[p]) /\ MembersOf(drafts[q]) = MembersOf(regions[q])
    BY <2>3, RegionsOfPlan
  <2>. QED
    BY <2>1, <2>2, <2>3, <2>4, StepsAreCounted
<1>9. Place(p) = Place(q)
  <2>1. Place(p) = i /\ Place(q) = j
    BY <1>5, <1>7
  <2>. HIDE DEF Size, Place
  <2>. QED
    BY <1>3, <1>7, <1>8, <2>1
<1>. QED
  BY <1>4, <1>5, <1>6, <1>7, <1>9

\* Among a region and those above it one is the shallowest; it has no parent, so its controller
\* is in no other region.
LEMMA RootIsAbove ==
  ASSUME PassInv, stage = "planned", NEW c \in DOMAIN regions
  PROVE  \E root \in Above(c) \cup {c} :
           \A d \in DOMAIN regions \ {root} : root \notin MembersOf(regions[d])
<1>. DEFINE next == [d \in DOMAIN regions |-> regions[d].parent]
            chain == Above(c) \cup {c}
            depth == [d \in chain |-> regions[d].depth]
<1>1. Above(c) = Closure(regions[c].parent, next) /\ DOMAIN next = DOMAIN regions
  BY DEF Above
<1>2. Above(c) \subseteq DOMAIN regions /\ regions[c].parent \subseteq Above(c)
  <2>1. regions[c].parent \subseteq DOMAIN regions
    BY ParentsAreShallower
  <2>. HIDE DEF next
  <2>. QED
    BY <1>1, <2>1, ClosureHolds
<1>3. \A d \in chain : regions[d].parent \subseteq chain
  <2>. SUFFICES ASSUME NEW d \in Above(c) PROVE regions[d].parent \subseteq Above(c)
    BY <1>2
  <2>1. d \in DOMAIN regions /\ regions[d].parent \subseteq DOMAIN regions
    BY <1>2, ParentsAreShallower
  <2>2. next[d] = regions[d].parent /\ next[d] \subseteq DOMAIN next
    BY <2>1
  <2>. HIDE DEF next
  <2>. QED
    BY <1>1, <2>2, ClosureIsClosed
<1>4. PICK root \in chain : \A d \in chain : depth[root] <= depth[d]
  <2>1. chain # {} /\ \A d \in chain : depth[d] \in Nat
    BY <1>2, ParentsAreShallower
  <2>. HIDE DEF chain, depth
  <2>. QED
    BY <2>1, LeastOf
<1>5. root \in DOMAIN regions
  BY <1>2
<1>6. regions[root].parent = {}
  <2>. SUFFICES ASSUME NEW p \in regions[root].parent PROVE FALSE
    OBVIOUS
  <2>1. p \in chain /\ p \in DOMAIN regions /\ regions[p].depth < regions[root].depth
    BY <1>3, <1>5, ParentsAreShallower
  <2>2. regions[root].depth <= regions[p].depth
    BY <1>4, <2>1
  <2>3. regions[p].depth \in Nat /\ regions[root].depth \in Nat
    BY <1>5, <2>1, ParentsAreShallower
  <2>. QED
    BY <2>1, <2>2, <2>3
<1>. QED
  BY <1>4, <1>5, <1>6, InsideHasParent

\* Every region of a plan has at most one parent, and the parents lead from it to a region whose
\* controller stands in no other (parent_for, resolve_depth).
THEOREM RegionsAreAForest == Spec => []RegionsFormAForest
<1>1. PassInv => RegionsFormAForest
  BY OneParent, RootIsAbove DEF RegionsFormAForest
<1>. QED
  BY <1>1, PassInvHolds, PTL

================================================================================
