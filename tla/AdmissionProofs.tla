--------------------------- MODULE AdmissionProofs ---------------------------
(***************************************************************************)
(* What holds of the scheduler's records, queues and resource broker put   *)
(* together, for every number of jobs, every plan of resources and every   *)
(* time: the contract of the job records, that the broker's books balance  *)
(* with what runs, that nothing feasible is rejected, and that the queues  *)
(* serve in order.                                                         *)
(***************************************************************************)
EXTENDS Admission, SequenceTheorems, FiniteSetTheorems, TLAPS

-----------------------------------------------------------------------------
(* Induction, as a statement about sets of numbers.                        *)

LEMMA NatInductionOnSets ==
  ASSUME NEW T \in SUBSET Nat, 0 \in T, \A n \in T : n + 1 \in T
  PROVE  T = Nat
<1>1. SUFFICES ASSUME Nat \ T # {} PROVE FALSE
  OBVIOUS
<1>2. PICK n \in Nat \ T : \A m \in Nat \ T : <<m, n>> \notin OpToRel(<, Nat)
  BY <1>1, NatLessThanWellFounded, WFMin, Zenon
<1>3. \A m \in Nat \ T : ~(m < n)
  BY <1>2 DEF OpToRel
<1>4. n - 1 \in Nat /\ n - 1 < n
  OBVIOUS
<1>5. n - 1 \in T
  BY <1>3, <1>4
<1>. QED
  BY <1>5

-----------------------------------------------------------------------------
(* Sums over functions.                                                    *)

AnyOf(s) == CHOOSE x \in s : TRUE

Iterated(f, D, g) ==
  g = [s \in D |-> IF s = {} THEN 0 ELSE f[AnyOf(s)] + g[s \ {AnyOf(s)}]]

LEMMA SumIsIterated ==
  ASSUME NEW f
  PROVE  SumFunction(f) = (CHOOSE g : Iterated(f, SUBSET DOMAIN f, g))[DOMAIN f]
BY DEF SumFunction, SumFunctionOnSet, FoldFunctionOnSet, MapThenFoldSet, Iterated, AnyOf

LEMMA AnyOfIsElement ==
  ASSUME NEW s, s # {}
  PROVE  AnyOf(s) \in s
BY DEF AnyOf

LEMMA WithoutOne ==
  ASSUME NEW S, IsFiniteSet(S), NEW s \in SUBSET S, NEW x \in s
  PROVE  /\ s \ {x} \in SUBSET S
         /\ Cardinality(s) \in Nat
         /\ Cardinality(s \ {x}) = Cardinality(s) - 1
         /\ Cardinality(s) # 0
<1>1. IsFiniteSet(s)
  BY FS_Subset
<1>. QED
  BY <1>1, FS_RemoveElement, FS_CardinalityType, FS_EmptySet

Layer(S, n) == {s \in SUBSET S : Cardinality(s) <= n}

LEMMA IterationExists ==
  ASSUME NEW f, NEW S, IsFiniteSet(S)
  PROVE  \E g : Iterated(f, SUBSET S, g)
<1>. DEFINE T == {n \in Nat : \E g : Iterated(f, Layer(S, n), g)}
<1>0. \A s \in SUBSET S : Cardinality(s) \in Nat /\ (Cardinality(s) = 0 <=> s = {})
  <2>1. \A s \in SUBSET S : IsFiniteSet(s)
    BY FS_Subset
  <2>. QED
    BY <2>1, FS_CardinalityType, FS_EmptySet
<1>1. 0 \in T
  <2>. DEFINE g == [s \in Layer(S, 0) |-> 0]
  <2>1. \A s \in Layer(S, 0) : s = {}
    BY <1>0 DEF Layer
  <2>2. Iterated(f, Layer(S, 0), g)
    BY <2>1 DEF Iterated
  <2>. QED
    BY <2>2
<1>2. ASSUME NEW n \in T PROVE n + 1 \in T
  <2>1. PICK g : Iterated(f, Layer(S, n), g)
    OBVIOUS
  <2>. DEFINE h == [s \in Layer(S, n + 1) |-> IF s = {} THEN 0 ELSE f[AnyOf(s)] + g[s \ {AnyOf(s)}]]
  <2>2. \A s \in Layer(S, n) : s \in Layer(S, n + 1)
    BY <1>0 DEF Layer
  <2>3. \A s \in Layer(S, n) : h[s] = g[s]
    BY <2>1, <2>2 DEF Iterated
  <2>4. \A s \in Layer(S, n + 1) : s # {} => s \ {AnyOf(s)} \in Layer(S, n)
    BY AnyOfIsElement, WithoutOne DEF Layer
  <2>5. h = [s \in Layer(S, n + 1) |-> IF s = {} THEN 0 ELSE f[AnyOf(s)] + h[s \ {AnyOf(s)}]]
    <3>1. \A s \in Layer(S, n + 1) :
            h[s] = IF s = {} THEN 0 ELSE f[AnyOf(s)] + h[s \ {AnyOf(s)}]
      BY <2>3, <2>4
    <3>. HIDE DEF h
    <3>2. h = [s \in Layer(S, n + 1) |-> h[s]]
      BY DEF h
    <3>. QED
      BY <3>1, <3>2
  <2>6. Iterated(f, Layer(S, n + 1), h)
    BY <2>5 DEF Iterated
  <2>. QED
    BY <2>6
<1>3. T = Nat
  <2>. HIDE DEF T
  <2>1. T \in SUBSET Nat
    BY DEF T
  <2>. QED
    BY <1>1, <1>2, <2>1, NatInductionOnSets
<1>4. Cardinality(S) \in T
  BY <1>0, <1>3
<1>5. Layer(S, Cardinality(S)) = SUBSET S
  BY FS_Subset DEF Layer
<1>. QED
  BY <1>4, <1>5

\* Two iterations, of functions that agree on what both sum up, agree.
LEMMA IterationIsUnique ==
  ASSUME NEW S, IsFiniteSet(S), NEW e, NEW f, NEW D, NEW g, NEW h,
         SUBSET S \subseteq D,
         \A x \in S : e[x] = f[x],
         Iterated(e, SUBSET S, g), Iterated(f, D, h)
  PROVE  \A s \in SUBSET S : g[s] = h[s]
<1>. DEFINE T == {n \in Nat : \A s \in SUBSET S : Cardinality(s) = n => g[s] = h[s]}
<1>0. \A s \in SUBSET S : Cardinality(s) \in Nat /\ (Cardinality(s) = 0 <=> s = {})
  <2>1. \A s \in SUBSET S : IsFiniteSet(s)
    BY FS_Subset
  <2>. QED
    BY <2>1, FS_CardinalityType, FS_EmptySet
<1>a. \A s \in SUBSET S :
        /\ g[s] = IF s = {} THEN 0 ELSE e[AnyOf(s)] + g[s \ {AnyOf(s)}]
        /\ h[s] = IF s = {} THEN 0 ELSE f[AnyOf(s)] + h[s \ {AnyOf(s)}]
  BY DEF Iterated
<1>1. 0 \in T
  BY <1>0, <1>a
<1>2. ASSUME NEW n \in T PROVE n + 1 \in T
  <2>1. SUFFICES ASSUME NEW s \in SUBSET S, Cardinality(s) = n + 1 PROVE g[s] = h[s]
    OBVIOUS
  <2>2. s # {} /\ AnyOf(s) \in s
    BY <1>0, <2>1, AnyOfIsElement
  <2>3. s \ {AnyOf(s)} \in SUBSET S /\ Cardinality(s \ {AnyOf(s)}) = n
    BY <2>1, <2>2, WithoutOne
  <2>4. g[s \ {AnyOf(s)}] = h[s \ {AnyOf(s)}]
    BY <2>3
  <2>. QED
    BY <1>a, <2>2, <2>4
<1>3. T = Nat
  <2>. HIDE DEF T
  <2>1. T \in SUBSET Nat
    BY DEF T
  <2>. QED
    BY <1>1, <1>2, <2>1, NatInductionOnSets
<1>. QED
  BY <1>0, <1>3

LEMMA IterationIsNat ==
  ASSUME NEW S, IsFiniteSet(S), NEW f, \A x \in S : f[x] \in Nat,
         NEW g, Iterated(f, SUBSET S, g)
  PROVE  \A s \in SUBSET S : g[s] \in Nat
<1>. DEFINE T == {n \in Nat : \A s \in SUBSET S : Cardinality(s) = n => g[s] \in Nat}
<1>0. \A s \in SUBSET S : Cardinality(s) \in Nat /\ (Cardinality(s) = 0 <=> s = {})
  <2>1. \A s \in SUBSET S : IsFiniteSet(s)
    BY FS_Subset
  <2>. QED
    BY <2>1, FS_CardinalityType, FS_EmptySet
<1>a. \A s \in SUBSET S : g[s] = IF s = {} THEN 0 ELSE f[AnyOf(s)] + g[s \ {AnyOf(s)}]
  BY DEF Iterated
<1>1. 0 \in T
  BY <1>0, <1>a
<1>2. ASSUME NEW n \in T PROVE n + 1 \in T
  <2>1. SUFFICES ASSUME NEW s \in SUBSET S, Cardinality(s) = n + 1 PROVE g[s] \in Nat
    OBVIOUS
  <2>2. s # {} /\ AnyOf(s) \in s
    BY <1>0, <2>1, AnyOfIsElement
  <2>3. s \ {AnyOf(s)} \in SUBSET S /\ Cardinality(s \ {AnyOf(s)}) = n
    BY <2>1, <2>2, WithoutOne
  <2>4. g[s \ {AnyOf(s)}] \in Nat /\ f[AnyOf(s)] \in Nat
    BY <2>2, <2>3
  <2>5. g[s] = f[AnyOf(s)] + g[s \ {AnyOf(s)}]
    BY <1>a, <2>2
  <2>. QED
    BY <2>4, <2>5
<1>3. T = Nat
  <2>. HIDE DEF T
  <2>1. T \in SUBSET Nat
    BY DEF T
  <2>. QED
    BY <1>1, <1>2, <2>1, NatInductionOnSets
<1>. QED
  BY <1>0, <1>3

\* The order of summation does not matter.
LEMMA IterationTakesAny ==
  ASSUME NEW S, IsFiniteSet(S), NEW f, \A x \in S : f[x] \in Nat,
         NEW g, Iterated(f, SUBSET S, g)
  PROVE  \A x \in S : g[S] = f[x] + g[S \ {x}]
<1>. DEFINE Good(s) == \A x \in s : g[s] = f[x] + g[s \ {x}]
            T == {n \in Nat : \A s \in SUBSET S : Cardinality(s) = n => Good(s)}
<1>0. \A s \in SUBSET S : Cardinality(s) \in Nat /\ (Cardinality(s) = 0 <=> s = {})
  <2>1. \A s \in SUBSET S : IsFiniteSet(s)
    BY FS_Subset
  <2>. QED
    BY <2>1, FS_CardinalityType, FS_EmptySet
<1>a. \A s \in SUBSET S : g[s] = IF s = {} THEN 0 ELSE f[AnyOf(s)] + g[s \ {AnyOf(s)}]
  BY DEF Iterated
<1>b. \A s \in SUBSET S : g[s] \in Nat
  BY IterationIsNat
<1>1. 0 \in T
  BY <1>0, <1>a
<1>2. ASSUME NEW n \in T PROVE n + 1 \in T
  <2>1. SUFFICES ASSUME NEW s \in SUBSET S, Cardinality(s) = n + 1 PROVE Good(s)
    OBVIOUS
  <2>. DEFINE y == AnyOf(s)
              r == s \ {y}
  <2>2. s # {} /\ y \in s /\ r \in SUBSET S
    BY <1>0, <2>1, AnyOfIsElement
  <2>3. \A x \in s : s \ {x} \in SUBSET S /\ Cardinality(s \ {x}) = n
    BY <2>1, WithoutOne
  <2>4. \A x \in s : Good(s \ {x})
    BY <2>3
  <2>5. g[s] = f[y] + g[r] /\ g[r] \in Nat /\ f[y] \in Nat
    BY <1>a, <1>b, <2>2
  <2>6. ASSUME NEW x \in s, x # y PROVE g[s] = f[x] + g[s \ {x}]
    <3>. DEFINE q == s \ {x, y}
    <3>1. r \ {x} = q /\ (s \ {x}) \ {y} = q /\ x \in r /\ y \in s \ {x} /\ f[x] \in Nat
      BY <2>2, <2>6
    <3>2. g[r] = f[x] + g[q]
      BY <2>2, <2>4, <3>1
    <3>3. g[s \ {x}] = f[y] + g[q]
      BY <2>4, <3>1
    <3>4. q \in SUBSET S
      OBVIOUS
    <3>5. g[q] \in Nat
      BY <1>b, <3>4
    <3>. QED
      BY <2>5, <3>1, <3>2, <3>3, <3>5
  <2>. QED
    BY <2>5, <2>6
<1>3. T = Nat
  <2>. HIDE DEF T
  <2>1. T \in SUBSET Nat
    BY DEF T
  <2>. QED
    BY <1>1, <1>2, <2>1, NatInductionOnSets
<1>4. S \in SUBSET S /\ Cardinality(S) \in T
  BY <1>0, <1>3
<1>. QED
  BY <1>4

\* A sum of naturals is one, and grows by what is added.
LEMMA SumGrows ==
  ASSUME NEW e, NEW f, NEW x, IsFiniteSet(DOMAIN e), x \notin DOMAIN e,
         DOMAIN f = DOMAIN e \cup {x},
         \A y \in DOMAIN e : f[y] = e[y],
         \A y \in DOMAIN f : f[y] \in Nat
  PROVE  /\ SumFunction(e) \in Nat
         /\ SumFunction(f) = f[x] + SumFunction(e)
<1>. DEFINE S == DOMAIN e
            D == DOMAIN f
            g == CHOOSE g : Iterated(e, SUBSET S, g)
            h == CHOOSE h : Iterated(f, SUBSET D, h)
<1>1. IsFiniteSet(S) /\ IsFiniteSet(D)
  BY FS_AddElement
<1>2. Iterated(e, SUBSET S, g)
  BY <1>1, IterationExists
<1>3. Iterated(f, SUBSET D, h)
  BY <1>1, IterationExists
<1>4. SumFunction(e) = g[S] /\ SumFunction(f) = h[D]
  BY SumIsIterated
<1>. HIDE DEF g, h
<1>5. g[S] = h[S]
  <2>1. SUBSET S \subseteq SUBSET D
    OBVIOUS
  <2>2. \A y \in S : e[y] = f[y]
    OBVIOUS
  <2>. QED
    BY <1>1, <1>2, <1>3, <2>1, <2>2, IterationIsUnique
<1>6. g[S] \in Nat
  <2>1. \A y \in S : e[y] \in Nat
    OBVIOUS
  <2>. QED
    BY <1>1, <1>2, <2>1, IterationIsNat
<1>7. h[D] = f[x] + h[D \ {x}]
  <2>1. x \in D /\ D \in SUBSET D
    OBVIOUS
  <2>2. \A y \in D : f[y] \in Nat
    OBVIOUS
  <2>3. \A y \in D : h[D] = f[y] + h[D \ {y}]
    BY <1>1, <1>3, <2>2, IterationTakesAny
  <2>. QED
    BY <2>1, <2>3
<1>8. D \ {x} = S
  OBVIOUS
<1>. QED
  BY <1>4, <1>5, <1>6, <1>7, <1>8

LEMMA EmptySum ==
  ASSUME NEW f, DOMAIN f = {}
  PROVE  SumFunction(f) = 0
<1>. DEFINE g == CHOOSE g : Iterated(f, SUBSET {}, g)
<1>1. Iterated(f, SUBSET {}, g)
  BY IterationExists, FS_EmptySet
<1>2. SumFunction(f) = g[{}]
  BY SumIsIterated
<1>. HIDE DEF g
<1>. QED
  BY <1>1, <1>2 DEF Iterated

-----------------------------------------------------------------------------
(* The contract of the repository (JobLifecycle).                          *)

\* The compare-and-set and the retry budget keep a record in its type.
LEMMA TypeStep == ASSUME TypeOK, [Next]_vars PROVE TypeOK'
<1>. USE MaxAttemptsAssumption DEF TypeOK, Statuses, Attempts, vars
<1>1. ASSUME NEW j \in Jobs, Create(j) PROVE TypeOK'
  BY <1>1 DEF Create
<1>2. ASSUME NEW j \in Jobs, NEW expected \in Statuses, NEW target \in Statuses,
             Transition(j, expected, target)
      PROVE  TypeOK'
  BY <1>2 DEF Transition
<1>3. ASSUME NEW j \in Jobs, NEW expected \in Statuses, Retry(j, expected) PROVE TypeOK'
  BY <1>3 DEF Retry
<1>. QED
  BY <1>1, <1>2, <1>3 DEF Next

(* The attempt of a record never leaves the range its budget allows, and   *)
(* its status is always one of JobStatus.                                  *)
THEOREM RecordsAreTyped == Spec => []TypeOK
<1>1. Init => TypeOK
  BY MaxAttemptsAssumption DEF Init, TypeOK, Attempts
<1>. QED
  BY <1>1, TypeStep, PTL DEF Spec

\* One write raises the position of the record it touches and of no other.
LEMMA PositionStep == ASSUME TypeOK, [Next]_vars PROVE PositionIncreases
<1>. USE DEF TypeOK, Attempts, PositionIncreases, MonotonicPosition, vars
<1>1. ASSUME NEW j \in Jobs, Create(j) PROVE PositionIncreases
  BY <1>1 DEF Create
<1>2. ASSUME NEW j \in Jobs, NEW expected \in Statuses, NEW target \in Statuses,
             Transition(j, expected, target)
      PROVE  PositionIncreases
  <2>1. StatusPosition(expected) < StatusPosition(target)
    BY <1>2 DEF Transition, Transitions, StatusPosition, Statuses
  <2>2. StatusPosition(expected) \in Nat /\ StatusPosition(target) \in Nat
    BY DEF StatusPosition
  <2>. QED
    BY <1>2, <2>1, <2>2 DEF Transition
<1>3. ASSUME NEW j \in Jobs, NEW expected \in Statuses, Retry(j, expected) PROVE PositionIncreases
  <2>1. \A s : StatusPosition(s) \in 0 .. 3
    BY DEF StatusPosition
  <2>. QED
    BY <1>3, <2>1, MaxAttemptsAssumption DEF Retry
<1>4. CASE UNCHANGED vars
  BY <1>4
<1>. QED
  BY <1>1, <1>2, <1>3, <1>4 DEF Next

(* JobRecord.monotonic_position strictly increases with every accepted     *)
(* write, through transition() and retry() alike.                          *)
THEOREM PositionsIncrease == Spec => RecordsAreMonotone
BY RecordsAreTyped, PositionStep, PTL DEF Spec, RecordsAreMonotone

\* An accepted write starts from a status that is neither COMPLETED nor CANCELLED.
LEMMA OutcomeStep == ASSUME TypeOK, [Next]_vars PROVE OutcomeIsFinal
<1>. USE DEF TypeOK, OutcomeIsFinal, vars
<1>1. ASSUME NEW j \in Jobs, Create(j) PROVE OutcomeIsFinal
  BY <1>1 DEF Create
<1>2. ASSUME NEW j \in Jobs, NEW expected \in Statuses, NEW target \in Statuses,
             Transition(j, expected, target)
      PROVE  OutcomeIsFinal
  <2>1. expected \notin {"completed", "cancelled"}
    BY <1>2 DEF Transition, Transitions
  <2>. QED
    BY <1>2, <2>1 DEF Transition
<1>3. ASSUME NEW j \in Jobs, NEW expected \in Statuses, Retry(j, expected) PROVE OutcomeIsFinal
  BY <1>3 DEF Retry
<1>4. CASE UNCHANGED vars
  BY <1>4
<1>. QED
  BY <1>1, <1>2, <1>3, <1>4 DEF Next

(* No call, however stale, touches a COMPLETED or CANCELLED record.        *)
THEOREM OutcomesStay == Spec => OutcomesAreFinal
BY RecordsAreTyped, OutcomeStep, PTL DEF Spec, OutcomesAreFinal

(* Records only advance, by increasing positions and never past an outcome. *)
THEOREM RecordsOnlyAdvance == Spec => RecordsAdvance
BY RecordsAreTyped, PositionStep, OutcomeStep, PTL DEF Spec, RecordsAdvance

-----------------------------------------------------------------------------
(* The broker.                                                             *)

\* What admit() and release() preserve.
BrokerInv ==
  /\ BrokerTypeOK
  /\ IsFiniteSet(DOMAIN leases)
  /\ levels = pressure
  /\ LoadIsBoundedAndTold

LEMMA ClassifyType ==
  ASSUME NEW used, NEW limit
  PROVE  Classify(used, limit) \in {"normal", "elevated", "critical"}
BY DEF Classify

LEMMA EstimatesAreNat ==
  ASSUME NEW h \in DOMAIN Plans, NEW a \in Offers(h), NEW k \in Kinds
  PROVE  Plans[h][a][k] \in Nat
<1>1. Plans[h] \in [Offers(h) -> Estimates]
  BY BrokerAssumption
<1>2. Plans[h][a] \in [Kinds -> Nat]
  BY <1>1 DEF Estimates
<1>. QED
  BY <1>2

\* What the leases L take of k: Used() with its operators written out.
LoadOf(L, k) ==
  (CHOOSE g : g = [s \in SUBSET DOMAIN L |->
                     IF s = {} THEN 0 ELSE Plans[AnyOf(s)][L[AnyOf(s)]][k] + g[s \ {AnyOf(s)}]])[DOMAIN L]

LEMMA UsedIsLoad ==
  ASSUME NEW k
  PROVE  Used(k) = LoadOf(leases, k) /\ Used(k)' = LoadOf(leases', k)
BY DEF Used, MapThenSumSet, MapThenFoldSet, LoadOf, AnyOf

\* Summing over the leases is summing the function that assigns each its part.
LEMMA LoadIsSum ==
  ASSUME NEW L, IsFiniteSet(DOMAIN L), NEW k
  PROVE  LoadOf(L, k) = SumFunction([h \in DOMAIN L |-> Plans[h][L[h]][k]])
<1>. DEFINE D == DOMAIN L
            e == [h \in D |-> Plans[h][L[h]][k]]
            Load(g) == g = [s \in SUBSET D |->
                              IF s = {} THEN 0 ELSE Plans[AnyOf(s)][L[AnyOf(s)]][k] + g[s \ {AnyOf(s)}]]
            g == CHOOSE g : Load(g)
            h == CHOOSE h : Iterated(e, SUBSET D, h)
<1>1. LoadOf(L, k) = g[D]
  BY DEF LoadOf
<1>2. SumFunction(e) = h[D]
  BY SumIsIterated
<1>3. \A s \in SUBSET D : s # {} => e[AnyOf(s)] = Plans[AnyOf(s)][L[AnyOf(s)]][k]
  BY AnyOfIsElement
<1>. HIDE DEF e
<1>4. ASSUME NEW f PROVE Iterated(e, SUBSET D, f) <=> Load(f)
  <2>1. [s \in SUBSET D |-> IF s = {} THEN 0 ELSE e[AnyOf(s)] + f[s \ {AnyOf(s)}]]
          = [s \in SUBSET D |-> IF s = {} THEN 0 ELSE Plans[AnyOf(s)][L[AnyOf(s)]][k] + f[s \ {AnyOf(s)}]]
    BY <1>3
  <2>. QED
    BY <2>1 DEF Iterated
<1>. HIDE DEF Load
<1>5. Iterated(e, SUBSET D, h)
  BY IterationExists
<1>6. Load(g)
  BY <1>4, <1>5
<1>7. Iterated(e, SUBSET D, g)
  BY <1>4, <1>6
<1>. HIDE DEF g, h
<1>8. g[D] = h[D]
  <2>1. SUBSET D \subseteq SUBSET D /\ (\A x \in D : e[x] = e[x]) /\ D \in SUBSET D
    OBVIOUS
  <2>2. \A s \in SUBSET D : g[s] = h[s]
    BY <1>5, <1>7, <2>1, IterationIsUnique
  <2>. QED
    BY <2>1, <2>2
<1>. QED
  BY <1>1, <1>2, <1>8 DEF e

LEMMA UsedIsNat ==
  ASSUME BrokerTypeOK, IsFiniteSet(DOMAIN leases), NEW k \in Kinds
  PROVE  Used(k) \in Nat
<1>. DEFINE e == [h \in DOMAIN leases |-> Plans[h][leases[h]][k]]
            x == CHOOSE x : x \notin DOMAIN leases
            f == [h \in DOMAIN leases \cup {x} |-> IF h = x THEN 0 ELSE e[h]]
<1>1. x \notin DOMAIN leases
  <2>1. \E y : y \notin DOMAIN leases
    <3>1. SUFFICES ASSUME \A y : y \in DOMAIN leases PROVE FALSE
      OBVIOUS
    <3>. DEFINE R == {y \in DOMAIN leases : y \notin y}
    <3>2. R \in DOMAIN leases
      BY <3>1
    <3>. QED
      BY <3>2
  <2>. QED
    BY <2>1
<1>2. \A h \in DOMAIN leases : e[h] \in Nat
  BY EstimatesAreNat DEF BrokerTypeOK
<1>. HIDE DEF x
<1>3. \A h \in DOMAIN f : f[h] \in Nat
  BY <1>2
<1>4. DOMAIN e = DOMAIN leases /\ DOMAIN f = DOMAIN e \cup {x} /\ \A h \in DOMAIN e : f[h] = e[h]
  BY <1>1
<1>. HIDE DEF f, e
<1>5. SumFunction(e) \in Nat
  BY <1>1, <1>3, <1>4, SumGrows
<1>. QED
  BY <1>5, UsedIsLoad, LoadIsSum DEF e

\* What is used, before and after a step, as a sum over the leases.
LEMMA UsedIsSum ==
  ASSUME IsFiniteSet(DOMAIN leases), IsFiniteSet(DOMAIN leases'), NEW k
  PROVE  /\ Used(k) = SumFunction([h \in DOMAIN leases |-> Plans[h][leases[h]][k]])
         /\ Used(k)' = SumFunction([h \in DOMAIN leases' |-> Plans[h][leases'[h]][k]])
<1>1. LoadOf(leases, k) = SumFunction([h \in DOMAIN leases |-> Plans[h][leases[h]][k]])
  BY LoadIsSum
<1>2. LoadOf(leases', k) = SumFunction([h \in DOMAIN leases' |-> Plans[h][leases'[h]][k]])
  BY LoadIsSum
<1>. QED
  BY <1>1, <1>2, UsedIsLoad

LEMMA UsedGrows ==
  ASSUME BrokerTypeOK, IsFiniteSet(DOMAIN leases),
         NEW h \in DOMAIN Plans, h \notin DOMAIN leases, NEW a \in Offers(h),
         leases' = [x \in DOMAIN leases \cup {h} |-> IF x = h THEN a ELSE leases[x]],
         NEW k \in Kinds
  PROVE  Used(k)' = Plans[h][a][k] + Used(k)
<1>. DEFINE e == [x \in DOMAIN leases |-> Plans[x][leases[x]][k]]
            f == [x \in DOMAIN leases' |-> Plans[x][leases'[x]][k]]
<1>1. \A x \in DOMAIN leases : e[x] \in Nat
  BY EstimatesAreNat DEF BrokerTypeOK
<1>2. /\ DOMAIN e = DOMAIN leases /\ DOMAIN f = DOMAIN e \cup {h}
      /\ \A x \in DOMAIN e : f[x] = e[x]
      /\ f[h] = Plans[h][a][k]
  OBVIOUS
<1>3. f[h] \in Nat
  BY <1>2, EstimatesAreNat
<1>4. Used(k) = SumFunction(e) /\ Used(k)' = SumFunction(f)
  <2>1. IsFiniteSet(DOMAIN leases')
    BY FS_AddElement
  <2>. QED
    BY <2>1, UsedIsSum
<1>. HIDE DEF e, f
<1>5. \A x \in DOMAIN f : f[x] \in Nat
  BY <1>1, <1>2, <1>3
<1>6. SumFunction(f) = f[h] + SumFunction(e)
  BY <1>2, <1>5, SumGrows
<1>. QED
  BY <1>2, <1>4, <1>6

LEMMA UsedShrinks ==
  ASSUME BrokerTypeOK, IsFiniteSet(DOMAIN leases),
         NEW h \in DOMAIN leases,
         leases' = [x \in DOMAIN leases \ {h} |-> leases[x]],
         NEW k \in Kinds
  PROVE  Used(k)' <= Used(k) /\ Used(k)' \in Nat
<1>. DEFINE e == [x \in DOMAIN leases' |-> Plans[x][leases'[x]][k]]
            f == [x \in DOMAIN leases |-> Plans[x][leases[x]][k]]
<1>1. \A x \in DOMAIN leases : f[x] \in Nat
  BY EstimatesAreNat DEF BrokerTypeOK
<1>2. /\ DOMAIN f = DOMAIN leases /\ DOMAIN e = DOMAIN leases \ {h}
      /\ \A x \in DOMAIN e : f[x] = e[x]
  OBVIOUS
<1>3. IsFiniteSet(DOMAIN e)
  BY <1>2, FS_RemoveElement
<1>4. Used(k)' = SumFunction(e) /\ Used(k) = SumFunction(f)
  <2>1. IsFiniteSet(DOMAIN leases')
    BY <1>3
  <2>. QED
    BY <2>1, UsedIsSum
<1>. HIDE DEF e, f
<1>5. SumFunction(f) = f[h] + SumFunction(e) /\ SumFunction(e) \in Nat
  <2>1. h \notin DOMAIN e /\ DOMAIN f = DOMAIN e \cup {h} /\ \A x \in DOMAIN f : f[x] \in Nat
    BY <1>1, <1>2
  <2>. QED
    BY <1>2, <1>3, <2>1, SumGrows
<1>6. f[h] \in Nat
  BY <1>1
<1>. QED
  BY <1>4, <1>5, <1>6

\* What is available is what is not used, as long as no budget is exceeded.
LEMMA AvailableIsRest ==
  ASSUME BrokerInv, NEW k \in Kinds
  PROVE  Available(k) = Limits[k] - Used(k)
<1>. DEFINE n == Limits[k] - Used(k)
<1>1. Used(k) \in Nat /\ Limits[k] \in Nat
  BY UsedIsNat, BrokerAssumption DEF BrokerInv
<1>2. Used(k) <= Limits[k]
  BY DEF BrokerInv, LoadIsBoundedAndTold, NeverOverbooked
<1>3. n \in Int /\ n >= 0
  BY <1>1, <1>2
<1>. HIDE DEF n
<1>4. Max({0, n}) = n
  BY <1>3 DEF Max
<1>. QED
  BY <1>4 DEF Available, n

LEMMA ObserveTells ==
  ASSUME levels = pressure, Observe
  PROVE  /\ levels' = pressure'
         /\ levels' \in [Sampled -> {"normal", "elevated", "critical"}]
         /\ PressureIsTold'
<1>1. levels' = [k \in Sampled |-> Classify(Used(k)', Limits[k])]
  BY DEF Observe
<1>2. \A k \in Sampled : levels'[k] = Classify(Used(k)', Limits[k]) /\ pressure'[k] = levels'[k]
  BY <1>1 DEF Observe
<1>3. levels' = pressure'
  BY <1>1, <1>2 DEF Observe
<1>4. levels' \in [Sampled -> {"normal", "elevated", "critical"}]
  BY <1>1, ClassifyType
<1>5. PressureIsTold'
  BY <1>2 DEF PressureIsTold
<1>. QED
  BY <1>3, <1>4, <1>5

LEMMA ReserveKeeps ==
  ASSUME BrokerInv, NEW h \in DOMAIN Plans, h \notin DOMAIN leases,
         NEW a \in Offers(h), FitsNow(Plans[h][a]), Reserve(h, a)
  PROVE  BrokerInv' /\ DOMAIN leases' = DOMAIN leases \cup {h}
<1>. USE DEF BrokerInv
<1>1. leases' = [x \in DOMAIN leases \cup {h} |-> IF x = h THEN a ELSE leases[x]]
  BY DEF Reserve
<1>2. DOMAIN leases' = DOMAIN leases \cup {h} /\ IsFiniteSet(DOMAIN leases')
  BY <1>1, FS_AddElement
<1>3. \A x \in DOMAIN leases' : leases'[x] \in Offers(x)
  BY <1>1 DEF BrokerTypeOK
<1>4. /\ levels' = pressure'
      /\ levels' \in [Sampled -> {"normal", "elevated", "critical"}]
      /\ PressureIsTold'
  BY ObserveTells DEF Reserve
<1>5. BrokerTypeOK'
  BY <1>2, <1>3, <1>4 DEF BrokerTypeOK
<1>6. NeverOverbooked'
  <2>1. SUFFICES ASSUME NEW k \in Kinds PROVE Used(k)' <= Limits[k]
    BY DEF NeverOverbooked, Kinds
  <2>2. Used(k)' = Plans[h][a][k] + Used(k)
    BY <1>1, UsedGrows
  <2>3. Plans[h][a][k] <= Limits[k] - Used(k)
    BY AvailableIsRest DEF FitsNow
  <2>4. Used(k) \in Nat /\ Limits[k] \in Nat /\ Plans[h][a][k] \in Nat
    BY UsedIsNat, EstimatesAreNat, BrokerAssumption
  <2>. QED
    BY <2>2, <2>3, <2>4
<1>. QED
  BY <1>2, <1>4, <1>5, <1>6 DEF LoadIsBoundedAndTold

LEMMA BrokerStays ==
  ASSUME BrokerInv, UNCHANGED broker
  PROVE  BrokerInv'
<1>1. UNCHANGED <<leases, levels, pressure>>
  BY DEF broker
<1>2. \A k : Used(k)' = Used(k)
  BY <1>1, UsedIsLoad
<1>. QED
  BY <1>1, <1>2
  DEF BrokerInv, BrokerTypeOK, LoadIsBoundedAndTold, NeverOverbooked, PressureIsTold

LEMMA ReleaseKeeps ==
  ASSUME BrokerInv, NEW h, ReleaseLease(h)
  PROVE  BrokerInv' /\ DOMAIN leases' = DOMAIN leases \ {h}
<1>1. CASE h \notin DOMAIN leases
  <2>1. UNCHANGED broker
    BY <1>1 DEF ReleaseLease
  <2>. QED
    BY <1>1, <2>1, BrokerStays DEF broker
<1>2. CASE h \in DOMAIN leases
  <2>. USE DEF BrokerInv
  <2>1. leases' = [x \in DOMAIN leases \ {h} |-> leases[x]] /\ Observe
    BY <1>2 DEF ReleaseLease
  <2>2. DOMAIN leases' = DOMAIN leases \ {h} /\ IsFiniteSet(DOMAIN leases')
    BY <2>1, FS_RemoveElement
  <2>3. \A x \in DOMAIN leases' : leases'[x] \in Offers(x)
    BY <2>1 DEF BrokerTypeOK
  <2>4. /\ levels' = pressure'
        /\ levels' \in [Sampled -> {"normal", "elevated", "critical"}]
        /\ PressureIsTold'
    BY <2>1, ObserveTells
  <2>5. BrokerTypeOK'
    BY <2>2, <2>3, <2>4 DEF BrokerTypeOK
  <2>6. NeverOverbooked'
    <3>1. SUFFICES ASSUME NEW k \in Kinds PROVE Used(k)' <= Limits[k]
      BY DEF NeverOverbooked, Kinds
    <3>2. Used(k)' <= Used(k) /\ Used(k)' \in Nat
      BY <1>2, <2>1, UsedShrinks
    <3>3. Used(k) <= Limits[k] /\ Used(k) \in Nat /\ Limits[k] \in Nat
      BY UsedIsNat, BrokerAssumption DEF LoadIsBoundedAndTold, NeverOverbooked
    <3>. QED
      BY <3>2, <3>3
  <2>. QED
    BY <2>2, <2>4, <2>5, <2>6 DEF LoadIsBoundedAndTold
<1>. QED
  BY <1>1, <1>2

LEMMA BrokerStarts ==
  ASSUME BrokerInit
  PROVE  BrokerInv
<1>1. DOMAIN leases = {} /\ IsFiniteSet(DOMAIN leases)
  BY FS_EmptySet DEF BrokerInit
<1>2. ASSUME NEW k PROVE Used(k) = 0
  <2>1. Used(k) = SumFunction([h \in DOMAIN leases |-> Plans[h][leases[h]][k]])
    BY <1>1, UsedIsLoad, LoadIsSum
  <2>. QED
    BY <1>1, <2>1, EmptySum
<1>3. NeverOverbooked
  BY <1>2, BrokerAssumption DEF NeverOverbooked
<1>4. PressureIsTold
  <2>1. SUFFICES ASSUME NEW k \in Sampled PROVE pressure[k] = Classify(0, Limits[k])
    BY <1>2 DEF PressureIsTold
  <2>2. Limits[k] \in Nat /\ Limits[k] > 0
    BY BrokerAssumption
  <2>3. Classify(0, Limits[k]) = "normal"
    BY <2>2 DEF Classify
  <2>. QED
    BY <2>3 DEF BrokerInit
<1>. QED
  BY <1>1, <1>3, <1>4 DEF BrokerInv, BrokerInit, BrokerTypeOK, LoadIsBoundedAndTold

-----------------------------------------------------------------------------
(* What admit() decides.                                                   *)

LEMMA ReadyHasFirst ==
  ASSUME NEW h, Ready(h) # {}
  PROVE  Decision(h) \in Ready(h)
<1>. DEFINE Least(a) == \A b \in Ready(h) : Rank[a] <= Rank[b]
<1>1. Ready(h) \subseteq {"none", "offload", "quantize"}
  BY DEF Ready, Transforms
<1>2. Rank["none"] = 0 /\ Rank["offload"] = 1 /\ Rank["quantize"] = 2
  BY DEF Rank
<1>3. \E a \in Ready(h) : Least(a)
  <2>1. CASE "none" \in Ready(h)
    <3>1. Least("none")
      BY <1>1, <1>2
    <3>. QED
      BY <2>1, <3>1
  <2>2. CASE "none" \notin Ready(h) /\ "offload" \in Ready(h)
    <3>1. Least("offload")
      BY <1>1, <1>2, <2>2
    <3>. QED
      BY <2>2, <3>1
  <2>3. CASE "none" \notin Ready(h) /\ "offload" \notin Ready(h)
    <3>1. Ready(h) = {"quantize"}
      BY <1>1, <2>3
    <3>2. Least("quantize")
      BY <1>2, <3>1
    <3>. QED
      BY <3>1, <3>2
  <2>. QED
    BY <2>1, <2>2, <2>3
<1>4. Decision(h) = CHOOSE a \in Ready(h) : Least(a)
  BY DEF Decision
<1>. HIDE DEF Least
<1>. QED
  BY <1>3, <1>4

\* A job is admitted by a plan it offers and that fits what is left.
LEMMA AdmittedFits ==
  ASSUME NEW h, Decision(h) \in Transforms \cup {"reduce_batch"}
  PROVE  Decision(h) \in Offers(h) /\ FitsNow(Plans[h][Decision(h)])
<1>1. CASE Ready(h) # {}
  BY <1>1, ReadyHasFirst DEF Ready
<1>2. CASE Ready(h) = {} /\ Sequenceable(h) # {}
  <2>1. Decision(h) = "sequence"
    BY <1>2 DEF Decision
  <2>. QED
    BY <2>1 DEF Transforms
<1>3. CASE Ready(h) = {} /\ Sequenceable(h) = {}
  <2>1. Decision(h) = IF "reduce_batch" \in Offers(h) /\ FitsNow(Plans[h]["reduce_batch"])
                        THEN "reduce_batch" ELSE "reject"
    BY <1>3 DEF Decision
  <2>2. "reject" \notin Transforms \cup {"reduce_batch"}
    BY DEF Transforms
  <2>. QED
    BY <2>1, <2>2
<1>. QED
  BY <1>1, <1>2, <1>3

\* A job is rejected only if the idle machine could run it by no plan but a smaller batch.
LEMMA RejectedFitsNever ==
  ASSUME NEW h, Decision(h) = "reject"
  PROVE  \A a \in Offers(h) \cap Transforms : ~FitsMachine(Plans[h][a])
<1>1. CASE Ready(h) # {}
  <2>1. Decision(h) \in Transforms
    BY <1>1, ReadyHasFirst DEF Ready
  <2>. QED
    BY <2>1 DEF Transforms
<1>2. CASE Ready(h) = {} /\ Sequenceable(h) # {}
  <2>1. Decision(h) = "sequence"
    BY <1>2 DEF Decision
  <2>. QED
    BY <2>1
<1>3. CASE Ready(h) = {} /\ Sequenceable(h) = {}
  BY <1>3 DEF Sequenceable
<1>. QED
  BY <1>1, <1>2, <1>3

-----------------------------------------------------------------------------
(* The queues.                                                             *)

Waiting == {items[i] : i \in DOMAIN items}

OneItemPerJob == \A i, k \in DOMAIN items : items[i].job = items[k].job => i = k

\* What every operation on the queues preserves.
QueuesInv ==
  /\ QueuesTypeOK
  /\ QueueBalance
  /\ IsFiniteSet(QueuedJobs)

LEMMA ItemsAreItems ==
  ASSUME QueuesTypeOK
  PROVE  /\ Len(items) \in Nat /\ DOMAIN items = 1 .. Len(items)
         /\ \A i \in DOMAIN items : items[i] \in Item
         /\ items = <<>> <=> Len(items) = 0
BY LenProperties, ElementOfSeq, EmptySeq DEF QueuesTypeOK

LEMMA ItemsAreDistinct ==
  ASSUME QueueBalance
  PROVE  OneItemPerJob
<1>. DEFINE f == [i \in DOMAIN items |-> items[i].job]
<1>1. \A i, k \in DOMAIN f : f[i] = f[k] => i = k
  BY DEF QueueBalance, IsInjective
<1>. QED
  BY <1>1 DEF OneItemPerJob

LEMMA DistinctPrimed ==
  ASSUME QueueBalance'
  PROVE  OneItemPerJob'
<1>. DEFINE f == [i \in DOMAIN items' |-> items'[i].job]
<1>1. \A i, k \in DOMAIN f : f[i] = f[k] => i = k
  BY DEF QueueBalance, IsInjective
<1>. QED
  BY <1>1 DEF OneItemPerJob

LEMMA DistinctIsInjective ==
  ASSUME OneItemPerJob
  PROVE  IsInjective([i \in DOMAIN items |-> items[i].job])
BY DEF OneItemPerJob, IsInjective

LEMMA TheItem ==
  ASSUME NEW s, \A i, k \in DOMAIN s : s[i].job = s[k].job => i = k,
         NEW i \in DOMAIN s
  PROVE  s[CHOOSE k \in DOMAIN s : s[k].job = s[i].job] = s[i]
<1>. DEFINE k == CHOOSE k \in DOMAIN s : s[k].job = s[i].job
<1>1. k \in DOMAIN s /\ s[k].job = s[i].job
  OBVIOUS
<1>2. k = i
  BY <1>1
<1>. QED
  BY <1>2

LEMMA RemoveAtProperties ==
  ASSUME NEW S, NEW s \in Seq(S), NEW i \in 1 .. Len(s)
  PROVE  /\ RemoveAt(s, i) \in Seq(S)
         /\ Len(RemoveAt(s, i)) = Len(s) - 1
         /\ \A k \in 1 .. Len(s) - 1 : RemoveAt(s, i)[k] = IF k < i THEN s[k] ELSE s[k + 1]
<1>. DEFINE a == SubSeq(s, 1, i - 1)
            b == SubSeq(s, i + 1, Len(s))
<1>0. Len(s) \in Nat /\ i \in Int /\ 1 <= i /\ i <= Len(s)
  BY LenProperties
<1>1. \A k \in 1 .. Len(s) : s[k] \in S
  BY ElementOfSeq
<1>2. /\ a \in Seq(S)
      /\ Len(a) = i - 1
      /\ \A k \in 1 .. i - 1 : a[k] = s[k]
  <2>1. /\ a \in Seq(S)
        /\ Len(a) = IF 1 <= i - 1 THEN i - 1 - 1 + 1 ELSE 0
        /\ \A k \in 1 .. i - 1 - 1 + 1 : a[k] = s[1 + k - 1]
    <3>1. 1 \in Int /\ i - 1 \in Int /\ \A k \in 1 .. i - 1 : s[k] \in S
      BY <1>0, <1>1
    <3>. QED
      BY <3>1, SubSeqProperties
  <2>. QED
    BY <1>0, <2>1
<1>3. /\ b \in Seq(S)
      /\ Len(b) = Len(s) - i
      /\ \A k \in 1 .. Len(s) - i : b[k] = s[k + i]
  <2>1. /\ b \in Seq(S)
        /\ Len(b) = IF i + 1 <= Len(s) THEN Len(s) - (i + 1) + 1 ELSE 0
        /\ \A k \in 1 .. Len(s) - (i + 1) + 1 : b[k] = s[(i + 1) + k - 1]
    <3>1. i + 1 \in Int /\ Len(s) \in Int /\ \A k \in i + 1 .. Len(s) : s[k] \in S
      BY <1>0, <1>1
    <3>. QED
      BY <3>1, SubSeqProperties
  <2>. QED
    BY <1>0, <2>1
<1>. HIDE DEF a, b
<1>4. /\ a \o b \in Seq(S)
      /\ Len(a \o b) = Len(a) + Len(b)
      /\ \A k \in 1 .. Len(a) + Len(b) : (a \o b)[k] = IF k <= Len(a) THEN a[k] ELSE b[k - Len(a)]
  BY <1>2, <1>3, ConcatProperties
<1>5. \A k \in 1 .. Len(s) - 1 : (a \o b)[k] = IF k < i THEN s[k] ELSE s[k + 1]
  BY <1>0, <1>2, <1>3, <1>4
<1>6. RemoveAt(s, i) = a \o b
  BY DEF RemoveAt, a, b
<1>7. Len(a \o b) = Len(s) - 1
  BY <1>0, <1>2, <1>3, <1>4
<1>. QED
  BY <1>4, <1>5, <1>6, <1>7

\* What remains when the item at i is taken out.
LEMMA TakenOut ==
  ASSUME QueuesTypeOK, OneItemPerJob, NEW i \in DOMAIN items,
         NEW rest, rest = RemoveAt(items, i)
  PROVE  /\ rest \in Seq(Item)
         /\ Len(rest) = Len(items) - 1
         /\ {rest[k] : k \in DOMAIN rest} = Waiting \ {items[i]}
         /\ \A k, l \in DOMAIN rest : rest[k].job = rest[l].job => k = l
<1>0. Len(items) \in Nat /\ DOMAIN items = 1 .. Len(items) /\ i \in 1 .. Len(items)
  BY ItemsAreItems
<1>1. /\ rest \in Seq(Item)
      /\ Len(rest) = Len(items) - 1
      /\ \A k \in 1 .. Len(items) - 1 : rest[k] = IF k < i THEN items[k] ELSE items[k + 1]
  BY <1>0, RemoveAtProperties DEF QueuesTypeOK
<1>2. DOMAIN rest = 1 .. Len(items) - 1
  BY <1>1, LenProperties
<1>3. \A k, l \in DOMAIN rest : rest[k].job = rest[l].job => k = l
  <2>1. SUFFICES ASSUME NEW k \in DOMAIN rest, NEW l \in DOMAIN rest, rest[k].job = rest[l].job
                 PROVE  k = l
    OBVIOUS
  <2>. DEFINE m == IF k < i THEN k ELSE k + 1
              n == IF l < i THEN l ELSE l + 1
  <2>2. m \in DOMAIN items /\ n \in DOMAIN items /\ rest[k] = items[m] /\ rest[l] = items[n]
    BY <1>0, <1>1, <1>2
  <2>3. m = n
    BY <2>1, <2>2 DEF OneItemPerJob
  <2>. QED
    BY <1>0, <1>2, <2>3
<1>4. \A k \in DOMAIN rest : rest[k] \in Waiting \ {items[i]}
  <2>1. SUFFICES ASSUME NEW k \in DOMAIN rest PROVE rest[k] \in Waiting \ {items[i]}
    OBVIOUS
  <2>. DEFINE m == IF k < i THEN k ELSE k + 1
  <2>2. m \in DOMAIN items /\ rest[k] = items[m] /\ m # i
    BY <1>0, <1>1, <1>2
  <2>3. items[m].job # items[i].job
    BY <2>2 DEF OneItemPerJob
  <2>. QED
    BY <2>2, <2>3 DEF Waiting
<1>5. \A x \in Waiting \ {items[i]} : \E k \in DOMAIN rest : rest[k] = x
  <2>1. SUFFICES ASSUME NEW x \in Waiting, x # items[i] PROVE \E k \in DOMAIN rest : rest[k] = x
    OBVIOUS
  <2>2. PICK n \in DOMAIN items : items[n] = x
    BY DEF Waiting
  <2>. DEFINE k == IF n < i THEN n ELSE n - 1
  <2>3. n # i
    BY <2>1, <2>2
  <2>4. k \in DOMAIN rest /\ rest[k] = x
    BY <1>0, <1>1, <1>2, <2>2, <2>3
  <2>. QED
    BY <2>4
<1>. QED
  BY <1>1, <1>3, <1>4, <1>5

\* What remains when an item is added at the end.
LEMMA PutIn ==
  ASSUME NEW s \in Seq(Item), NEW x \in Item,
         \A k, l \in DOMAIN s : s[k].job = s[l].job => k = l,
         \A k \in DOMAIN s : s[k].job # x.job,
         NEW t, t = Append(s, x)
  PROVE  /\ t \in Seq(Item)
         /\ Len(t) = Len(s) + 1
         /\ {t[k] : k \in DOMAIN t} = {s[k] : k \in DOMAIN s} \cup {x}
         /\ \A k, l \in DOMAIN t : t[k].job = t[l].job => k = l
<1>1. /\ t \in Seq(Item)
      /\ Len(t) = Len(s) + 1
      /\ \A k \in 1 .. Len(s) : t[k] = s[k]
      /\ t[Len(s) + 1] = x
  BY AppendProperties
<1>2. Len(s) \in Nat /\ DOMAIN s = 1 .. Len(s) /\ DOMAIN t = 1 .. Len(s) + 1
  BY <1>1, LenProperties
<1>3. \A k \in DOMAIN t : k \in DOMAIN s \/ k = Len(s) + 1
  BY <1>2
<1>4. \A k \in DOMAIN s : k \in DOMAIN t /\ t[k] = s[k]
  BY <1>1, <1>2
<1>5. Len(s) + 1 \in DOMAIN t
  BY <1>2
<1>6. {t[k] : k \in DOMAIN t} = {s[k] : k \in DOMAIN s} \cup {x}
  BY <1>1, <1>3, <1>4, <1>5
<1>7. \A k, l \in DOMAIN t : t[k].job = t[l].job => k = l
  BY <1>1, <1>3, <1>4
<1>. QED
  BY <1>1, <1>6, <1>7

\* The number of waiting jobs of a queue when a job comes or goes.
OfQueue(jobs, q) == {j \in jobs : QueueOf[j] = q}

LEMMA OneMoreQueued ==
  ASSUME NEW jobs, IsFiniteSet(jobs), NEW j, j \notin jobs, NEW q
  PROVE  /\ Cardinality(OfQueue(jobs, q)) \in Nat
         /\ Cardinality(OfQueue(jobs \cup {j}, q))
              = IF QueueOf[j] = q THEN Cardinality(OfQueue(jobs, q)) + 1
                                  ELSE Cardinality(OfQueue(jobs, q))
<1>1. OfQueue(jobs, q) \in SUBSET jobs
  BY DEF OfQueue
<1>2. IsFiniteSet(OfQueue(jobs, q))
  BY <1>1, FS_Subset
<1>3. j \notin OfQueue(jobs, q)
  BY DEF OfQueue
<1>4. CASE QueueOf[j] = q
  <2>1. OfQueue(jobs \cup {j}, q) = OfQueue(jobs, q) \cup {j}
    BY <1>4 DEF OfQueue
  <2>. QED
    BY <1>2, <1>3, <1>4, <2>1, FS_AddElement, FS_CardinalityType
<1>5. CASE QueueOf[j] # q
  <2>1. OfQueue(jobs \cup {j}, q) = OfQueue(jobs, q)
    BY <1>5 DEF OfQueue
  <2>. QED
    BY <1>2, <1>5, <2>1, FS_CardinalityType
<1>. QED
  BY <1>4, <1>5

LEMMA CountOfQueued ==
  ASSUME NEW q
  PROVE  CountOf(q) = Cardinality(OfQueue(QueuedJobs, q))
BY DEF CountOf, OfQueue

LEMMA QueueTypes ==
  ASSUME QueuesTypeOK
  PROVE  /\ \A x \in Item : x.job \in DOMAIN QueueOf /\ x.at \in Nat /\ QueueOf[x.job] \in ToSet(QueueNames)
         /\ \A q \in ToSet(QueueNames) : byQueue[q] \in Int
BY QueuesAssumption DEF Item, QueuesTypeOK

LEMMA EnqueueKeeps ==
  ASSUME QueuesInv, NEW x \in Item, EnqueueItem(x)
  PROVE  /\ QueuesInv'
         /\ QueuedJobs' = QueuedJobs \cup {x.job}
         /\ Waiting' = Waiting \cup {x}
<1>. DEFINE p == QueueOf[x.job]
<1>1. QueuesTypeOK /\ QueueBalance /\ OneItemPerJob /\ IsFiniteSet(QueuedJobs)
  BY ItemsAreDistinct DEF QueuesInv
<1>2. /\ x.job \notin QueuedJobs
      /\ Len(items) < MaxQueued
      /\ p \in DOMAIN QueueLimits => byQueue[p] < QueueLimits[p]
      /\ items' = Append(items, x)
      /\ byQueue' = [byQueue EXCEPT ![p] = @ + 1]
  BY DEF EnqueueItem, QueueHasRoom
<1>3. /\ items' \in Seq(Item)
      /\ Len(items') = Len(items) + 1
      /\ Waiting' = Waiting \cup {x}
      /\ OneItemPerJob'
  <2>1. \A k \in DOMAIN items : items[k].job # x.job
    BY <1>2 DEF QueuedJobs
  <2>2. items \in Seq(Item) /\ \A k, l \in DOMAIN items : items[k].job = items[l].job => k = l
    BY <1>1 DEF QueuesTypeOK, OneItemPerJob
  <2>3. /\ items' \in Seq(Item)
        /\ Len(items') = Len(items) + 1
        /\ {items'[k] : k \in DOMAIN items'} = {items[k] : k \in DOMAIN items} \cup {x}
        /\ \A k, l \in DOMAIN items' : items'[k].job = items'[l].job => k = l
    BY <1>2, <2>1, <2>2, PutIn
  <2>. QED
    BY <2>3 DEF OneItemPerJob, Waiting
<1>4. QueuedJobs' = QueuedJobs \cup {x.job}
  <2>1. QueuedJobs = {w.job : w \in Waiting} /\ QueuedJobs' = {w.job : w \in Waiting'}
    BY DEF QueuedJobs, Waiting
  <2>. QED
    BY <1>3, <2>1
<1>5. IsFiniteSet(QueuedJobs')
  BY <1>1, <1>4, FS_AddElement
<1>6. p \in ToSet(QueueNames) /\ \A q \in ToSet(QueueNames) : byQueue[q] \in Int
  BY <1>1, QueueTypes
<1>7. QueuesTypeOK'
  BY <1>1, <1>2, <1>3, <1>6 DEF QueuesTypeOK
<1>8. \A q \in ToSet(QueueNames) : byQueue'[q] = IF q = p THEN byQueue[q] + 1 ELSE byQueue[q]
  BY <1>1, <1>2, <1>6 DEF QueuesTypeOK
<1>9. \A q \in ToSet(QueueNames) : byQueue'[q] = CountOf(q)'
  <2>1. SUFFICES ASSUME NEW q \in ToSet(QueueNames) PROVE byQueue'[q] = CountOf(q)'
    OBVIOUS
  <2>2. byQueue[q] = Cardinality(OfQueue(QueuedJobs, q))
    BY <1>1, CountOfQueued DEF QueueBalance
  <2>3. CountOf(q)' = Cardinality(OfQueue(QueuedJobs \cup {x.job}, q))
    BY <1>4 DEF CountOf, OfQueue
  <2>. QED
    BY <1>1, <1>2, <1>8, <2>2, <2>3, OneMoreQueued
<1>10. \A q \in ToSet(QueueNames) : q \in DOMAIN QueueLimits => byQueue'[q] <= QueueLimits[q]
  <2>1. \A q \in DOMAIN QueueLimits : QueueLimits[q] \in Nat
    BY QueuesAssumption
  <2>. QED
    BY <1>1, <1>2, <1>6, <1>8, <2>1 DEF QueueBalance
<1>11. Len(items') <= MaxQueued
  BY <1>1, <1>2, <1>3, ItemsAreItems, QueuesAssumption
<1>12. QueueBalance'
  BY <1>3, <1>9, <1>10, <1>11, DistinctIsInjective DEF QueueBalance, OneItemPerJob, IsInjective
<1>. QED
  BY <1>3, <1>4, <1>5, <1>7, <1>12 DEF QueuesInv

LEMMA RemoveKeeps ==
  ASSUME QueuesInv, NEW i \in DOMAIN items, RemoveItem(i)
  PROVE  /\ QueuesInv'
         /\ items[i].job \in QueuedJobs
         /\ QueuedJobs' = QueuedJobs \ {items[i].job}
         /\ Waiting' = Waiting \ {items[i]}
<1>. DEFINE x == items[i]
            p == QueueOf[x.job]
<1>1. QueuesTypeOK /\ QueueBalance /\ OneItemPerJob /\ IsFiniteSet(QueuedJobs)
  BY ItemsAreDistinct DEF QueuesInv
<1>2. items' = RemoveAt(items, i) /\ byQueue' = [byQueue EXCEPT ![p] = @ - 1]
  BY DEF RemoveItem
<1>3. /\ items' \in Seq(Item)
      /\ Len(items') = Len(items) - 1
      /\ Waiting' = Waiting \ {x}
      /\ OneItemPerJob'
  <2>1. /\ items' \in Seq(Item)
        /\ Len(items') = Len(items) - 1
        /\ {items'[k] : k \in DOMAIN items'} = Waiting \ {x}
        /\ \A k, l \in DOMAIN items' : items'[k].job = items'[l].job => k = l
    BY <1>1, <1>2, TakenOut
  <2>. QED
    BY <2>1 DEF OneItemPerJob, Waiting
<1>4. x \in Waiting /\ x.job \in QueuedJobs /\ x \in Item
  BY <1>1, ItemsAreItems DEF Waiting, QueuedJobs
<1>5. QueuedJobs' = QueuedJobs \ {x.job}
  <2>1. QueuedJobs = {w.job : w \in Waiting} /\ QueuedJobs' = {w.job : w \in Waiting'}
    BY DEF QueuedJobs, Waiting
  <2>2. \A w \in Waiting : w.job = x.job => w = x
    BY <1>1 DEF OneItemPerJob, Waiting
  <2>. HIDE DEF x
  <2>. QED
    BY <1>3, <1>4, <2>1, <2>2
<1>6. IsFiniteSet(QueuedJobs')
  BY <1>1, <1>5, FS_RemoveElement
<1>7. p \in ToSet(QueueNames) /\ \A q \in ToSet(QueueNames) : byQueue[q] \in Int
  BY <1>1, <1>4, QueueTypes
<1>8. QueuesTypeOK'
  BY <1>1, <1>2, <1>3, <1>7 DEF QueuesTypeOK
<1>9. \A q \in ToSet(QueueNames) : byQueue'[q] = IF q = p THEN byQueue[q] - 1 ELSE byQueue[q]
  BY <1>1, <1>2, <1>7 DEF QueuesTypeOK
<1>10. \A q \in ToSet(QueueNames) : byQueue'[q] = CountOf(q)'
  <2>1. SUFFICES ASSUME NEW q \in ToSet(QueueNames) PROVE byQueue'[q] = CountOf(q)'
    OBVIOUS
  <2>. DEFINE less == QueuedJobs \ {x.job}
  <2>2. byQueue[q] = Cardinality(OfQueue(QueuedJobs, q))
    BY <1>1, CountOfQueued DEF QueueBalance
  <2>3. CountOf(q)' = Cardinality(OfQueue(less, q))
    BY <1>5 DEF CountOf, OfQueue
  <2>4. QueuedJobs = less \cup {x.job} /\ x.job \notin less
    BY <1>4
  <2>5. IsFiniteSet(less)
    BY <1>1, FS_RemoveElement
  <2>. HIDE DEF less, x
  <2>6. Cardinality(OfQueue(QueuedJobs, q))
          = IF p = q THEN Cardinality(OfQueue(less, q)) + 1 ELSE Cardinality(OfQueue(less, q))
    BY <2>4, <2>5, OneMoreQueued
  <2>7. Cardinality(OfQueue(less, q)) \in Nat
    BY <2>4, <2>5, OneMoreQueued
  <2>. QED
    BY <1>9, <2>2, <2>3, <2>6, <2>7
<1>11. \A q \in ToSet(QueueNames) : q \in DOMAIN QueueLimits => byQueue'[q] <= QueueLimits[q]
  <2>1. \A q \in DOMAIN QueueLimits : QueueLimits[q] \in Nat
    BY QueuesAssumption
  <2>. QED
    BY <1>1, <1>7, <1>9, <2>1 DEF QueueBalance
<1>12. Len(items') <= MaxQueued
  BY <1>1, <1>3, ItemsAreItems, QueuesAssumption DEF QueueBalance
<1>13. QueueBalance'
  BY <1>3, <1>10, <1>11, <1>12 DEF QueueBalance, OneItemPerJob, IsInjective
<1>. QED
  BY <1>3, <1>4, <1>5, <1>6, <1>8, <1>13 DEF QueuesInv

LEMMA DeferKeeps ==
  ASSUME QueuesInv, NEW i \in DOMAIN items, Defer(i)
  PROVE  QueuesInv' /\ QueuedJobs' = QueuedJobs /\ Waiting' = Waiting
<1>. DEFINE x == items[i]
            rest == RemoveAt(items, i)
<1>1. QueuesTypeOK /\ QueueBalance /\ OneItemPerJob /\ IsFiniteSet(QueuedJobs)
  BY ItemsAreDistinct DEF QueuesInv
<1>2. items' = Append(rest, x) /\ byQueue' = byQueue
  BY DEF Defer
<1>3. /\ rest \in Seq(Item)
      /\ Len(rest) = Len(items) - 1
      /\ {rest[k] : k \in DOMAIN rest} = Waiting \ {x}
      /\ \A k, l \in DOMAIN rest : rest[k].job = rest[l].job => k = l
  BY <1>1, TakenOut
<1>4. x \in Waiting /\ x \in Item /\ Len(items) \in Nat
  BY <1>1, ItemsAreItems DEF Waiting
<1>5. \A w \in Waiting \ {x} : w.job # x.job
  BY <1>1 DEF OneItemPerJob, Waiting
<1>. HIDE DEF x, rest
<1>6. \A k \in DOMAIN rest : rest[k].job # x.job
  BY <1>3, <1>5
<1>7. /\ items' \in Seq(Item)
      /\ Len(items') = Len(rest) + 1
      /\ {items'[k] : k \in DOMAIN items'} = {rest[k] : k \in DOMAIN rest} \cup {x}
      /\ \A k, l \in DOMAIN items' : items'[k].job = items'[l].job => k = l
  BY <1>2, <1>3, <1>4, <1>6, PutIn
<1>8. Waiting' = Waiting
  BY <1>3, <1>4, <1>7 DEF Waiting
<1>9. QueuedJobs' = QueuedJobs
  BY <1>8 DEF QueuedJobs, Waiting
<1>10. \A q : CountOf(q)' = CountOf(q)
  BY <1>9 DEF CountOf
<1>11. Len(items') = Len(items)
  BY <1>3, <1>4, <1>7
<1>12. QueueBalance'
  BY <1>1, <1>2, <1>7, <1>10, <1>11 DEF QueueBalance, IsInjective
<1>. QED
  BY <1>1, <1>2, <1>7, <1>8, <1>9, <1>12 DEF QueuesInv, QueuesTypeOK

LEMMA QueuesStay ==
  ASSUME QueuesInv, UNCHANGED queues
  PROVE  QueuesInv' /\ QueuedJobs' = QueuedJobs /\ Waiting' = Waiting
BY DEF QueuesInv, QueuesTypeOK, QueueBalance, QueuedJobs, Waiting, CountOf, queues

LEMMA QueuesStart ==
  ASSUME QueuesInit
  PROVE  QueuesInv /\ QueuedJobs = {}
<1>1. items = <<>> /\ DOMAIN items = {} /\ Len(items) = 0 /\ items \in Seq(Item)
  BY EmptySeq DEF QueuesInit
<1>2. QueuedJobs = {}
  BY <1>1 DEF QueuedJobs
<1>3. \A q : CountOf(q) = 0
  BY <1>2, FS_EmptySet DEF CountOf
<1>4. \A q \in ToSet(QueueNames) : byQueue[q] = 0
  BY DEF QueuesInit
<1>5. QueueBalance
  BY <1>1, <1>3, <1>4, QueuesAssumption DEF QueueBalance, IsInjective
<1>. QED
  BY <1>1, <1>2, <1>5, FS_EmptySet DEF QueuesInv, QueuesTypeOK, QueuesInit

-----------------------------------------------------------------------------
(* The choice of the next item.                                            *)

LEMMA PositionIsInt ==
  ASSUME NEW x \in Item
  PROVE  QueuePosition(x) \in Nat
<1>1. QueueOf[x.job] \in ToSet(QueueNames)
  BY QueuesAssumption DEF Item
<1>2. \E n \in DOMAIN QueueNames : QueueNames[n] = QueueOf[x.job]
  BY <1>1 DEF ToSet
<1>3. QueuePosition(x) \in DOMAIN QueueNames
  BY <1>2 DEF QueuePosition
<1>. QED
  BY <1>3, QueuesAssumption, LenProperties

\* The age bonus is linear from the moment an item was queued.
LEMMA ScoreIsLinear ==
  ASSUME NEW x \in Item, NEW time \in Nat, x.at <= time
  PROVE  /\ Merit[x.job] \in Int
         /\ AgeRate * time \in Int /\ AgeRate * x.at \in Int
         /\ Score(x, time) = Merit[x.job] + AgeRate * time - AgeRate * x.at
<1>1. Merit[x.job] \in Int /\ x.at \in Nat /\ AgeRate \in Nat
  BY QueuesAssumption DEF Item
<1>2. \A a, t, u \in Int : a * t \in Int /\ a * (t - u) = a * t - a * u
  OBVIOUS
<1>3. AgeRate * (time - x.at) = AgeRate * time - AgeRate * x.at
  BY <1>1, <1>2
<1>4. AgeRate * time \in Int /\ AgeRate * x.at \in Int
  BY <1>1, <1>2
<1>5. Score(x, time) = Merit[x.job] + AgeRate * (IF time > x.at THEN time - x.at ELSE 0)
  BY DEF Score
<1>6. (IF time > x.at THEN time - x.at ELSE 0) = time - x.at
  BY <1>1
<1>. QED
  BY <1>1, <1>3, <1>4, <1>5, <1>6

First(i, k, time) ==
  \/ Better(items[i], items[k], time)
  \/ i < k /\ ~Better(items[k], items[i], time)

\* Any nonempty queue has a first item, and pop_next() selects it.
LEMMA NextIsFirst ==
  ASSUME QueuesTypeOK, items # <<>>, NEW time \in Nat, \A x \in Waiting : x.at <= time
  PROVE  /\ NextIndex(time) \in DOMAIN items
         /\ \A k \in DOMAIN items \ {NextIndex(time)} : First(NextIndex(time), k, time)
<1>. DEFINE Leads(i, n) == \A k \in 1 .. n : k # i => First(i, k, time)
            T == {n \in Nat : n + 1 <= Len(items) => \E i \in 1 .. n + 1 : Leads(i, n + 1)}
<1>0. Len(items) \in Nat /\ DOMAIN items = 1 .. Len(items) /\ Len(items) # 0
  BY ItemsAreItems
<1>a. \A i \in DOMAIN items : /\ Score(items[i], time) \in Int
                              /\ QueuePosition(items[i]) \in Int
                              /\ items[i].at \in Int
  <2>1. SUFFICES ASSUME NEW i \in DOMAIN items
                 PROVE  /\ Score(items[i], time) \in Int
                        /\ QueuePosition(items[i]) \in Int
                        /\ items[i].at \in Int
    OBVIOUS
  <2>2. items[i] \in Item /\ items[i].at <= time
    BY ItemsAreItems DEF Waiting
  <2>3. QueuePosition(items[i]) \in Int /\ items[i].at \in Int
    BY <2>2, PositionIsInt DEF Item
  <2>4. Score(items[i], time) \in Int
    BY <2>2, ScoreIsLinear
  <2>. QED
    BY <2>3, <2>4
<1>1. 0 \in T
  <2>1. \A k \in 1 .. 0 + 1 : k = 1
    OBVIOUS
  <2>2. Leads(1, 0 + 1) /\ 1 \in 1 .. 0 + 1
    BY <2>1
  <2>. QED
    BY <2>2
<1>2. ASSUME NEW n \in T PROVE n + 1 \in T
  <2>1. SUFFICES ASSUME n + 2 <= Len(items) PROVE \E i \in 1 .. n + 2 : Leads(i, n + 2)
    BY <1>2
  <2>2. PICK i \in 1 .. n + 1 : Leads(i, n + 1)
    BY <1>0, <2>1
  <2>. DEFINE m == n + 2
  <2>3. i \in DOMAIN items /\ m \in DOMAIN items /\ i < m /\ m \in Int /\ i \in Int
    BY <1>0, <2>1, <2>2
  <2>4. \A k \in 1 .. m : k = m \/ (k \in 1 .. n + 1 /\ k \in DOMAIN items /\ k < m /\ k \in Int)
    BY <1>0, <2>1
  <2>5. CASE ~Better(items[m], items[i], time)
    <3>1. Leads(i, m)
      BY <2>2, <2>3, <2>4, <2>5 DEF First
    <3>2. i \in 1 .. n + 2
      BY <1>0, <2>3
    <3>. HIDE DEF Leads
    <3>. QED
      BY <3>1, <3>2
  <2>6. CASE Better(items[m], items[i], time)
    <3>1. ASSUME NEW k \in 1 .. n + 1, k \in DOMAIN items PROVE Better(items[m], items[k], time)
      <4>1. k = i \/ First(i, k, time)
        BY <2>2
      <4>2. k = i \/ Better(items[i], items[k], time) \/ ~Better(items[k], items[i], time)
        BY <4>1 DEF First
      <4>3. CASE k = i
        BY <2>6, <4>3
      <4>4. CASE Better(items[i], items[k], time) \/ ~Better(items[k], items[i], time)
        <5>. DEFINE s(l) == Score(items[l], time)
                    p(l) == QueuePosition(items[l])
                    a(l) == items[l].at
        <5>1. s(m) \in Int /\ s(i) \in Int /\ s(k) \in Int
          BY <1>a, <2>3, <3>1
        <5>2. p(m) \in Int /\ p(i) \in Int /\ p(k) \in Int
          BY <1>a, <2>3, <3>1
        <5>3. a(m) \in Int /\ a(i) \in Int /\ a(k) \in Int
          BY <1>a, <2>3, <3>1
        <5>4. \A x, y : Better(items[x], items[y], time) <=>
                \/ s(x) > s(y)
                \/ s(x) = s(y) /\ (p(x) < p(y) \/ (p(x) = p(y) /\ a(x) < a(y)))
          BY DEF Better
        <5>. HIDE DEF s, p, a, m
        <5>5. s(m) > s(i) \/ (s(m) = s(i) /\ (p(m) < p(i) \/ (p(m) = p(i) /\ a(m) < a(i))))
          BY <2>6, <5>4
        <5>6. \/ s(i) > s(k) \/ (s(i) = s(k) /\ (p(i) < p(k) \/ (p(i) = p(k) /\ a(i) < a(k))))
              \/ ~(s(k) > s(i) \/ (s(k) = s(i) /\ (p(k) < p(i) \/ (p(k) = p(i) /\ a(k) < a(i)))))
          BY <4>4, <5>4
        <5>7. s(m) > s(k) \/ (s(m) = s(k) /\ (p(m) < p(k) \/ (p(m) = p(k) /\ a(m) < a(k))))
          BY <5>1, <5>2, <5>3, <5>5, <5>6
        <5>. QED
          BY <5>4, <5>7
      <4>. QED
        BY <4>2, <4>3, <4>4
    <3>2. Leads(m, m)
      BY <2>4, <3>1 DEF First
    <3>3. m \in 1 .. n + 2
      BY <1>0, <2>3
    <3>. HIDE DEF Leads
    <3>. QED
      BY <3>2, <3>3
  <2>. QED
    BY <2>5, <2>6
<1>3. T = Nat
  <2>. HIDE DEF T
  <2>1. T \in SUBSET Nat
    BY DEF T
  <2>. QED
    BY <1>1, <1>2, <2>1, NatInductionOnSets
<1>4. \E i \in DOMAIN items : \A k \in DOMAIN items \ {i} : First(i, k, time)
  <2>1. Len(items) - 1 \in T
    <3>1. Len(items) - 1 \in Nat
      BY <1>0
    <3>. HIDE DEF T
    <3>. QED
      BY <1>3, <3>1
  <2>2. Len(items) - 1 + 1 = Len(items)
    BY <1>0
  <2>3. \E i \in 1 .. Len(items) - 1 + 1 : Leads(i, Len(items) - 1 + 1)
    <3>. HIDE DEF Leads
    <3>. QED
      BY <1>0, <2>1, <2>2
  <2>4. PICK i \in 1 .. Len(items) : Leads(i, Len(items))
    <3>. HIDE DEF Leads
    <3>. QED
      BY <2>2, <2>3
  <2>. QED
    BY <1>0, <2>4
<1>5. NextIndex(time) = CHOOSE i \in DOMAIN items : \A k \in DOMAIN items \ {i} : First(i, k, time)
  BY DEF NextIndex, First
<1>. QED
  BY <1>4, <1>5

-----------------------------------------------------------------------------
(* The system.                                                             *)

(* BooksBalance but for the counters, and what it rests on: a backoff is   *)
(* that of a running attempt, and no item was queued in the future.        *)
JobsBalance ==
  /\ QueuedJobs = {j \in Jobs : status[j] = "queued"}
  /\ DOMAIN leases = {j \in Active \ backoff : Offers(j) # {}}

SystemInv ==
  /\ TypeOK
  /\ BrokerInv
  /\ QueuesInv
  /\ JobsBalance
  /\ backoff \in SUBSET Jobs /\ \A j \in backoff : status[j] = "running"
  /\ now \in 0 .. MaxTime
  /\ \A x \in Waiting : x.at <= now

\* What a step may do to the records of jobs and to the order of service.
Orderly == PositionIncreases /\ OutcomeIsFinal /\ RejectionIsFinal /\ PlacesAreKept /\ HeadStartIsBounded

LEMMA SystemStarts ==
  ASSUME SystemInit
  PROVE  SystemInv
<1>. USE DEF SystemInit
<1>1. TypeOK
  BY MaxAttemptsAssumption DEF Init, TypeOK, Attempts
<1>2. BrokerInv /\ DOMAIN leases = {}
  BY BrokerStarts DEF BrokerInit
<1>3. QueuesInv /\ QueuedJobs = {} /\ Waiting = {}
  BY QueuesStart DEF Waiting, QueuesInit
<1>4. JobsBalance
  BY <1>2, <1>3 DEF JobsBalance, Active, Init
<1>. QED
  BY <1>1, <1>2, <1>3, <1>4, AdmissionAssumption DEF SystemInv

LEMMA JobsHaveNames ==
  ASSUME TRUE
  PROVE  DOMAIN Plans = Jobs /\ DOMAIN QueueOf = Jobs
BY AdmissionAssumption

\* A waiting item is that of a job whose record is QUEUED.
LEMMA ItemIsQueued ==
  ASSUME SystemInv, NEW i \in DOMAIN items
  PROVE  /\ items[i].job \in Jobs /\ status[items[i].job] = "queued"
         /\ items[i] \in Item /\ items[i] \in Waiting /\ items[i].job \in QueuedJobs
BY ItemsAreItems DEF SystemInv, QueuesInv, JobsBalance, QueuedJobs, Waiting

\* Items that stay keep their order, whatever the clock does.
LEMMA PlacesStay ==
  ASSUME SystemInv, SystemInv', now' >= now,
         \A x \in Waiting : x.job \in QueuedJobs' => x \in Waiting'
  PROVE  PlacesAreKept
<1>1. /\ \A i, k \in DOMAIN items : items[i].job = items[k].job => i = k
      /\ \A i, k \in DOMAIN items' : items'[i].job = items'[k].job => i = k
  BY ItemsAreDistinct, DistinctPrimed DEF SystemInv, QueuesInv, OneItemPerJob
<1>2. ASSUME NEW j \in QueuedJobs \cap QueuedJobs'
      PROVE  /\ ItemOf(j) \in Waiting /\ ItemOf(j) \in Item /\ ItemOf(j).job = j /\ ItemOf(j)' = ItemOf(j)
             /\ ItemOf(j).at <= now
  <2>1. PICK i \in DOMAIN items : items[i].job = j
    BY DEF QueuedJobs
  <2>2. ItemOf(j) = items[i] /\ items[i] \in Waiting /\ items[i] \in Item
    BY <1>1, <2>1, TheItem, ItemIsQueued DEF ItemOf
  <2>3. PICK k \in DOMAIN items' : items'[k] = items[i]
    BY <2>1, <2>2 DEF Waiting
  <2>4. ItemOf(j)' = items'[k]
    BY <1>1, <2>1, <2>3, TheItem DEF ItemOf
  <2>. QED
    BY <2>1, <2>2, <2>3, <2>4 DEF SystemInv
<1>3. SUFFICES ASSUME NEW j \in QueuedJobs \cap QueuedJobs', NEW k \in QueuedJobs \cap QueuedJobs',
                      Better(ItemOf(j), ItemOf(k), now)
               PROVE  Better(ItemOf(j), ItemOf(k), now')
  BY <1>2 DEF PlacesAreKept
<1>. DEFINE x == ItemOf(j)
            y == ItemOf(k)
<1>4. x \in Item /\ y \in Item /\ x.at <= now /\ y.at <= now
  BY <1>2
<1>5. now \in Nat /\ now' \in Nat /\ x.at \in Nat /\ y.at \in Nat
  BY <1>4, AdmissionAssumption DEF SystemInv, Item
<1>6. x.at <= now' /\ y.at <= now'
  BY <1>4, <1>5
<1>. HIDE DEF x, y
<1>7. Score(x, now) - Score(y, now) = Score(x, now') - Score(y, now')
  BY <1>4, <1>5, <1>6, ScoreIsLinear
<1>8. \A t \in {now, now'} : Score(x, t) \in Int /\ Score(y, t) \in Int
  BY <1>4, <1>5, <1>6, ScoreIsLinear
<1>9. Better(x, y, now)
  BY <1>3 DEF x, y
<1>10. Better(x, y, now')
  BY <1>7, <1>8, <1>9 DEF Better
<1>. QED
  BY <1>10 DEF x, y

\* The merit of the job that is launched makes up for the time any other waited longer.
LEMMA LaunchIsFair ==
  ASSUME SystemInv, NEW i, i = NextIndex(now), items # <<>>
  PROVE  \A k \in QueuedJobs :
           AgeRate * (ItemOf(items[i].job).at - ItemOf(k).at) <= Merit[items[i].job] - Merit[k]
<1>1. \A l, k \in DOMAIN items : items[l].job = items[k].job => l = k
  BY ItemsAreDistinct DEF SystemInv, QueuesInv, OneItemPerJob
<1>2. now \in Nat
  BY AdmissionAssumption DEF SystemInv
<1>3. i \in DOMAIN items /\ \A k \in DOMAIN items \ {i} : First(i, k, now)
  BY <1>2, NextIsFirst DEF SystemInv, QueuesInv
<1>4. SUFFICES ASSUME NEW k \in DOMAIN items
               PROVE  AgeRate * (items[i].at - items[k].at) <= Merit[items[i].job] - Merit[items[k].job]
  BY <1>1, <1>3, TheItem DEF QueuedJobs, ItemOf
<1>. DEFINE x == items[i]
            y == items[k]
<1>5. x \in Item /\ y \in Item /\ x.at <= now /\ y.at <= now
  BY <1>3, ItemIsQueued DEF SystemInv
<1>6. x = y \/ Better(x, y, now) \/ ~Better(y, x, now)
  BY <1>3 DEF First
<1>7. AgeRate \in Int /\ x.at \in Int /\ y.at \in Int
  BY <1>5, QueuesAssumption DEF Item
<1>. HIDE DEF x, y
<1>8. /\ Merit[x.job] \in Int /\ Merit[y.job] \in Int
      /\ AgeRate * now \in Int /\ AgeRate * x.at \in Int /\ AgeRate * y.at \in Int
      /\ Score(x, now) = Merit[x.job] + AgeRate * now - AgeRate * x.at
      /\ Score(y, now) = Merit[y.job] + AgeRate * now - AgeRate * y.at
  BY <1>2, <1>5, ScoreIsLinear
<1>9. Score(x, now) >= Score(y, now)
  BY <1>6, <1>8 DEF Better
<1>10. AgeRate * (x.at - y.at) = AgeRate * x.at - AgeRate * y.at
  <2>1. \A a, t, u \in Int : a * (t - u) = a * t - a * u
    OBVIOUS
  <2>. QED
    BY <1>7, <2>1
<1>11. AgeRate * (x.at - y.at) <= Merit[x.job] - Merit[y.job]
  BY <1>8, <1>9, <1>10
<1>. QED
  BY <1>11 DEF x, y


\* A write of one record.
Written(j) ==
  \/ Create(j)
  \/ \E expected, target \in Statuses : Transition(j, expected, target)
  \/ \E expected \in Statuses : Retry(j, expected)

LEMMA WritesAdvance ==
  ASSUME TypeOK, NEW j \in Jobs, Written(j)
  PROVE  TypeOK' /\ PositionIncreases /\ OutcomeIsFinal
BY TypeStep, PositionStep, OutcomeStep DEF Written, Next

\* Nobody is started or rejected, and all items stay.
LEMMA CalmIsOrderly ==
  ASSUME SystemInv, SystemInv', now' >= now, PositionIncreases, OutcomeIsFinal,
         \A x \in Waiting : x.job \in QueuedJobs' => x \in Waiting',
         \A j \in Jobs : status[j] = "queued" => status'[j] \notin {"preparing", "completed", "failed"}
  PROVE  Orderly
<1>1. PlacesAreKept
  BY PlacesStay
<1>. QED
  BY <1>1 DEF Orderly, RejectionIsFinal, HeadStartIsBounded

\* The item of job j that is next leaves the queue.
LEMMA LaunchIsOrderly ==
  ASSUME SystemInv, SystemInv', now' = now, PositionIncreases, OutcomeIsFinal,
         NEW i, i = NextIndex(now), items # <<>>, i \in DOMAIN items,
         \A x \in Waiting : x.job \in QueuedJobs' => x \in Waiting',
         \A j \in Jobs : j # items[i].job => status'[j] = status[j],
         status'[items[i].job] = "failed" =>
           \A a \in Offers(items[i].job) \cap Transforms : ~FitsMachine(Plans[items[i].job][a])
  PROVE  Orderly
<1>1. now' >= now
  BY AdmissionAssumption DEF SystemInv
<1>2. PlacesAreKept
  BY <1>1, PlacesStay
<1>3. RejectionIsFinal
  BY DEF RejectionIsFinal
<1>4. HeadStartIsBounded
  <2>1. SUFFICES ASSUME NEW j \in Jobs, NEW k \in QueuedJobs \cap QueuedJobs',
                        status[j] = "queued", status'[j] \in {"preparing", "completed"}
                 PROVE  AgeRate * (ItemOf(j).at - ItemOf(k).at) <= Merit[j] - Merit[k]
    BY DEF HeadStartIsBounded
  <2>2. j = items[i].job
    BY <2>1
  <2>. QED
    BY <2>2, LaunchIsFair
<1>. QED
  BY <1>2, <1>3, <1>4 DEF Orderly

-----------------------------------------------------------------------------
(* One lemma for each kind of step.                                        *)

Kept == SystemInv' /\ Orderly

LEMMA Enqueues ==
  ASSUME SystemInv, NEW j \in Jobs, EnqueueItem([job |-> j, at |-> now])
  PROVE  /\ QueuesInv'
         /\ QueuedJobs' = QueuedJobs \cup {j}
         /\ Waiting \subseteq Waiting'
         /\ \A x \in Waiting' : x.at <= now
<1>1. now \in Nat
  BY AdmissionAssumption DEF SystemInv
<1>. DEFINE x == [job |-> j, at |-> now]
<1>2. x \in Item /\ x.job = j /\ x.at = now
  BY <1>1, JobsHaveNames DEF Item
<1>. HIDE DEF x
<1>3. EnqueueItem(x)
  BY DEF x
<1>4. QueuesInv' /\ QueuedJobs' = QueuedJobs \cup {j} /\ Waiting' = Waiting \cup {x}
  BY <1>2, <1>3, EnqueueKeeps DEF SystemInv
<1>. QED
  BY <1>1, <1>2, <1>4 DEF SystemInv

LEMMA SubmitKeeps == ASSUME SystemInv, NEW j \in Jobs, Submit(j) PROVE Kept
<1>1. /\ status[j] = "absent" /\ status' = [status EXCEPT ![j] = "queued"]
      /\ UNCHANGED <<attempt, leases, levels, pressure, backoff, now>>
  BY DEF Submit, Create, broker
<1>2. TypeOK' /\ PositionIncreases /\ OutcomeIsFinal
  BY WritesAdvance DEF Submit, Written, SystemInv
<1>3. QueuesInv' /\ QueuedJobs' = QueuedJobs \cup {j} /\ Waiting \subseteq Waiting' /\ \A x \in Waiting' : x.at <= now
  BY Enqueues DEF Submit
<1>4. BrokerInv'
  BY <1>1, BrokerStays DEF SystemInv, broker
<1>5. SystemInv'
  BY <1>1, <1>2, <1>3, <1>4 DEF SystemInv, JobsBalance, Active, TypeOK
<1>6. \A k \in Jobs : status[k] = "queued" => status'[k] \notin {"preparing", "completed", "failed"}
  BY <1>1 DEF SystemInv, TypeOK
<1>. QED
  BY <1>1, <1>2, <1>3, <1>5, <1>6, CalmIsOrderly, AdmissionAssumption DEF Kept, SystemInv

LEMMA ManualRetryKeeps == ASSUME SystemInv, NEW j \in Jobs, ManualRetry(j) PROVE Kept
<1>1. /\ status[j] = "failed" /\ status' = [status EXCEPT ![j] = "queued"]
      /\ UNCHANGED <<leases, levels, pressure, backoff, now>>
  BY DEF ManualRetry, Retry, broker
<1>2. TypeOK' /\ PositionIncreases /\ OutcomeIsFinal
  BY WritesAdvance DEF ManualRetry, Written, SystemInv, Statuses
<1>3. QueuesInv' /\ QueuedJobs' = QueuedJobs \cup {j} /\ Waiting \subseteq Waiting' /\ \A x \in Waiting' : x.at <= now
  BY Enqueues DEF ManualRetry
<1>4. BrokerInv'
  BY <1>1, BrokerStays DEF SystemInv, broker
<1>5. SystemInv'
  BY <1>1, <1>2, <1>3, <1>4 DEF SystemInv, JobsBalance, Active, TypeOK
<1>6. \A k \in Jobs : status[k] = "queued" => status'[k] \notin {"preparing", "completed", "failed"}
  BY <1>1 DEF SystemInv, TypeOK
<1>. QED
  BY <1>1, <1>2, <1>3, <1>5, <1>6, CalmIsOrderly, AdmissionAssumption DEF Kept, SystemInv

\* The item at i leaves the queue.
LEMMA Removes ==
  ASSUME SystemInv, NEW i \in DOMAIN items, RemoveItem(i)
  PROVE  /\ QueuesInv'
         /\ QueuedJobs' = QueuedJobs \ {items[i].job}
         /\ \A x \in Waiting : x.job \in QueuedJobs' => x \in Waiting'
         /\ Waiting' \subseteq Waiting
<1>1. /\ QueuesInv'
      /\ QueuedJobs' = QueuedJobs \ {items[i].job}
      /\ Waiting' = Waiting \ {items[i]}
  BY RemoveKeeps DEF SystemInv
<1>. QED
  BY <1>1

LEMMA CancelKeeps == ASSUME SystemInv, NEW j \in Jobs, CancelWaiting(j) PROVE Kept
<1>1. PICK i \in DOMAIN items : items[i].job = j /\ RemoveItem(i)
  BY DEF CancelWaiting
<1>2. /\ status[j] = "queued" /\ status' = [status EXCEPT ![j] = "cancelled"]
      /\ UNCHANGED <<attempt, leases, levels, pressure, backoff, now>>
  BY DEF CancelWaiting, Transition, broker
<1>3. TypeOK' /\ PositionIncreases /\ OutcomeIsFinal
  BY WritesAdvance DEF CancelWaiting, Written, SystemInv, Statuses
<1>4. /\ QueuesInv' /\ QueuedJobs' = QueuedJobs \ {j}
      /\ \A x \in Waiting : x.job \in QueuedJobs' => x \in Waiting'
      /\ Waiting' \subseteq Waiting
  BY <1>1, Removes
<1>5. BrokerInv'
  BY <1>2, BrokerStays DEF SystemInv, broker
<1>6. SystemInv'
  BY <1>2, <1>3, <1>4, <1>5 DEF SystemInv, JobsBalance, Active, TypeOK
<1>7. \A k \in Jobs : status[k] = "queued" => status'[k] \notin {"preparing", "completed", "failed"}
  BY <1>2 DEF SystemInv, TypeOK
<1>. QED
  BY <1>2, <1>3, <1>4, <1>6, <1>7, CalmIsOrderly, AdmissionAssumption DEF Kept, SystemInv

\* A step that leaves the queues alone and starts or rejects nobody.
LEMMA ElsewhereKeeps ==
  ASSUME SystemInv, UNCHANGED queues, now' = now,
         TypeOK', PositionIncreases, OutcomeIsFinal, BrokerInv', JobsBalance',
         backoff' \in SUBSET Jobs, \A j \in backoff' : status'[j] = "running",
         \A j \in Jobs : status[j] = "queued" => status'[j] \notin {"preparing", "completed", "failed"}
  PROVE  Kept
<1>1. QueuesInv' /\ QueuedJobs' = QueuedJobs /\ Waiting' = Waiting
  BY QueuesStay DEF SystemInv
<1>2. SystemInv'
  BY <1>1 DEF SystemInv
<1>. QED
  BY <1>1, <1>2, CalmIsOrderly, AdmissionAssumption DEF Kept, SystemInv

LEMMA QueuedStay ==
  ASSUME UNCHANGED queues
  PROVE  QueuedJobs' = QueuedJobs
BY DEF queues, QueuedJobs

LEMMA RunKeeps == ASSUME SystemInv, NEW j \in Jobs, Run(j) PROVE Kept
<1>1. /\ status[j] = "preparing" /\ status' = [status EXCEPT ![j] = "running"]
      /\ UNCHANGED <<attempt, leases, levels, pressure, backoff, now>> /\ UNCHANGED queues
  BY DEF Run, Transition, broker
<1>2. TypeOK' /\ PositionIncreases /\ OutcomeIsFinal
  BY WritesAdvance DEF Run, Written, SystemInv, Statuses
<1>3. BrokerInv'
  BY <1>1, BrokerStays DEF SystemInv, broker
<1>4. JobsBalance'
  BY <1>1, QueuedStay DEF SystemInv, JobsBalance, Active, TypeOK
<1>5. \A k \in Jobs : status[k] = "queued" => status'[k] \notin {"preparing", "completed", "failed"}
  BY <1>1 DEF SystemInv, TypeOK
<1>6. backoff' \in SUBSET Jobs /\ \A k \in backoff' : status'[k] = "running"
  BY <1>1 DEF SystemInv, TypeOK
<1>. QED
  BY <1>1, <1>2, <1>3, <1>4, <1>5, <1>6, ElsewhereKeeps

LEMMA EndKeeps == ASSUME SystemInv, NEW j \in Jobs, End(j) PROVE Kept
<1>1. PICK outcome \in Terminal : Transition(j, "running", outcome)
  BY DEF End
<1>2. /\ status[j] = "running" /\ status' = [status EXCEPT ![j] = outcome]
      /\ j \notin backoff /\ UNCHANGED <<attempt, backoff, now>> /\ UNCHANGED queues
  BY <1>1 DEF End, Transition
<1>3. TypeOK' /\ PositionIncreases /\ OutcomeIsFinal
  BY <1>1, WritesAdvance DEF Written, SystemInv, Statuses, Terminal
<1>4. BrokerInv' /\ DOMAIN leases' = DOMAIN leases \ {j}
  BY ReleaseKeeps DEF SystemInv, End
<1>5. JobsBalance'
  BY <1>2, <1>4, QueuedStay DEF SystemInv, JobsBalance, Active, TypeOK, Terminal
<1>6. \A k \in Jobs : status[k] = "queued" => status'[k] \notin {"preparing", "completed", "failed"}
  BY <1>2 DEF SystemInv, TypeOK
<1>7. backoff' \in SUBSET Jobs /\ \A k \in backoff' : status'[k] = "running"
  BY <1>2 DEF SystemInv, TypeOK
<1>. QED
  BY <1>2, <1>3, <1>4, <1>5, <1>6, <1>7, ElsewhereKeeps

\* A step that writes no record.
LEMMA RecordsStay ==
  ASSUME TypeOK, UNCHANGED records
  PROVE  TypeOK' /\ PositionIncreases /\ OutcomeIsFinal
BY DEF TypeOK, PositionIncreases, OutcomeIsFinal, records

LEMMA StartBackoffKeeps == ASSUME SystemInv, NEW j \in Jobs, StartBackoff(j) PROVE Kept
<1>1. /\ status[j] = "running" /\ backoff' = backoff \cup {j}
      /\ UNCHANGED <<status, attempt, now>> /\ UNCHANGED records /\ UNCHANGED queues
  BY DEF StartBackoff, records
<1>2. TypeOK' /\ PositionIncreases /\ OutcomeIsFinal
  BY <1>1, RecordsStay DEF SystemInv
<1>3. BrokerInv' /\ DOMAIN leases' = DOMAIN leases \ {j}
  BY ReleaseKeeps DEF SystemInv, StartBackoff
<1>4. JobsBalance'
  BY <1>1, <1>3, QueuedStay DEF SystemInv, JobsBalance, Active
<1>5. \A k \in Jobs : status[k] = "queued" => status'[k] \notin {"preparing", "completed", "failed"}
  BY <1>1
<1>6. backoff' \in SUBSET Jobs /\ \A k \in backoff' : status'[k] = "running"
  BY <1>1 DEF SystemInv
<1>. QED
  BY <1>1, <1>2, <1>3, <1>4, <1>5, <1>6, ElsewhereKeeps

LEMMA EndBackoffKeeps == ASSUME SystemInv, NEW j \in Jobs, EndBackoff(j) PROVE Kept
<1>1. /\ j \in backoff /\ backoff' = backoff \ {j} /\ status[j] = "running"
      /\ UNCHANGED <<leases, levels, pressure, now>>
  BY DEF EndBackoff, SystemInv, broker
<1>2. BrokerInv'
  BY <1>1, BrokerStays DEF SystemInv, broker
<1>3. CASE Retry(j, "running") /\ EnqueueItem([job |-> j, at |-> now])
  <2>1. status' = [status EXCEPT ![j] = "queued"]
    BY <1>3 DEF Retry
  <2>2. TypeOK' /\ PositionIncreases /\ OutcomeIsFinal
    BY <1>3, WritesAdvance DEF Written, SystemInv, Statuses
  <2>3. QueuesInv' /\ QueuedJobs' = QueuedJobs \cup {j} /\ Waiting \subseteq Waiting' /\ \A x \in Waiting' : x.at <= now
    BY <1>3, Enqueues
  <2>4. JobsBalance'
    BY <1>1, <2>1, <2>3 DEF SystemInv, JobsBalance, Active, TypeOK
  <2>5. SystemInv'
    BY <1>1, <1>2, <2>1, <2>2, <2>3, <2>4 DEF SystemInv, TypeOK
  <2>6. \A k \in Jobs : status[k] = "queued" => status'[k] \notin {"preparing", "completed", "failed"}
    BY <2>1 DEF SystemInv, TypeOK
  <2>. QED
    BY <1>1, <2>2, <2>3, <2>5, <2>6, CalmIsOrderly, AdmissionAssumption DEF Kept, SystemInv
<1>4. ASSUME NEW outcome \in {"failed", "cancelled"}, Transition(j, "running", outcome), UNCHANGED queues
      PROVE  Kept
  <2>1. status' = [status EXCEPT ![j] = outcome]
    BY <1>4 DEF Transition
  <2>2. TypeOK' /\ PositionIncreases /\ OutcomeIsFinal
    BY <1>4, WritesAdvance DEF Written, SystemInv, Statuses
  <2>3. JobsBalance'
    BY <1>1, <1>4, <2>1, QueuedStay DEF SystemInv, JobsBalance, Active, TypeOK
  <2>4. \A k \in Jobs : status[k] = "queued" => status'[k] \notin {"preparing", "completed", "failed"}
    BY <1>1, <2>1 DEF SystemInv, TypeOK
  <2>5. backoff' \in SUBSET Jobs /\ \A k \in backoff' : status'[k] = "running"
    BY <1>1, <2>1 DEF SystemInv, TypeOK
  <2>. QED
    BY <1>1, <1>2, <1>4, <2>2, <2>3, <2>4, <2>5, ElsewhereKeeps
<1>. QED
  BY <1>3, <1>4 DEF EndBackoff

LEMMA TickKeeps == ASSUME SystemInv, Tick PROVE Kept
<1>1. now < MaxTime /\ now' = now + 1 /\ UNCHANGED <<records, broker, queues, backoff>>
  BY DEF Tick
<1>2. TypeOK' /\ PositionIncreases /\ OutcomeIsFinal
  BY <1>1, RecordsStay DEF SystemInv
<1>3. QueuesInv' /\ QueuedJobs' = QueuedJobs /\ Waiting' = Waiting
  BY <1>1, QueuesStay DEF SystemInv
<1>4. BrokerInv'
  BY <1>1, BrokerStays DEF SystemInv
<1>5. now' \in 0 .. MaxTime /\ now' >= now /\ \A x \in Waiting' : x.at <= now'
  <2>1. now \in Nat /\ \A x \in Waiting : x.at \in Nat /\ x.at <= now
    BY AdmissionAssumption, ItemsAreItems DEF SystemInv, QueuesInv, Waiting, Item
  <2>. QED
    BY <1>1, <1>3, <2>1, AdmissionAssumption
<1>6. SystemInv'
  BY <1>1, <1>2, <1>3, <1>4, <1>5 DEF SystemInv, JobsBalance, Active, records, broker
<1>. QED
  BY <1>1, <1>2, <1>3, <1>5, <1>6, CalmIsOrderly DEF Kept, records

\* What all launches have in common.
LEMMA PoppedItem ==
  ASSUME SystemInv, NEW i \in DOMAIN items, Popped(i)
  PROVE  /\ i = NextIndex(now) /\ items # <<>>
         /\ items[i].job \in Jobs /\ status[items[i].job] = "queued" /\ items[i].job \notin backoff
         /\ items[i].job \notin DOMAIN leases /\ items[i].job \in DOMAIN Plans
BY ItemIsQueued, JobsHaveNames DEF Popped, SystemInv, JobsBalance, Active

LEMMA LaunchCachedKeeps == ASSUME SystemInv, NEW i \in DOMAIN items, LaunchCached(i) PROVE Kept
<1>. DEFINE j == items[i].job
<1>1. /\ RemoveItem(i) /\ status' = [status EXCEPT ![j] = "completed"]
      /\ UNCHANGED <<attempt, leases, levels, pressure, backoff, now>>
  BY DEF LaunchCached, broker
<1>2. /\ i = NextIndex(now) /\ items # <<>>
      /\ j \in Jobs /\ status[j] = "queued" /\ j \notin backoff /\ j \notin DOMAIN leases
  BY PoppedItem DEF LaunchCached
<1>3. /\ QueuesInv' /\ QueuedJobs' = QueuedJobs \ {j}
      /\ \A x \in Waiting : x.job \in QueuedJobs' => x \in Waiting'
      /\ Waiting' \subseteq Waiting
  BY <1>1, Removes
<1>4. BrokerInv'
  BY <1>1, BrokerStays DEF SystemInv, broker
<1>. HIDE DEF j
<1>5. TypeOK' /\ OutcomeIsFinal
  BY <1>1, <1>2 DEF SystemInv, TypeOK, Statuses, OutcomeIsFinal
<1>6. PositionIncreases
  <2>1. StatusPosition("queued") = 0 /\ StatusPosition("completed") = 3
    BY DEF StatusPosition
  <2>2. attempt[j] \in Int
    BY <1>2, MaxAttemptsAssumption DEF SystemInv, TypeOK, Attempts
  <2>. QED
    BY <1>1, <1>2, <2>1, <2>2 DEF PositionIncreases, MonotonicPosition, SystemInv, TypeOK
<1>7. SystemInv'
  BY <1>1, <1>2, <1>3, <1>4, <1>5 DEF SystemInv, JobsBalance, Active, TypeOK
<1>8. \A k \in Jobs : k # j => status'[k] = status[k]
  BY <1>1 DEF SystemInv, TypeOK
<1>9. status'[j] # "failed"
  BY <1>1, <1>2 DEF SystemInv, TypeOK
<1>10. Orderly
  BY <1>1, <1>2, <1>3, <1>5, <1>6, <1>7, <1>8, <1>9, LaunchIsOrderly DEF j
<1>. QED
  BY <1>7, <1>10 DEF Kept

\* A popped job leaves the queue for another status; its reservation, if it needs one, is made.
LEMMA LaunchKeeps ==
  ASSUME SystemInv, NEW i \in DOMAIN items, Popped(i), RemoveItem(i),
         NEW target \in {"preparing", "failed"}, Transition(items[i].job, "queued", target),
         BrokerInv', UNCHANGED <<backoff, now>>,
         DOMAIN leases' = IF target = "preparing" /\ Offers(items[i].job) # {}
                            THEN DOMAIN leases \cup {items[i].job} ELSE DOMAIN leases,
         target = "failed" =>
           \A a \in Offers(items[i].job) \cap Transforms : ~FitsMachine(Plans[items[i].job][a])
  PROVE  Kept
<1>. DEFINE j == items[i].job
<1>1. status' = [status EXCEPT ![j] = target]
  BY DEF Transition
<1>2. /\ i = NextIndex(now) /\ items # <<>>
      /\ j \in Jobs /\ status[j] = "queued" /\ j \notin backoff /\ j \notin DOMAIN leases
  BY PoppedItem
<1>3. /\ QueuesInv' /\ QueuedJobs' = QueuedJobs \ {j}
      /\ \A x \in Waiting : x.job \in QueuedJobs' => x \in Waiting'
      /\ Waiting' \subseteq Waiting
  BY Removes
<1>4. TypeOK' /\ PositionIncreases /\ OutcomeIsFinal
  BY <1>2, WritesAdvance DEF Written, SystemInv, Statuses
<1>. HIDE DEF j
<1>5. JobsBalance'
  <2>1. QueuedJobs' = {k \in Jobs : status'[k] = "queued"}
    BY <1>1, <1>2, <1>3 DEF SystemInv, JobsBalance, TypeOK
  <2>2. \A k \in Jobs : k # j => status'[k] = status[k]
    BY <1>1 DEF SystemInv, TypeOK
  <2>3. status'[j] = target
    BY <1>1, <1>2 DEF SystemInv, TypeOK
  <2>4. DOMAIN leases = {k \in Active \ backoff : Offers(k) # {}}
    BY DEF SystemInv, JobsBalance
  <2>5. CASE target = "failed"
    <3>1. Active' = Active
      BY <1>2, <2>2, <2>3, <2>5 DEF Active
    <3>2. DOMAIN leases' = DOMAIN leases
      BY <2>5
    <3>. QED
      BY <2>1, <2>4, <3>1, <3>2 DEF JobsBalance
  <2>6. CASE target = "preparing"
    <3>1. Active' = Active \cup {j}
      BY <1>2, <2>2, <2>3, <2>6 DEF Active
    <3>2. DOMAIN leases' = IF Offers(j) # {} THEN DOMAIN leases \cup {j} ELSE DOMAIN leases
      BY <2>6 DEF j
    <3>. QED
      BY <1>2, <2>1, <2>4, <3>1, <3>2 DEF JobsBalance
  <2>. QED
    BY <2>5, <2>6
<1>6. SystemInv'
  BY <1>1, <1>2, <1>3, <1>4, <1>5 DEF SystemInv, TypeOK
<1>7. \A k \in Jobs : k # j => status'[k] = status[k]
  BY <1>1 DEF SystemInv, TypeOK
<1>8. status'[j] = target
  BY <1>1, <1>2 DEF SystemInv, TypeOK
<1>9. Orderly
  BY <1>2, <1>3, <1>4, <1>6, <1>7, <1>8, LaunchIsOrderly DEF j
<1>. QED
  BY <1>6, <1>9 DEF Kept

LEMMA LaunchUnaskedKeeps == ASSUME SystemInv, NEW i \in DOMAIN items, LaunchUnasked(i) PROVE Kept
<1>1. /\ Popped(i) /\ RemoveItem(i) /\ Transition(items[i].job, "queued", "preparing")
      /\ Offers(items[i].job) = {} /\ UNCHANGED broker /\ UNCHANGED <<backoff, now>>
  BY DEF LaunchUnasked
<1>2. BrokerInv' /\ DOMAIN leases' = DOMAIN leases
  BY <1>1, BrokerStays DEF SystemInv, broker
<1>. QED
  BY <1>1, <1>2, LaunchKeeps

LEMMA LaunchAskedKeeps == ASSUME SystemInv, NEW i \in DOMAIN items, LaunchAsked(i) PROVE Kept
<1>. DEFINE j == items[i].job
            decision == Decision(j)
<1>1. Popped(i) /\ Offers(j) # {} /\ UNCHANGED <<backoff, now>>
  BY DEF LaunchAsked
<1>2. CASE decision \in Transforms \cup {"reduce_batch"} /\ RemoveItem(i) /\ Reserve(j, decision)
             /\ Transition(j, "queued", "preparing")
  <2>1. decision \in Offers(j) /\ FitsNow(Plans[j][decision])
    BY <1>2, AdmittedFits
  <2>2. j \in DOMAIN Plans /\ j \notin DOMAIN leases
    BY <1>1, PoppedItem
  <2>3. BrokerInv' /\ DOMAIN leases' = DOMAIN leases \cup {j}
    BY <1>2, <2>1, <2>2, ReserveKeeps DEF SystemInv
  <2>. QED
    BY <1>1, <1>2, <2>3, LaunchKeeps
<1>3. CASE decision = "sequence" /\ Defer(i) /\ UNCHANGED <<records, broker>>
  <2>1. TypeOK' /\ PositionIncreases /\ OutcomeIsFinal
    BY <1>3, RecordsStay DEF SystemInv
  <2>2. QueuesInv' /\ QueuedJobs' = QueuedJobs /\ Waiting' = Waiting
    BY <1>3, DeferKeeps DEF SystemInv
  <2>3. BrokerInv'
    BY <1>3, BrokerStays DEF SystemInv
  <2>4. SystemInv'
    BY <1>1, <1>3, <2>1, <2>2, <2>3 DEF SystemInv, JobsBalance, Active, records, broker
  <2>. QED
    BY <1>1, <1>3, <2>1, <2>2, <2>4, CalmIsOrderly, AdmissionAssumption DEF Kept, SystemInv, records
<1>4. CASE decision = "reject" /\ RemoveItem(i) /\ Transition(j, "queued", "failed") /\ UNCHANGED broker
  <2>1. BrokerInv' /\ DOMAIN leases' = DOMAIN leases
    BY <1>4, BrokerStays DEF SystemInv, broker
  <2>2. \A a \in Offers(j) \cap Transforms : ~FitsMachine(Plans[j][a])
    BY <1>4, RejectedFitsNever
  <2>. QED
    BY <1>1, <1>4, <2>1, <2>2, LaunchKeeps
<1>. QED
  BY <1>2, <1>3, <1>4 DEF LaunchAsked

LEMMA StutterKeeps == ASSUME SystemInv, UNCHANGED system PROVE Kept
<1>1. UNCHANGED records /\ UNCHANGED broker /\ UNCHANGED queues /\ UNCHANGED <<status, backoff, now, leases>>
  BY DEF system, records, broker, queues
<1>2. TypeOK' /\ PositionIncreases /\ OutcomeIsFinal
  BY <1>1, RecordsStay DEF SystemInv
<1>3. BrokerInv' /\ JobsBalance'
  BY <1>1, BrokerStays, QueuedStay DEF SystemInv, JobsBalance, Active
<1>. QED
  BY <1>1, <1>2, <1>3, ElsewhereKeeps DEF SystemInv

LEMMA SystemStep == ASSUME SystemInv, [SystemNext]_system PROVE Kept
<1>1. ASSUME NEW j \in Jobs, Submit(j) PROVE Kept
  BY <1>1, SubmitKeeps
<1>2. ASSUME NEW j \in Jobs, ManualRetry(j) PROVE Kept
  BY <1>2, ManualRetryKeeps
<1>3. ASSUME NEW j \in Jobs, CancelWaiting(j) PROVE Kept
  BY <1>3, CancelKeeps
<1>4. ASSUME NEW j \in Jobs, ExecutorStep(j) PROVE Kept
  BY <1>4, RunKeeps, EndKeeps, StartBackoffKeeps, EndBackoffKeeps DEF ExecutorStep
<1>5. CASE LaunchNext
  BY <1>5, LaunchCachedKeeps, LaunchUnaskedKeeps, LaunchAskedKeeps DEF LaunchNext
<1>6. CASE Tick
  BY <1>6, TickKeeps
<1>7. CASE UNCHANGED system
  BY <1>7, StutterKeeps
<1>. QED
  BY <1>1, <1>2, <1>3, <1>4, <1>5, <1>6, <1>7 DEF SystemNext

LEMMA SystemInvHolds == SystemSpec => []SystemInv
<1>1. SystemInv /\ [SystemNext]_system => SystemInv'
  BY SystemStep DEF Kept
<1>. QED
  BY <1>1, SystemStarts, PTL DEF SystemSpec

-----------------------------------------------------------------------------
(* Results.                                                                *)

(* Every part keeps its type, for any jobs, plans, budgets and limits.     *)
THEOREM SystemIsTyped == SystemSpec => []SystemTypeOK
<1>1. SystemInv => SystemTypeOK
  BY AdmissionAssumption DEF SystemInv, SystemTypeOK, BrokerInv, QueuesInv
<1>. QED
  BY <1>1, SystemInvHolds, PTL

(* Whatever mix of plans is admitted and however attempts end, no budget   *)
(* is exceeded, and the last pressure event of each kind tells the level   *)
(* of what is reserved now.                                                *)
THEOREM LoadStaysBoundedAndTold == SystemSpec => []LoadIsBoundedAndTold
<1>1. SystemInv => LoadIsBoundedAndTold
  BY DEF SystemInv, BrokerInv
<1>. QED
  BY <1>1, SystemInvHolds, PTL

(* The records, the queue, its counters and the reservations never drift   *)
(* apart.                                                                  *)
THEOREM BooksStayBalanced == SystemSpec => []BooksBalance
<1>1. SystemInv => BooksBalance
  BY DEF SystemInv, QueuesInv, JobsBalance, BooksBalance
<1>. QED
  BY <1>1, SystemInvHolds, PTL

(* A waiting job fails only if the idle machine could run it by no plan    *)
(* but a smaller batch.                                                    *)
THEOREM RejectionsAreFinal == SystemSpec => NothingFeasibleIsRejected
<1>1. SystemInv /\ [SystemNext]_system => [RejectionIsFinal]_system
  BY SystemStep DEF Kept, Orderly
<1>. QED
  BY <1>1, SystemInvHolds, PTL DEF SystemSpec, NothingFeasibleIsRejected

(* Jobs are served in the order they keep while they wait, and the head    *)
(* start of a high priority is bounded.                                    *)
THEOREM ServiceIsOrdered == SystemSpec => ServedInOrder
<1>1. SystemInv /\ [SystemNext]_system => [PlacesAreKept /\ HeadStartIsBounded]_system
  BY SystemStep DEF Kept, Orderly
<1>. QED
  BY <1>1, SystemInvHolds, PTL DEF SystemSpec, ServedInOrder

(* The records of the composed system only advance, launches from the      *)
(* cache included.                                                         *)
THEOREM SystemRecordsAdvance == SystemSpec => RecordsAdvance
<1>1. SystemInv /\ [SystemNext]_system => [PositionIncreases /\ OutcomeIsFinal]_vars
  BY SystemStep DEF Kept, Orderly
<1>. QED
  BY <1>1, SystemInvHolds, PTL DEF SystemSpec, RecordsAdvance

=============================================================================
