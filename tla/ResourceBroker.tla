---------------------------- MODULE ResourceBroker ----------------------------
(***************************************************************************)
(* Admission of jobs to the machine's budgets and the pressure it reports  *)
(* (src/comfyng/resources/broker.py, budgets.py, pressure.py).             *)
(*                                                                         *)
(* A budget is a kind of resource: cores, memory, reads, and for each GPU  *)
(* its memory and its places for heavy jobs.  admit() and release() hold   *)
(* one lock from beginning to end, so each is one action.                  *)
(***************************************************************************)
EXTENDS Integers, FiniteSets, FiniteSetsExt

CONSTANTS
  Limits,    \* ResourceLimits: the budget of every kind; 0 for a GPU that is not there
  Sampled,   \* the kinds whose pressure is observed: all but the heavy places
  Plans      \* the ResourceEstimate of every job under each FallbackAction it offers

Kinds == DOMAIN Limits

Estimates == [Kinds -> Nat]

\* The plans admit() compares with the machine as it is and as it could be.
Transforms == {"none", "offload", "quantize"}

\* _TRANSFORM_ORDER, after the estimate itself
Rank == [none |-> 0, offload |-> 1, quantize |-> 2]

\* A job without an estimate offers nothing and is never shown to the broker.
Offers(h) == DOMAIN Plans[h]

ASSUME BrokerAssumption ==
  /\ Limits \in [Kinds -> Nat]
  /\ Sampled \subseteq {k \in Kinds : Limits[k] > 0}
  /\ \A h \in DOMAIN Plans :
       /\ Offers(h) \subseteq Transforms \cup {"reduce_batch"}
       /\ Offers(h) # {} => "none" \in Offers(h)
       /\ Plans[h] \in [Offers(h) -> Estimates]

VARIABLES
  leases,    \* the active reservations: by which action the estimate of each was selected
  levels,    \* PressureMonitor._levels
  pressure   \* the level that the last PressureEvent of each kind told

broker == <<leases, levels, pressure>>

BrokerTypeOK ==
  /\ DOMAIN leases \subseteq DOMAIN Plans
  /\ \A h \in DOMAIN leases : leases[h] \in Offers(h)
  /\ levels \in [Sampled -> {"normal", "elevated", "critical"}]
  /\ pressure \in [Sampled -> {"normal", "elevated", "critical"}]

BrokerInit ==
  /\ leases = [h \in {} |-> "none"]
  /\ levels = [k \in Sampled |-> "normal"]
  /\ pressure = [k \in Sampled |-> "normal"]

Used(k) == MapThenSumSet(LAMBDA h : Plans[h][leases[h]][k], DOMAIN leases)

Available(k) == Max({0, Limits[k] - Used(k)})

\* Fault: what is reserved is not looked at.
FitsNowAlone(estimate) == \A k \in Kinds : estimate[k] <= Limits[k]

FitsNow(estimate) == \A k \in Kinds : estimate[k] <= Available(k)

FitsMachine(estimate) == \A k \in Kinds : estimate[k] <= Limits[k]

\* Fault: only the estimate itself is looked at.
SequenceableUntransformed(h) == {a \in Offers(h) \cap {"none"} : FitsMachine(Plans[h][a])}

\* Fault: every job may wait.
SequenceableAlways(h) == Offers(h) \cap Transforms

\* The transformable plans that can start at once, and those that could if others ended.
Ready(h) == {a \in Offers(h) \cap Transforms : FitsNow(Plans[h][a])}
Sequenceable(h) == {a \in Offers(h) \cap Transforms : FitsMachine(Plans[h][a])}

\* The action admit() decides on.
Decision(h) ==
  CASE Ready(h) # {} -> CHOOSE a \in Ready(h) : \A b \in Ready(h) : Rank[a] <= Rank[b]
    [] Ready(h) = {} /\ Sequenceable(h) # {} -> "sequence"
    [] Ready(h) \cup Sequenceable(h) = {} ->
         IF "reduce_batch" \in Offers(h) /\ FitsNow(Plans[h]["reduce_batch"])
         THEN "reduce_batch" ELSE "reject"

Classify(used, limit) ==
  CASE 100 * used >= 95 * limit -> "critical"
    [] 100 * used >= 80 * limit /\ 100 * used < 95 * limit -> "elevated"
    [] OTHER -> "normal"

\* Every change of the reservations is followed by an observation; only a change of level is told.
Observe ==
  /\ levels' = [k \in Sampled |-> Classify(Used(k)', Limits[k])]
  /\ pressure' = [k \in Sampled |-> IF levels'[k] = levels[k] THEN pressure[k] ELSE levels'[k]]

Reserve(h, action) ==
  /\ leases' = [x \in DOMAIN leases \cup {h} |-> IF x = h THEN action ELSE leases[x]]
  /\ Observe

\* release(): only an active reservation is removed and observed.
ReleaseLease(h) ==
  \/ /\ h \in DOMAIN leases
     /\ leases' = [x \in DOMAIN leases \ {h} |-> leases[x]]
     /\ Observe
  \/ /\ h \notin DOMAIN leases
     /\ UNCHANGED broker

-----------------------------------------------------------------------------
(* Whatever was admitted, by whichever plan, no budget is exceeded.        *)
NeverOverbooked == \A k \in Kinds : Used(k) <= Limits[k]

(* Whoever reads the pressure events knows how loaded the machine is: the  *)
(* last event of a kind tells the level of what is reserved now, also      *)
(* after the releases of failed, cancelled and retried attempts.           *)
PressureIsTold == \A k \in Sampled : pressure[k] = Classify(Used(k), Limits[k])

(* The machine's load is bounded and known: both of the above.             *)
LoadIsBoundedAndTold == NeverOverbooked /\ PressureIsTold

=============================================================================
