---------------------------- MODULE SchedulerQueues ----------------------------
(***************************************************************************)
(* The waiting jobs and the choice of the next one                         *)
(* (src/comfyng/scheduler/queues.py and priority.py).                      *)
(*                                                                         *)
(* The items are kept in the order of their sequence numbers, of which     *)
(* only the order matters; a job enqueued again gets a new number.         *)
(***************************************************************************)
EXTENDS Integers, Sequences, SequencesExt

CONSTANTS
  QueueNames,    \* the queues, in the order of the enumeration
  QueueOf,       \* the queue of each job
  Merit,         \* its user priority plus bonuses minus penalties, but for the age
  AgeRate,       \* age_points_per_second
  MaxQueued,     \* max_queued
  QueueLimits    \* per_queue_limits, for the queues that have one

ASSUME QueuesAssumption ==
  /\ QueueOf \in [DOMAIN QueueOf -> ToSet(QueueNames)]
  /\ Merit \in [DOMAIN QueueOf -> Int]
  /\ AgeRate \in Nat
  /\ MaxQueued \in Nat \ {0}
  /\ DOMAIN QueueLimits \subseteq ToSet(QueueNames)
  /\ QueueLimits \in [DOMAIN QueueLimits -> Nat \ {0}]

VARIABLES
  items,     \* _items: jobs with the time they were queued at
  byQueue    \* _by_queue: the number of items of each queue

queues == <<items, byQueue>>

Item == [job : DOMAIN QueueOf, at : Nat]

QueuesTypeOK ==
  /\ items \in Seq(Item)
  /\ byQueue \in [ToSet(QueueNames) -> Int]

QueuesInit ==
  /\ items = <<>>
  /\ byQueue = [q \in ToSet(QueueNames) |-> 0]

QueuedJobs == {items[i].job : i \in DOMAIN items}

\* ensure_capacity()
QueueHasRoom(q) ==
  /\ Len(items) < MaxQueued
  /\ q \in DOMAIN QueueLimits => byQueue[q] < QueueLimits[q]

EnqueueItem(item) ==
  /\ item.job \notin QueuedJobs
  /\ QueueHasRoom(QueueOf[item.job])
  /\ items' = Append(items, item)
  /\ byQueue' = [byQueue EXCEPT ![QueueOf[item.job]] = @ + 1]

\* priority_score() with queue_age_bonus()
Score(item, time) ==
  Merit[item.job] + AgeRate * (IF time > item.at THEN time - item.at ELSE 0)

QueuePosition(item) == CHOOSE n \in DOMAIN QueueNames : QueueNames[n] = QueueOf[item.job]

\* The key of pop_next(), but for the sequence number.
Better(x, y, time) ==
  \/ Score(x, time) > Score(y, time)
  \/ /\ Score(x, time) = Score(y, time)
     /\ \/ QueuePosition(x) < QueuePosition(y)
        \/ QueuePosition(x) = QueuePosition(y) /\ x.at < y.at

\* Fault: the longest waiting item, whatever its merit.
NextIndexFifo(time) == 1

\* The index of the item pop_next() selects.
NextIndex(time) ==
  CHOOSE i \in DOMAIN items :
    \A k \in DOMAIN items \ {i} :
      \/ Better(items[i], items[k], time)
      \/ i < k /\ ~Better(items[k], items[i], time)

RemoveItem(i) ==
  /\ items' = RemoveAt(items, i)
  /\ byQueue' = [byQueue EXCEPT ![QueueOf[items[i].job]] = @ - 1]

-----------------------------------------------------------------------------
(* The counters that ensure_capacity() relies on agree with the items, and *)
(* neither the whole nor a limited queue ever holds more than it may,      *)
(* although retries and deferrals enqueue again what was admitted before.  *)
CountOf(q) == Cardinality({j \in QueuedJobs : QueueOf[j] = q})
QueueBalance ==
  /\ Len(items) <= MaxQueued
  /\ IsInjective([i \in DOMAIN items |-> items[i].job])
  /\ \A q \in ToSet(QueueNames) :
       /\ byQueue[q] = CountOf(q)
       /\ q \in DOMAIN QueueLimits => byQueue[q] <= QueueLimits[q]

=============================================================================
