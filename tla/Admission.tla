------------------------------- MODULE Admission -------------------------------
(***************************************************************************)
(* How a job gets from the queues to the machine and what happens to its   *)
(* place and its reservation when it ends: the records of JobLifecycle,    *)
(* the queues and the broker, put together as src/comfyng/scheduler/       *)
(* scheduler.py does with the in-memory stores that the API installs.      *)
(*                                                                         *)
(* With these stores no other task runs between two statements of a        *)
(* handler, so a handler is one action up to its next real wait, which for *)
(* an executor is the dispatcher or the delay before a retry.              *)
(* Scheduler.tla has every await, and leaves open which job is chosen and  *)
(* which plan it gets.                                                     *)
(***************************************************************************)
EXTENDS JobLifecycle, ResourceBroker, SchedulerQueues

CONSTANTS
  MaxConcurrency,  \* max_concurrency
  Cacheable,       \* jobs whose result may be found in the cache
  MaxTime          \* bound: the clock stops there

ASSUME AdmissionAssumption ==
  /\ DOMAIN Plans = Jobs /\ DOMAIN QueueOf = Jobs
  /\ MaxConcurrency \in Nat \ {0}
  /\ Cacheable \subseteq Jobs
  /\ MaxTime \in Nat

VARIABLES
  backoff,   \* jobs whose executor waits before it requeues them
  now        \* the clock

records == <<status, attempt>>
system == <<status, attempt, leases, levels, pressure, items, byQueue, backoff, now>>

\* Every part keeps its type.
SystemTypeOK ==
  /\ TypeOK
  /\ BrokerTypeOK
  /\ QueuesTypeOK
  /\ backoff \subseteq Jobs
  /\ now \in 0 .. MaxTime

SystemInit ==
  /\ Init
  /\ BrokerInit
  /\ QueuesInit
  /\ backoff = {}
  /\ now = 0

Active == {j \in Jobs : status[j] \in {"preparing", "running"}}

\* submit(): refused when there is no room.
Submit(j) ==
  /\ Create(j)
  /\ EnqueueItem([job |-> j, at |-> now])
  /\ UNCHANGED <<broker, backoff, now>>

\* retry(): by a client, of a failed job.
ManualRetry(j) ==
  /\ Retry(j, "failed")
  /\ EnqueueItem([job |-> j, at |-> now])
  /\ UNCHANGED <<broker, backoff, now>>

\* cancel() of a job that waits; one that runs ends as its executor does.
CancelWaiting(j) ==
  /\ Transition(j, "queued", "cancelled")
  /\ \E i \in DOMAIN items : items[i].job = j /\ RemoveItem(i)
  /\ UNCHANGED <<broker, backoff, now>>

-----------------------------------------------------------------------------
(* _launch_next(): the loop takes the best item, if there is a free place. *)

Popped(i) ==
  /\ Cardinality(Active) < MaxConcurrency
  /\ items # <<>>
  /\ i = NextIndex(now)

LaunchCached(i) ==
  LET j == items[i].job IN
  /\ Popped(i)
  /\ j \in Cacheable
  /\ RemoveItem(i)
  /\ status' = [status EXCEPT ![j] = "completed"]
  /\ UNCHANGED <<attempt, broker, backoff, now>>

\* A job without an estimate is not shown to the broker.
LaunchUnasked(i) ==
  LET j == items[i].job IN
  /\ Popped(i)
  /\ Offers(j) = {}
  /\ RemoveItem(i)
  /\ Transition(j, "queued", "preparing")
  /\ UNCHANGED <<broker, backoff, now>>

\* The popped item is enqueued again: it keeps the time it was queued at and gets a new
\* sequence number.
Defer(i) ==
  /\ items' = Append(RemoveAt(items, i), items[i])
  /\ UNCHANGED byQueue

LaunchAsked(i) ==
  LET j == items[i].job
      decision == Decision(j)
  IN
  /\ Popped(i)
  /\ Offers(j) # {}
  /\ \/ /\ decision \in Transforms \cup {"reduce_batch"}
        /\ RemoveItem(i)
        /\ Reserve(j, decision)
        /\ Transition(j, "queued", "preparing")
     \/ /\ decision = "sequence"
        /\ Defer(i)
        /\ UNCHANGED <<records, broker>>
     \/ /\ decision = "reject"
        /\ RemoveItem(i)
        /\ Transition(j, "queued", "failed")
        /\ UNCHANGED broker
  /\ UNCHANGED <<backoff, now>>

LaunchNext == \E i \in DOMAIN items : LaunchCached(i) \/ LaunchUnasked(i) \/ LaunchAsked(i)

-----------------------------------------------------------------------------
(* _execute(), one executor for each active job.                           *)

Run(j) ==
  /\ Transition(j, "preparing", "running")
  /\ UNCHANGED <<broker, queues, backoff, now>>

\* The attempt ends: its outcome is recorded, and the finally block releases.
End(j) ==
  /\ j \notin backoff
  /\ \E outcome \in Terminal : Transition(j, "running", outcome)
  /\ ReleaseLease(j)
  /\ UNCHANGED <<queues, backoff, now>>

\* Fault: an attempt that waits for the next one keeps its reservation.
StartBackoffReserved(j) ==
  /\ status[j] = "running"
  /\ j \notin backoff
  /\ attempt[j] + 1 < MaxAttempts
  /\ backoff' = backoff \cup {j}
  /\ UNCHANGED <<records, broker, queues, now>>

\* An error that is worth another attempt releases before the delay.
StartBackoff(j) ==
  /\ status[j] = "running"
  /\ j \notin backoff
  /\ attempt[j] + 1 < MaxAttempts
  /\ ReleaseLease(j)
  /\ backoff' = backoff \cup {j}
  /\ UNCHANGED <<records, queues, now>>

\* After the delay: queued again, failed for want of room, or cancelled meanwhile.
EndBackoff(j) ==
  /\ j \in backoff
  /\ backoff' = backoff \ {j}
  /\ \/ /\ Retry(j, "running")
        /\ EnqueueItem([job |-> j, at |-> now])
     \/ /\ ~QueueHasRoom(QueueOf[j])
        /\ Transition(j, "running", "failed")
        /\ UNCHANGED queues
     \/ /\ Transition(j, "running", "cancelled")
        /\ UNCHANGED queues
  /\ UNCHANGED <<broker, now>>

Tick ==
  /\ now < MaxTime
  /\ now' = now + 1
  /\ UNCHANGED <<records, broker, queues, backoff>>

ExecutorStep(j) == Run(j) \/ End(j) \/ StartBackoff(j) \/ EndBackoff(j)

SystemNext ==
  \/ \E j \in Jobs : Submit(j) \/ ManualRetry(j) \/ CancelWaiting(j) \/ ExecutorStep(j)
  \/ LaunchNext
  \/ Tick

(* The loop and the executors go on; clients do what they want.            *)
SystemSpec ==
  /\ SystemInit
  /\ [][SystemNext]_system
  /\ WF_system(LaunchNext)
  /\ \A j \in Jobs : WF_system(ExecutorStep(j))

-----------------------------------------------------------------------------
(* What the records say, what waits and what is reserved never drift       *)
(* apart: the jobs that wait are the QUEUED ones, and what the broker      *)
(* counts as used belongs to exactly the attempts that are prepared or     *)
(* run, but for those that wait for their next attempt.  The counters per  *)
(* queue agree with the items.                                             *)
BooksBalance ==
  /\ QueueBalance
  /\ QueuedJobs = {j \in Jobs : status[j] = "queued"}
  /\ DOMAIN leases = {j \in Active \ backoff : Offers(j) # {}}

(* A waiting job fails only if the idle machine could not run it by any    *)
(* plan but a smaller batch; any other is put back to wait.                *)
RejectionIsFinal ==
  \A j \in Jobs : status[j] = "queued" /\ status'[j] = "failed" =>
    \A a \in Offers(j) \cap Transforms : ~FitsMachine(Plans[j][a])
NothingFeasibleIsRejected == [][RejectionIsFinal]_system

ItemOf(j) == items[CHOOSE i \in DOMAIN items : items[i].job = j]

(* Between two jobs that wait, none passes the other by waiting: deferrals *)
(* and the clock leave their order alone.  (Exact ties are served by       *)
(* sequence number, which a deferral renews.)                              *)
PlacesAreKept ==
  \A j, k \in QueuedJobs \cap QueuedJobs' :
    attempt[j] = attempt'[j] /\ attempt[k] = attempt'[k] /\ Better(ItemOf(j), ItemOf(k), now)
      => Better(ItemOf(j)', ItemOf(k)', now')

(* A job is started before another that still waits only if its merit      *)
(* makes up for all the time the other was queued before it.  Whatever the *)
(* clock shows, the head start of a high priority is bounded.              *)
HeadStartIsBounded ==
  \A j \in Jobs, k \in QueuedJobs \cap QueuedJobs' :
    status[j] = "queued" /\ status'[j] \in {"preparing", "completed"} =>
      AgeRate * (ItemOf(j).at - ItemOf(k).at) <= Merit[j] - Merit[k]

(* Both hold: jobs are served in the order they keep while they wait.      *)
ServedInOrder == [][PlacesAreKept /\ HeadStartIsBounded]_system

(* Every submitted job ends: a deferral is never for ever, since the plan  *)
(* the job waits for fits the machine once the others have released it.    *)
JobsEnd == \A j \in Jobs : status[j] # "absent" ~> status[j] \in Terminal

=============================================================================
