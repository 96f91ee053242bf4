------------------------------ MODULE Scheduler ------------------------------
(***************************************************************************)
(* The asyncio job scheduler (src/comfyng/scheduler/scheduler.py) with the *)
(* parts of the repository, the queues, the broker, the result cache and   *)
(* the dispatcher that decide its control flow.                            *)
(*                                                                         *)
(* Actors: the run() loop, one executor task per launched attempt of a     *)
(* job, and clients calling submit, cancel, retry and stop.  All run on    *)
(* one event loop, so a stretch of code without a suspending await is      *)
(* atomic.  What suspends depends on the stores: the in-memory repository  *)
(* and journal never do, the SQLite ones do at every call.  Suspends says  *)
(* which stores are installed; turn names the actor that holds the event   *)
(* loop between two actions of one uninterrupted stretch.                  *)
(*                                                                         *)
(* _control_lock is never taken twice, so the client operation or launch   *)
(* that holds it keeps its program counter in lock and its job in subject. *)
(***************************************************************************)
EXTENDS Integers, FiniteSets, Sequences

CONSTANTS
  Jobs,            \* identifiers of the jobs that clients submit
  MaxAttempts,     \* JobSubmission.max_attempts
  MaxQueued,       \* SchedulerQueues.max_queued
  MaxConcurrency,  \* Scheduler.max_concurrency
  Slots,           \* reservations the broker can have outstanding
  Needs,           \* jobs with a resource_estimate (one reservation each)
  Oversized,       \* jobs the broker rejects whatever is free
  Keyed,           \* jobs that carry the (one) node-result cache key
  Cancellable,     \* jobs some client may cancel
  Retriable,       \* jobs some client may retry by hand
  NoJob,           \* no job: the lock is free
  Suspends         \* TRUE with SQLite stores, FALSE with in-memory ones

ASSUME SchedulerAssumption ==
  /\ MaxAttempts \in Nat \ {0}
  /\ MaxQueued \in Nat \ {0}
  /\ MaxConcurrency \in Nat \ {0}
  /\ Slots \in Nat
  /\ IsFiniteSet(Jobs)
  /\ NoJob \notin Jobs
  /\ Suspends \in BOOLEAN

Attempts == 0 .. MaxAttempts - 1
Tasks == Jobs \X Attempts     \* the attempt <<j, a>> is executed by one task
Absent == -1                  \* a key that is in none of the dicts

\* The actors, besides the executor tasks.
Nobody == <<>>
Loop == <<"loop">>
Client == <<"client">>

VARIABLES
  status,     \* repository: JobRecord.status, "absent" before create()
  attempt,    \* repository: JobRecord.attempt
  queue,      \* SchedulerQueues._items
  active,     \* _active and _tokens: the attempt registered for a job
  reserved,   \* _reservations: the attempt whose reservation is registered
  granted,    \* ResourceBroker._reservations
  cancelled,  \* attempts whose CancellationToken is set
  cached,     \* the cache holds a result under the key of Keyed
  journal,    \* lifecycle events published for a job, oldest first
  pc,         \* where the executor task of an attempt stands
  lock,       \* _control_lock: free, or what its holder does next
  subject,    \* the job the holder of the lock works on
  loop,       \* where run() and run_until_idle() stand
  awaited,    \* the tasks asyncio.wait was given
  wake,       \* the _wake event
  stopping,   \* _stop_requested
  turn        \* the actor in the middle of an uninterrupted stretch

records == <<status, attempt>>
dicts   == <<active, reserved, granted>>
control == <<lock, subject>>
looping == <<loop, awaited>>
vars == <<status, attempt, queue, active, reserved, granted, cancelled, cached,
          journal, pc, lock, subject, loop, awaited, wake, stopping, turn>>

ExecutorPc == {"none", "start", "running", "dispatch", "saving", "backoff",
               "locking", "refused", "requeueing", "requeued", "cancelling",
               "failing", "completed", "failed", "cancelled", "done"}

LockPc == {"free", "recorded", "announcing", "removing", "signalling", "popped",
           "preparing", "prepared", "rejecting", "deferring", "cached", "executor"}

LoopPc == {"top", "inner", "locking", "launching", "settle", "waiting", "idle",
           "poll", "stopped"}

Statuses == {"queued", "preparing", "running", "completed", "failed", "cancelled"}
Terminal == {"completed", "failed", "cancelled"}
Events == [name : Statuses, attempt : Attempts]

TypeOK ==
  /\ status \in [Jobs -> Statuses \cup {"absent"}]
  /\ attempt \in [Jobs -> Attempts]
  /\ queue \subseteq Jobs
  /\ active \in [Jobs -> Attempts \cup {Absent}]
  /\ reserved \in [Jobs -> Attempts \cup {Absent}]
  /\ granted \subseteq Tasks
  /\ cancelled \subseteq Tasks
  /\ cached \in BOOLEAN
  /\ journal \in [Jobs -> Seq(Events)]
  /\ pc \in [Tasks -> ExecutorPc]
  /\ lock \in LockPc
  /\ subject \in Jobs \cup {NoJob}
  /\ loop \in LoopPc
  /\ awaited \subseteq Tasks
  /\ wake \in BOOLEAN
  /\ stopping \in BOOLEAN
  /\ turn \in Tasks \cup {Nobody, Loop, Client}

Init ==
  /\ status = [j \in Jobs |-> "absent"]
  /\ attempt = [j \in Jobs |-> 0]
  /\ queue = {}
  /\ active = [j \in Jobs |-> Absent]
  /\ reserved = [j \in Jobs |-> Absent]
  /\ granted = {}
  /\ cancelled = {}
  /\ cached = FALSE
  /\ journal = [j \in Jobs |-> <<>>]
  /\ pc = [t \in Tasks |-> "none"]
  /\ lock = "free"
  /\ subject = NoJob
  /\ loop = "top"
  /\ awaited = {}
  /\ wake = FALSE
  /\ stopping = FALSE
  /\ turn = Nobody

-----------------------------------------------------------------------------
(* The event loop.                                                         *)

\* p may run: it goes on with its own stretch, or nobody is in one.
Runs(p) == turn \in {p, Nobody}

\* What the step of p ends with: an await that is ready at once, one that
\* suspends, or a call of a store.
Continue(p) == turn' = p
Suspend == turn' = Nobody
CallStore(p) == turn' = IF Suspends THEN Nobody ELSE p

(* The lock, the records and the dicts.                                    *)

Acquire(step, j) ==
  /\ lock = "free"
  /\ lock' = step
  /\ subject' = j

\* The holder of the lock takes the step named from, and goes on with to.
Advance(from, to) ==
  /\ lock = from
  /\ lock' = to
  /\ UNCHANGED subject

Unlock(from) ==
  /\ lock = from
  /\ lock' = "free"
  /\ subject' = NoJob

\* Scheduler._transition, its two calls: the repository, then the journal.
SetStatus(j, s) ==
  /\ status' = [status EXCEPT ![j] = s]
  /\ UNCHANGED attempt

Requeue(j) ==
  /\ status' = [status EXCEPT ![j] = "queued"]
  /\ attempt' = [attempt EXCEPT ![j] = @ + 1]

Publish(j, s, a) ==
  journal' = [journal EXCEPT ![j] = Append(@, [name |-> s, attempt |-> a])]

ActiveTasks == {t \in Tasks : active[t[1]] = t[2]}

HasRoom == Cardinality({j \in Jobs : active[j] # Absent}) < MaxConcurrency

\* SchedulerQueues.ensure_capacity
HasCapacity == Cardinality(queue) < MaxQueued

\* Fault: the entry is popped and broker.release is forgotten.
ForgetReservation(j) ==
  /\ reserved' = [reserved EXCEPT ![j] = Absent]
  /\ UNCHANGED granted

\* _release_reservation: whatever is registered for the job goes back to the
\* broker, whichever attempt it was granted to.
ReleaseReservation(j) ==
  /\ granted' = granted \ {<<j, reserved[j]>>}
  /\ reserved' = [reserved EXCEPT ![j] = Absent]

-----------------------------------------------------------------------------
(* Clients.  A call that changes nothing (backpressure, an unknown or      *)
(* terminal job) is a stuttering step.                                     *)

\* submit(): capacity first, then repository.create.
Submit(j) ==
  /\ turn = Nobody
  /\ status[j] = "absent"
  /\ HasCapacity
  /\ Acquire("recorded", j)
  /\ SetStatus(j, "queued")
  /\ CallStore(Client)
  /\ UNCHANGED <<queue, dicts, cancelled, cached, journal, pc, looping, wake, stopping>>

\* retry(): capacity first, then repository.retry(expected=FAILED).
ManualRetry(j) ==
  /\ turn = Nobody
  /\ j \in Retriable
  /\ status[j] = "failed"
  /\ attempt[j] + 1 < MaxAttempts
  /\ HasCapacity
  /\ Acquire("recorded", j)
  /\ Requeue(j)
  /\ CallStore(Client)
  /\ UNCHANGED <<queue, dicts, cancelled, cached, journal, pc, looping, wake, stopping>>

\* The end of both: enqueue and publish job.queued ...
Enqueue ==
  /\ Runs(Client)
  /\ Advance("recorded", "announcing")
  /\ queue' = queue \cup {subject}
  /\ Publish(subject, "queued", attempt[subject])
  /\ CallStore(Client)
  /\ UNCHANGED <<records, dicts, cancelled, cached, pc, looping, wake, stopping>>

\* ... then set the wake event and leave the lock.
Announce ==
  /\ Runs(Client)
  /\ Unlock("announcing")
  /\ wake' = TRUE
  /\ Suspend
  /\ UNCHANGED <<records, queue, dicts, cancelled, cached, journal, pc, looping, stopping>>

\* cancel(): read the record, and act on what was read.
Cancel(j) ==
  /\ turn = Nobody
  /\ j \in Cancellable
  /\ status[j] \in {"queued", "preparing", "running"}
  /\ Acquire(IF status[j] = "queued" THEN "removing" ELSE "signalling", j)
  /\ CallStore(Client)
  /\ UNCHANGED <<records, queue, dicts, cancelled, cached, journal, pc, looping, wake, stopping>>

CancelQueued ==
  /\ Runs(Client)
  /\ Unlock("removing")
  /\ queue' = queue \ {subject}
  /\ SetStatus(subject, "cancelled")
  /\ Publish(subject, "cancelled", attempt[subject])
  /\ Suspend
  /\ UNCHANGED <<dicts, cancelled, cached, pc, looping, wake, stopping>>

\* Fault: cancel() writes the terminal status itself.
CancelEagerly ==
  /\ Runs(Client)
  /\ Unlock("signalling")
  /\ active[subject] # Absent
  /\ cancelled' = cancelled \cup {<<subject, active[subject]>>}
  /\ SetStatus(subject, "cancelled")
  /\ wake' = TRUE
  /\ Suspend
  /\ UNCHANGED <<queue, dicts, cached, journal, pc, looping, stopping>>

\* A job without a token is not in flight any more: cancel() returns False.
CancelInFlight ==
  /\ Runs(Client)
  /\ Unlock("signalling")
  /\ IF active[subject] = Absent
     THEN UNCHANGED <<cancelled, wake>>
     ELSE /\ cancelled' = cancelled \cup {<<subject, active[subject]>>}
          /\ wake' = TRUE
  /\ Suspend
  /\ UNCHANGED <<records, queue, dicts, cached, journal, pc, looping, stopping>>

Stop ==
  /\ turn = Nobody
  /\ ~stopping
  /\ stopping' = TRUE
  /\ wake' = TRUE
  /\ UNCHANGED <<records, queue, dicts, cancelled, cached, journal, pc, control, looping, turn>>

-----------------------------------------------------------------------------
(* run(), run_until_idle() and _launch_next().                             *)

LoopTop ==
  /\ loop = "top"
  /\ Runs(Loop)
  /\ IF stopping
     THEN loop' = "stopped" /\ Suspend /\ UNCHANGED wake
     ELSE loop' = "inner" /\ Continue(Loop) /\ wake' = FALSE
  /\ UNCHANGED <<records, queue, dicts, cancelled, cached, journal, pc, control, awaited, stopping>>

\* The unlocked test of the inner while; the loop suspends only if the lock
\* is contended.
LoopInner ==
  /\ loop = "inner"
  /\ Runs(Loop)
  /\ IF HasRoom /\ queue # {}
     THEN /\ loop' = "locking"
          /\ turn' = IF lock = "free" THEN Loop ELSE Nobody
     ELSE loop' = "settle" /\ Continue(Loop)
  /\ UNCHANGED <<records, queue, dicts, cancelled, cached, journal, pc, control, awaited, wake, stopping>>

\* The same test under the lock failed: nothing to launch any more.
LaunchNothing ==
  /\ loop = "locking"
  /\ Runs(Loop)
  /\ lock = "free"
  /\ ~(HasRoom /\ queue # {})
  /\ loop' = "settle"
  /\ Continue(Loop)
  /\ UNCHANGED <<records, queue, dicts, cancelled, cached, journal, pc, control, awaited, wake, stopping>>

\* pop_next (which item is SchedulerQueues' affair), then repository.get.  An
\* item is only ever queued for a QUEUED record (QueuedOnce), so the early
\* return for another status is not taken.
LaunchPop(j) ==
  /\ loop = "locking"
  /\ Runs(Loop)
  /\ HasRoom
  /\ j \in queue
  /\ Acquire("popped", j)
  /\ queue' = queue \ {j}
  /\ loop' = "launching"
  /\ CallStore(Loop)
  /\ UNCHANGED <<records, dicts, cancelled, cached, journal, pc, awaited, wake, stopping>>

\* A cached result may have been evicted or be unreadable: a hit is never
\* certain.
LaunchHit ==
  /\ Runs(Loop)
  /\ subject \in Keyed /\ cached
  /\ Advance("popped", "cached")
  /\ CallStore(Loop)
  /\ UNCHANGED <<records, queue, dicts, cancelled, cached, journal, pc, looping, wake, stopping>>

\* No estimate, or the broker admits it: a reservation is granted.
LaunchAdmit ==
  /\ Runs(Loop)
  /\ subject \in Needs => subject \notin Oversized /\ Cardinality(granted) < Slots
  /\ Advance("popped", "preparing")
  /\ granted' = IF subject \in Needs
                THEN granted \cup {<<subject, attempt[subject]>>} ELSE granted
  /\ CallStore(Loop)
  /\ UNCHANGED <<records, queue, active, reserved, cancelled, cached, journal, pc, looping, wake,
                 stopping>>

\* The broker rejects the estimate (or raises).
LaunchReject ==
  /\ Runs(Loop)
  /\ subject \in Needs \cap Oversized
  /\ Advance("popped", "rejecting")
  /\ CallStore(Loop)
  /\ UNCHANGED <<records, queue, dicts, cancelled, cached, journal, pc, looping, wake, stopping>>

\* Fault: the deferred item is not put back.
LaunchDrop ==
  /\ Runs(Loop)
  /\ subject \in Needs \ Oversized
  /\ Cardinality(granted) >= Slots
  /\ Advance("popped", "deferring")
  /\ CallStore(Loop)
  /\ UNCHANGED <<records, queue, dicts, cancelled, cached, journal, pc, looping, wake, stopping>>

\* DEFERRED: the item goes back to the queue, job.deferred is published.
LaunchDefer ==
  /\ Runs(Loop)
  /\ subject \in Needs \ Oversized
  /\ Cardinality(granted) >= Slots
  /\ Advance("popped", "deferring")
  /\ queue' = queue \cup {subject}
  /\ CallStore(Loop)
  /\ UNCHANGED <<records, dicts, cancelled, cached, journal, pc, looping, wake, stopping>>

Rejected ==
  /\ Runs(Loop)
  /\ Unlock("rejecting")
  /\ SetStatus(subject, "failed")
  /\ Publish(subject, "failed", attempt[subject])
  /\ loop' = "inner"
  /\ CallStore(Loop)
  /\ UNCHANGED <<queue, dicts, cancelled, cached, pc, awaited, wake, stopping>>

Deferred ==
  /\ Runs(Loop)
  /\ Unlock("deferring")
  /\ loop' = "settle"
  /\ Continue(Loop)
  /\ UNCHANGED <<records, queue, dicts, cancelled, cached, journal, pc, awaited, wake, stopping>>

Prepare ==
  /\ Runs(Loop)
  /\ Advance("preparing", "prepared")
  /\ SetStatus(subject, "preparing")
  /\ Publish(subject, "preparing", attempt[subject])
  /\ CallStore(Loop)
  /\ UNCHANGED <<queue, dicts, cancelled, cached, pc, looping, wake, stopping>>

\* Token, reservation and task are registered in one uninterrupted stretch.
Start ==
  /\ Runs(Loop)
  /\ Unlock("prepared")
  /\ active' = [active EXCEPT ![subject] = attempt[subject]]
  /\ reserved' = [reserved EXCEPT ![subject] =
                    IF subject \in Needs THEN attempt[subject] ELSE @]
  /\ pc' = [pc EXCEPT ![<<subject, attempt[subject]>>] = "start"]
  /\ loop' = "inner"
  /\ Continue(Loop)
  /\ UNCHANGED <<records, queue, granted, cancelled, cached, journal, awaited, wake, stopping>>

\* _complete_from_cache: three transitions, all under the lock.
FromCache(from, to) ==
  /\ Runs(Loop)
  /\ lock = "cached"
  /\ status[subject] = from
  /\ SetStatus(subject, to)
  /\ Publish(subject, to, attempt[subject])
  /\ CallStore(Loop)
  /\ UNCHANGED <<queue, dicts, cancelled, cached, pc, awaited, wake, stopping>>

ServeFromCache ==
  \/ /\ FromCache("queued", "preparing") \/ FromCache("preparing", "running")
     /\ UNCHANGED <<control, loop>>
  \/ /\ FromCache("running", "completed")
     /\ Unlock("cached")
     /\ loop' = "inner"

\* run_until_idle waits for the tasks that are active now, and only for them.
LoopWait ==
  /\ loop = "settle"
  /\ Runs(Loop)
  /\ ActiveTasks # {}
  /\ loop' = "waiting"
  /\ awaited' = ActiveTasks
  /\ Suspend
  /\ UNCHANGED <<records, queue, dicts, cancelled, cached, journal, pc, control, wake, stopping>>

LoopResume ==
  /\ loop = "waiting"
  /\ Runs(Loop)
  /\ \E t \in awaited : pc[t] = "done"
  /\ loop' = "inner"
  /\ awaited' = {}
  /\ Continue(Loop)
  /\ UNCHANGED <<records, queue, dicts, cancelled, cached, journal, pc, control, wake, stopping>>

\* Nothing active: idle if nothing is queued, otherwise the head of the queue
\* was deferred.  Either way a stop request is honoured first.
LoopPause ==
  /\ loop = "settle"
  /\ Runs(Loop)
  /\ ActiveTasks = {}
  /\ loop' = CASE stopping -> "stopped"
               [] ~stopping /\ queue = {} -> "idle"
               [] OTHER -> "poll"
  /\ Suspend
  /\ UNCHANGED <<records, queue, dicts, cancelled, cached, journal, pc, control, awaited, wake,
                 stopping>>

LoopWake ==
  /\ loop = "poll" \/ (loop = "idle" /\ wake)
  /\ Runs(Loop)
  /\ loop' = "top"
  /\ Continue(Loop)
  /\ UNCHANGED <<records, queue, dicts, cancelled, cached, journal, pc, control, awaited, wake,
                 stopping>>

-----------------------------------------------------------------------------
(* _execute(): the task of attempt t = <<j, a>>.                           *)

Goto(t, from, to) ==
  /\ pc[t] = from
  /\ Runs(t)
  /\ pc' = [pc EXCEPT ![t] = to]

ExecRun(t) ==
  /\ Goto(t, "start", "running")
  /\ SetStatus(t[1], "running")
  /\ Publish(t[1], "running", t[2])
  /\ CallStore(t)
  /\ UNCHANGED <<queue, dicts, cancelled, cached, control, looping, wake, stopping>>

\* checkpoint(BETWEEN_BLOCKS): raise CancellationRequested, or dispatch.
ExecCheckpoint(t) ==
  /\ Goto(t, "running", IF t \in cancelled THEN "cancelling" ELSE "dispatch")
  /\ IF t \in cancelled THEN CallStore(t) ELSE Suspend
  /\ UNCHANGED <<records, queue, dicts, cancelled, cached, journal, control, looping, wake, stopping>>

\* Fault: no checkpoint(BEFORE_SAVE).
DispatchUnchecked(t) ==
  /\ Goto(t, "dispatch", "saving")
  /\ CallStore(t)
  /\ UNCHANGED <<records, queue, dicts, cancelled, cached, journal, control, looping, wake, stopping>>

\* The dispatcher returned; checkpoint(BEFORE_SAVE).
DispatchReturned(t) ==
  /\ Goto(t, "dispatch", IF t \in cancelled THEN "cancelling" ELSE "saving")
  /\ CallStore(t)
  /\ UNCHANGED <<records, queue, dicts, cancelled, cached, journal, control, looping, wake, stopping>>

\* The dispatcher observed the token.
DispatchCancelled(t) ==
  /\ t \in cancelled
  /\ Goto(t, "dispatch", "cancelling")
  /\ CallStore(t)
  /\ UNCHANGED <<records, queue, dicts, cancelled, cached, journal, control, looping, wake, stopping>>

\* The dispatcher raised an error the policy retries and the budget allows:
\* the reservation goes back before the backoff sleep.
DispatchRetryable(t) ==
  /\ t[2] + 1 < MaxAttempts
  /\ Goto(t, "dispatch", "backoff")
  /\ ReleaseReservation(t[1])
  /\ Suspend
  /\ UNCHANGED <<records, queue, active, cancelled, cached, journal, control, looping, wake, stopping>>

\* The dispatcher raised any other error, or the budget is spent.
DispatchFailed(t) ==
  /\ Goto(t, "dispatch", "failing")
  /\ CallStore(t)
  /\ UNCHANGED <<records, queue, dicts, cancelled, cached, journal, control, looping, wake, stopping>>

\* cache.put (which may fail or be skipped), then COMPLETED.
ExecComplete(t) ==
  /\ Goto(t, "saving", "completed")
  /\ cached' \in {cached, cached \/ t[1] \in Keyed}
  /\ SetStatus(t[1], "completed")
  /\ CallStore(t)
  /\ UNCHANGED <<queue, dicts, cancelled, journal, control, looping, wake, stopping>>

\* The two ways an attempt ends without a result.
ExecAbort(t, from, outcome) ==
  /\ Goto(t, from, outcome)
  /\ SetStatus(t[1], outcome)
  /\ CallStore(t)
  /\ UNCHANGED <<queue, dicts, cancelled, cached, journal, control, looping, wake, stopping>>

ExecCancel(t) == ExecAbort(t, "cancelling", "cancelled")
ExecFail(t) == ExecAbort(t, "failing", "failed")

\* The sleep is over; the token is looked at before the lock is asked for.
BackoffOver(t) ==
  /\ Goto(t, "backoff", IF t \in cancelled THEN "cancelling" ELSE "locking")
  /\ IF t \in cancelled THEN CallStore(t)
     ELSE turn' = IF lock = "free" THEN t ELSE Nobody
  /\ UNCHANGED <<records, queue, dicts, cancelled, cached, journal, control, looping, wake, stopping>>

\* Under the lock: repository.retry, or FAILED if the queue has filled up.
RetryRefused(t) ==
  /\ Goto(t, "locking", "refused")
  /\ ~HasCapacity
  /\ Acquire("executor", t[1])
  /\ SetStatus(t[1], "failed")
  /\ CallStore(t)
  /\ UNCHANGED <<queue, dicts, cancelled, cached, journal, looping, wake, stopping>>

\* Fault: an automatic retry needs no capacity.
RetryAnyway(t) ==
  /\ Goto(t, "locking", "requeueing")
  /\ Acquire("executor", t[1])
  /\ Requeue(t[1])
  /\ CallStore(t)
  /\ UNCHANGED <<queue, dicts, cancelled, cached, journal, looping, wake, stopping>>

RetryRecorded(t) ==
  /\ Goto(t, "locking", "requeueing")
  /\ HasCapacity
  /\ Acquire("executor", t[1])
  /\ Requeue(t[1])
  /\ CallStore(t)
  /\ UNCHANGED <<queue, dicts, cancelled, cached, journal, looping, wake, stopping>>

\* Fault: job.queued is published for the attempt that failed.
RetryMislabelled(t) ==
  /\ Goto(t, "requeueing", "requeued")
  /\ queue' = queue \cup {t[1]}
  /\ Publish(t[1], "queued", t[2])
  /\ CallStore(t)
  /\ UNCHANGED <<records, dicts, cancelled, cached, control, looping, wake, stopping>>

RetryQueued(t) ==
  /\ Goto(t, "requeueing", "requeued")
  /\ queue' = queue \cup {t[1]}
  /\ Publish(t[1], "queued", attempt[t[1]])
  /\ CallStore(t)
  /\ UNCHANGED <<records, dicts, cancelled, cached, control, looping, wake, stopping>>

\* Fault: the task stays in _active.
FinallyRegistered(t) ==
  /\ pc' = [pc EXCEPT ![t] = "done"]
  /\ ReleaseReservation(t[1])
  /\ wake' = TRUE
  /\ Suspend
  /\ UNCHANGED <<records, queue, active, cancelled, cached, looping, stopping>>

\* The finally block, and the task is done.  It pops by job identifier:
\* whatever is registered for the job, for whichever attempt, goes.
Finally(t) ==
  /\ pc' = [pc EXCEPT ![t] = "done"]
  /\ ReleaseReservation(t[1])
  /\ active' = [active EXCEPT ![t[1]] = Absent]
  /\ wake' = TRUE
  /\ Suspend
  /\ UNCHANGED <<records, queue, cancelled, cached, looping, stopping>>

\* Publish the terminal event of the outcome just written, then finally.
ExecClose(t) ==
  /\ pc[t] \in Terminal
  /\ Runs(t)
  /\ Publish(t[1], pc[t], t[2])
  /\ Finally(t)
  /\ UNCHANGED control

ExecRefused(t) ==
  /\ pc[t] = "refused"
  /\ Runs(t)
  /\ Unlock("executor")
  /\ Publish(t[1], "failed", t[2])
  /\ Finally(t)

ExecRequeued(t) ==
  /\ pc[t] = "requeued"
  /\ Runs(t)
  /\ Unlock("executor")
  /\ Finally(t)
  /\ UNCHANGED journal

-----------------------------------------------------------------------------
ClientCall ==
  \/ \E j \in Jobs : Submit(j) \/ ManualRetry(j) \/ Cancel(j)
  \/ Stop

ClientStep == Enqueue \/ Announce \/ CancelQueued \/ CancelInFlight

LaunchStep ==
  \/ \E j \in Jobs : LaunchPop(j)
  \/ LaunchNothing
  \/ LaunchHit \/ LaunchAdmit \/ LaunchReject \/ LaunchDefer
  \/ Rejected \/ Deferred \/ Prepare \/ Start \/ ServeFromCache

LoopStep ==
  \/ LoopTop \/ LoopInner \/ LaunchStep
  \/ LoopWait \/ LoopResume \/ LoopPause \/ LoopWake

ExecutorStep(t) ==
  \/ ExecRun(t) \/ ExecCheckpoint(t)
  \/ DispatchReturned(t) \/ DispatchCancelled(t) \/ DispatchRetryable(t) \/ DispatchFailed(t)
  \/ ExecComplete(t) \/ ExecCancel(t) \/ ExecFail(t)
  \/ BackoffOver(t) \/ RetryRefused(t) \/ RetryRecorded(t) \/ RetryQueued(t)
  \/ ExecClose(t) \/ ExecRefused(t) \/ ExecRequeued(t)

Next == ClientCall \/ ClientStep \/ LoopStep \/ \E t \in Tasks : ExecutorStep(t)

Spec == Init /\ [][Next]_vars

\* The ready queue of the event loop and the waiters of asyncio.Lock are
\* FIFO: an actor that is ready again and again gets its turn.  Clients owe
\* nobody a call, but a call that has begun goes on.  A task has finitely
\* many steps, so it is enough to ask that the executors together go on.
Fairness ==
  /\ SF_vars(ClientStep)
  /\ SF_vars(LoopStep)
  /\ SF_vars(\E t \in Tasks : ExecutorStep(t))

FairSpec == Spec /\ Fairness

-----------------------------------------------------------------------------
(* Safety.                                                                 *)

\* The job is off the queue in the hands of whoever holds the lock.
InHand(j) == subject = j /\ lock \in {"recorded", "popped", "preparing", "rejecting", "cached"}

\* The executor has the record to itself.
Working == {"start", "running", "dispatch", "saving", "backoff", "locking",
            "cancelling", "failing"}

(* No job is lost: an unfinished record is always in the hands of somebody *)
(* who will carry it on - the queue, the holder of _control_lock, or the   *)
(* executor of its current attempt.  Nothing is persisted about who owns a *)
(* record, so a job that falls between two owners would hang for ever.     *)
NoJobIsLost ==
  \A j \in Jobs :
    /\ status[j] = "queued" =>
         \/ j \in queue \/ InHand(j)
         \/ \E a \in Attempts : pc[<<j, a>>] = "requeueing" /\ attempt[j] = a + 1
    /\ status[j] \in {"preparing", "running"} =>
         \/ subject = j /\ lock \in {"prepared", "cached"}
         \/ pc[<<j, attempt[j]>>] \in Working

(* A queued item stands for a QUEUED record and is the only thing that     *)
(* does: no job is launched twice, or launched after it was cancelled.     *)
QueuedOnce ==
  \A j \in queue :
    /\ status[j] = "queued"
    /\ ~InHand(j)
    /\ \A a \in Attempts : pc[<<j, a>>] \notin Working \cup {"requeueing"}

(* Every job has its place, and only one.                                  *)
EveryJobHasItsPlace == NoJobIsLost /\ QueuedOnce

(* max_queued holds although three paths enqueue (submit and manual retry, *)
(* automatic retry, deferral) and only two of them look at the capacity.   *)
QueueWithinCapacity == Cardinality(queue) <= MaxQueued

(* A task that has not finished is registered under its own attempt, so    *)
(* cancel() finds the token of every attempt it can still stop.            *)
Live(t) == pc[t] \notin {"none", "done"}

WorkIsRegistered == \A t \in Tasks : Live(t) => active[t[1]] = t[2]

(* max_concurrency bounds the executor tasks that exist, not only the      *)
(* dictionary that counts them.                                            *)
ConcurrencyIsBounded == Cardinality({t \in Tasks : Live(t)}) <= MaxConcurrency

(* Both limits of the scheduler hold, for the queue and for the executors. *)
LimitsHold == QueueWithinCapacity /\ ConcurrencyIsBounded

(* Every reservation the broker counts as used is registered for release   *)
(* (or about to be): none leaks, whichever way an attempt ends.            *)
ReservationsAreRegistered ==
  granted = {t \in Tasks : reserved[t[1]] = t[2]}
            \cup (IF lock \in {"preparing", "prepared"} /\ subject \in Needs
                  THEN {<<subject, attempt[subject]>>} ELSE {})

(* An attempt that may be using resources has them reserved.               *)
WorkIsReserved ==
  \A t \in Tasks :
    pc[t] \in {"start", "running", "dispatch", "saving"} /\ t[1] \in Needs => t \in granted

(* The three dictionaries of the scheduler agree: an unfinished attempt is *)
(* registered, what it uses is reserved, and nothing else is.              *)
AttemptsAreAccountedFor == WorkIsRegistered /\ ReservationsAreRegistered /\ WorkIsReserved

(* A cancellation that was accepted (cancel() returned True) is not        *)
(* answered with a COMPLETED job ...                                       *)
CancelledNeverCompletes ==
  \A t \in cancelled : ~(attempt[t[1]] = t[2] /\ status[t[1]] = "completed")

(* ... nor with another automatic attempt of it.                           *)
CancelledIsNotRequeued ==
  \A j \in Jobs :
    status[j] \in {"preparing", "running"} /\ status'[j] = "queued"
      => <<j, attempt[j]>> \notin cancelled

CancelledNeverRequeued == [][CancelledIsNotRequeued]_vars

(* With the in-memory stores what was cancelled stays cancelled: both of   *)
(* the above, of every step (no cancellation is accepted before the first).*)
CancelledStaysCancelled == [][CancelledNeverCompletes' /\ CancelledIsNotRequeued]_vars

(* The journal tells the story of a job in order: the positions of the     *)
(* published events strictly increase, so there is one terminal event per  *)
(* attempt and no event of an attempt after a later one began.             *)
Repository == INSTANCE JobLifecycle

JournalIsMonotone ==
  \A j \in Jobs : \A i \in 1 .. Len(journal[j]) - 1 :
    LET e == journal[j][i]
        f == journal[j][i + 1]
    IN  Repository!MonotonicPosition(e.name, e.attempt)
          < Repository!MonotonicPosition(f.name, f.attempt)

(* The loop never sleeps through work: if it waits for the wake event      *)
(* while an item is queued or stop() was called, the event is set or the   *)
(* one who queued the item has not reached its wake.set() yet.             *)
NoLostWakeup ==
  loop = "idle" =>
    /\ stopping => wake
    /\ queue # {} => \/ wake
                     \/ lock = "announcing"
                     \/ \E t \in Tasks : pc[t] = "requeued"

(* The scheduler implements the repository contract: its unconditional     *)
(* writes always find the status they expect, and every one is a legal     *)
(* transition or a retry within the budget.                                *)
ImplementsRepository == Repository!Spec

(* Liveness.                                                               *)

Unfinished == {j \in Jobs : status[j] \in {"queued", "preparing", "running"}}

(* The scheduler gets to the end of what was submitted, through deferrals, *)
(* retries, a queue that fills up during a backoff, cancellations and      *)
(* reservations that leak, unless the loop was stopped.  A job asks for    *)
(* one of Slots and a launch that leaks one found another free, so leaks   *)
(* never take them all; in the code a job that needs the whole machine     *)
(* would wait for ever for a leaked reservation (run retry_leak).          *)
JobsEnd == Unfinished # {} ~> Unfinished = {} \/ loop = "stopped"

(* stop() ends run(), although run_until_idle never looks at the request.  *)
StopEndsTheLoop == stopping ~> loop = "stopped"

(* The loop does its work: no wake-up is lost, every job ends, and so does *)
(* the loop when it is told to.                                            *)
LoopDoesItsWork == []NoLostWakeup /\ JobsEnd /\ StopEndsTheLoop

=============================================================================
