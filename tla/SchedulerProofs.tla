--------------------------- MODULE SchedulerProofs ---------------------------
(***************************************************************************)
(* What holds of the scheduler for every set of jobs and every bound, with *)
(* either kind of store: no job is lost or queued twice, and every write   *)
(* honours the repository contract.                                        *)
(*                                                                         *)
(* Then what holds of its registrations (tokens, tasks, reservations)      *)
(* unless a client can retry a job by hand while the executor that failed  *)
(* it is still inside its finally block.  With the in-memory stores that   *)
(* window does not exist; with the SQLite stores it does, and Exclusion    *)
(* leaves manual retries out.  At the end, what becomes of cancelled       *)
(* attempts with in-memory stores, and the order of what is published.     *)
(***************************************************************************)
EXTENDS Scheduler, FiniteSetTheorems, TLAPS

\* The lock is held on behalf of a job.
LockHasSubject ==
  /\ lock = "free" => subject = NoJob
  /\ lock # "free" => subject \in Jobs

\* What the holder of the lock knows of its job, having read it earlier.
HolderKnowsStatus ==
  /\ lock \in {"recorded", "removing", "popped", "preparing", "rejecting"}
       => status[subject] = "queued"
  /\ lock = "prepared" => status[subject] = "preparing"
  /\ lock = "cached" => status[subject] \in {"queued", "preparing", "running"}
  /\ lock \in {"prepared", "cached"} =>
       \A a \in Attempts : pc[<<subject, a>>] \notin Working

\* An executor at work owns the current attempt of its job, whose status is
\* the one its next compare-and-set expects.
WorkerOwnsRecord ==
  \A t \in Tasks :
    /\ pc[t] \in Working => attempt[t[1]] = t[2]
    /\ pc[t] = "start" => status[t[1]] = "preparing"
    /\ pc[t] \in Working \ {"start"} => status[t[1]] = "running"
    /\ pc[t] \in {"backoff", "locking"} => t[2] + 1 < MaxAttempts

\* The steps of an executor that hold the lock.
Locked == {"refused", "requeueing", "requeued"}

ExecutorHoldsLock ==
  /\ \A t \in Tasks :
       /\ pc[t] \in Locked => lock = "executor" /\ subject = t[1]
       /\ pc[t] = "requeueing" => /\ status[t[1]] = "queued"
                                  /\ attempt[t[1]] = t[2] + 1
                                  /\ t[1] \notin queue
  /\ \A t, u \in Tasks : pc[t] \in Locked /\ pc[u] \in Locked => t = u

\* QueuedOnce without what follows from the other parts.
QueueHoldsQueued ==
  \A j \in queue : status[j] = "queued" /\ ~InHand(j)

IInv ==
  /\ TypeOK
  /\ LockHasSubject
  /\ HolderKnowsStatus
  /\ WorkerOwnsRecord
  /\ ExecutorHoldsLock
  /\ QueueHoldsQueued
  /\ NoJobIsLost

-----------------------------------------------------------------------------
(* TypeOK without the journal, whose sequences the provers handle apart. *)
ControlTypeOK ==
  /\ status \in [Jobs -> Statuses \cup {"absent"}]
  /\ attempt \in [Jobs -> Attempts]
  /\ queue \subseteq Jobs
  /\ active \in [Jobs -> Attempts \cup {Absent}]
  /\ reserved \in [Jobs -> Attempts \cup {Absent}]
  /\ granted \subseteq Tasks
  /\ cancelled \subseteq Tasks
  /\ cached \in BOOLEAN
  /\ pc \in [Tasks -> ExecutorPc]
  /\ lock \in LockPc
  /\ subject \in Jobs \cup {NoJob}
  /\ loop \in LoopPc
  /\ awaited \subseteq Tasks
  /\ wake \in BOOLEAN
  /\ stopping \in BOOLEAN
  /\ turn \in Tasks \cup {Nobody, Loop, Client}

\* The constructor of Scheduler leaves every attribute in its type.
LEMMA TypeInit == ASSUME Init PROVE TypeOK
<1>1. 0 \in Attempts
  BY SchedulerAssumption DEF Attempts
<1>2. \A j \in Jobs : <<>> \in Seq(Events)
  OBVIOUS
<1>. QED
  BY <1>1, <1>2 DEF Init, TypeOK, ExecutorPc, LockPc, LoopPc

\* No handler takes a variable other than the journal out of its type; the
\* one that could is a retry, whose budget bounds the attempt.
LEMMA ControlTypeStep == ASSUME IInv, [Next]_vars PROVE ControlTypeOK'
<1>a. /\ ControlTypeOK
      /\ LockHasSubject
      /\ \A t \in Tasks : /\ pc[t] = "locking" => attempt[t[1]] = t[2]
                          /\ pc[t] \in {"backoff", "locking"} => t[2] + 1 < MaxAttempts
  BY DEF IInv, TypeOK, ControlTypeOK, WorkerOwnsRecord, Working
<1>. USE <1>a, SchedulerAssumption
     DEF ControlTypeOK, LockHasSubject, Terminal,
         Tasks, Attempts, ExecutorPc, LockPc, LoopPc, Statuses, Absent,
         Runs, Continue, Suspend, CallStore, Acquire, Advance, Unlock, Goto,
         SetStatus, Requeue, ReleaseReservation, records, dicts, control, looping
<1>1. ASSUME NEW j \in Jobs, Submit(j)
       PROVE ControlTypeOK'
  BY <1>1 DEF Submit
<1>2. ASSUME NEW j \in Jobs, ManualRetry(j)
       PROVE ControlTypeOK'
  BY <1>2 DEF ManualRetry
<1>3. ASSUME NEW j \in Jobs, Cancel(j)
       PROVE ControlTypeOK'
  BY <1>3 DEF Cancel
<1>4. CASE Stop
  BY <1>4 DEF Stop
<1>5. CASE Enqueue
  BY <1>5 DEF Enqueue
<1>6. CASE Announce
  BY <1>6 DEF Announce
<1>7. CASE CancelQueued
  BY <1>7 DEF CancelQueued
<1>8. CASE CancelInFlight
  <2>1. subject \in Jobs
    BY <1>8 DEF CancelInFlight
  <2>2. active[subject] # Absent => <<subject, active[subject]>> \in Tasks
    BY <2>1
  <2>3. cancelled' \subseteq Tasks
    BY <1>8, <2>2 DEF CancelInFlight
  <2>. QED
    BY <1>8, <2>3 DEF CancelInFlight
<1>9. CASE LaunchNothing
  BY <1>9 DEF LaunchNothing
<1>10. CASE LaunchHit
  BY <1>10 DEF LaunchHit
<1>11. CASE LaunchAdmit
  BY <1>11 DEF LaunchAdmit
<1>12. CASE LaunchReject
  BY <1>12 DEF LaunchReject
<1>13. CASE LaunchDefer
  BY <1>13 DEF LaunchDefer
<1>14. CASE Rejected
  BY <1>14 DEF Rejected
<1>15. CASE Deferred
  BY <1>15 DEF Deferred
<1>16. CASE Prepare
  BY <1>16 DEF Prepare
<1>17. CASE Start
  BY <1>17 DEF Start
<1>18. CASE ServeFromCache
  BY <1>18 DEF ServeFromCache, FromCache
<1>19. CASE LoopTop
  BY <1>19 DEF LoopTop
<1>20. CASE LoopInner
  BY <1>20 DEF LoopInner
<1>21. CASE LoopWait
  BY <1>21 DEF LoopWait, ActiveTasks
<1>22. CASE LoopResume
  BY <1>22 DEF LoopResume
<1>23. CASE LoopPause
  BY <1>23 DEF LoopPause
<1>24. CASE LoopWake
  BY <1>24 DEF LoopWake
<1>25. ASSUME NEW j \in Jobs, LaunchPop(j)
       PROVE ControlTypeOK'
  BY <1>25 DEF LaunchPop
<1>26. ASSUME NEW t \in Tasks, ExecRun(t)
       PROVE ControlTypeOK'
  BY <1>26 DEF ExecRun
<1>27. ASSUME NEW t \in Tasks, ExecCheckpoint(t)
       PROVE ControlTypeOK'
  BY <1>27 DEF ExecCheckpoint
<1>28. ASSUME NEW t \in Tasks, DispatchReturned(t)
       PROVE ControlTypeOK'
  BY <1>28 DEF DispatchReturned
<1>29. ASSUME NEW t \in Tasks, DispatchCancelled(t)
       PROVE ControlTypeOK'
  BY <1>29 DEF DispatchCancelled
<1>30. ASSUME NEW t \in Tasks, DispatchRetryable(t)
       PROVE ControlTypeOK'
  BY <1>30 DEF DispatchRetryable
<1>31. ASSUME NEW t \in Tasks, DispatchFailed(t)
       PROVE ControlTypeOK'
  BY <1>31 DEF DispatchFailed
<1>32. ASSUME NEW t \in Tasks, ExecComplete(t)
       PROVE ControlTypeOK'
  <2>1. cached' \in BOOLEAN
    BY <1>32 DEF ExecComplete
  <2>2. /\ status' = [status EXCEPT ![t[1]] = "completed"]
        /\ pc' = [pc EXCEPT ![t] = "completed"]
        /\ turn' \in {Nobody, t}
        /\ UNCHANGED <<attempt, queue, active, reserved, granted, cancelled, journal, lock, subject,
                       loop, awaited, wake, stopping>>
    BY <1>32 DEF ExecComplete
  <2>. QED
    BY <2>1, <2>2
<1>33. ASSUME NEW t \in Tasks, ExecCancel(t)
       PROVE ControlTypeOK'
  BY <1>33 DEF ExecCancel, ExecAbort
<1>34. ASSUME NEW t \in Tasks, ExecFail(t)
       PROVE ControlTypeOK'
  BY <1>34 DEF ExecFail, ExecAbort
<1>35. ASSUME NEW t \in Tasks, BackoffOver(t)
       PROVE ControlTypeOK'
  BY <1>35 DEF BackoffOver
<1>36. ASSUME NEW t \in Tasks, RetryRefused(t)
       PROVE ControlTypeOK'
  BY <1>36 DEF RetryRefused
<1>37. ASSUME NEW t \in Tasks, RetryRecorded(t)
       PROVE ControlTypeOK'
  BY <1>37 DEF RetryRecorded
<1>38. ASSUME NEW t \in Tasks, RetryQueued(t)
       PROVE ControlTypeOK'
  BY <1>38 DEF RetryQueued
<1>39. ASSUME NEW t \in Tasks, ExecClose(t)
       PROVE ControlTypeOK'
  BY <1>39 DEF ExecClose, Finally
<1>40. ASSUME NEW t \in Tasks, ExecRefused(t)
       PROVE ControlTypeOK'
  BY <1>40 DEF ExecRefused, Finally
<1>41. ASSUME NEW t \in Tasks, ExecRequeued(t)
       PROVE ControlTypeOK'
  BY <1>41 DEF ExecRequeued, Finally
<1>42. CASE UNCHANGED vars
  BY <1>42 DEF vars
<1>. QED
  BY <1>1, <1>2, <1>3, <1>4, <1>5, <1>6, <1>7, <1>8, <1>9, <1>10, <1>11, <1>12, <1>13, <1>14, <1>15, <1>16, <1>17, <1>18, <1>19, <1>20, <1>21, <1>22, <1>23, <1>24, <1>25, <1>26, <1>27, <1>28, <1>29, <1>30, <1>31, <1>32, <1>33, <1>34, <1>35, <1>36, <1>37, <1>38, <1>39, <1>40, <1>41, <1>42
     DEF Next, ClientCall, ClientStep, LoopStep, LaunchStep, ExecutorStep

-----------------------------------------------------------------------------
\* Publishing a lifecycle event of an attempt keeps the journal typed.
LEMMA PublishTyped ==
  ASSUME journal \in [Jobs -> Seq(Events)],
         NEW j \in Jobs, NEW s \in Statuses, NEW a \in Attempts, Publish(j, s, a)
  PROVE  journal' \in [Jobs -> Seq(Events)]
<1>1. [name |-> s, attempt |-> a] \in Events
  BY DEF Events
<1>2. Append(journal[j], [name |-> s, attempt |-> a]) \in Seq(Events)
  BY <1>1
<1>. QED
  BY <1>2 DEF Publish

\* A step leaves the journal alone or publishes one event.
LEMMA JournalStep ==
  ASSUME IInv, [Next]_vars
  PROVE  \/ journal' = journal
         \/ \E j \in Jobs, s \in Statuses, a \in Attempts : Publish(j, s, a)
<1>. DEFINE Goal == \/ journal' = journal
                   \/ \E j \in Jobs, s \in Statuses, a \in Attempts : Publish(j, s, a)
<1>. USE DEF IInv, TypeOK, LockHasSubject, Advance, Unlock
<1>1. CASE ClientCall \/ LoopTop \/ LoopInner \/ LoopWait \/ LoopResume \/ LoopPause \/ LoopWake
  BY <1>1 DEF ClientCall, Submit, ManualRetry, Cancel, Stop,
              LoopTop, LoopInner, LoopWait, LoopResume, LoopPause, LoopWake
<1>2. CASE ClientStep
  <2>1. lock # "free" => subject \in Jobs /\ attempt[subject] \in Attempts
    OBVIOUS
  <2>. QED
    BY <1>2, <2>1 DEF ClientStep, Enqueue, Announce, CancelQueued, CancelInFlight, Statuses
<1>3. CASE LaunchStep
  <2>1. lock # "free" => subject \in Jobs /\ attempt[subject] \in Attempts
    OBVIOUS
  <2>2. CASE \/ \E j \in Jobs : LaunchPop(j)
             \/ LaunchNothing \/ LaunchHit \/ LaunchAdmit \/ LaunchReject \/ LaunchDefer
             \/ Deferred \/ Start
    BY <2>2 DEF LaunchPop, LaunchNothing, LaunchHit, LaunchAdmit, LaunchReject, LaunchDefer,
                Deferred, Start
  <2>3. CASE Rejected \/ Prepare \/ ServeFromCache
    BY <2>1, <2>3 DEF Rejected, Prepare, ServeFromCache, FromCache, Statuses
  <2>. QED
    BY <1>3, <2>2, <2>3 DEF LaunchStep
<1>4. ASSUME NEW t \in Tasks, ExecutorStep(t) PROVE Goal
  <2>1. t[1] \in Jobs /\ t[2] \in Attempts /\ attempt[t[1]] \in Attempts
    BY DEF Tasks
  <2>2. CASE \/ ExecCheckpoint(t) \/ DispatchReturned(t) \/ DispatchCancelled(t)
             \/ DispatchRetryable(t) \/ DispatchFailed(t) \/ ExecComplete(t) \/ ExecCancel(t)
             \/ ExecFail(t) \/ BackoffOver(t) \/ RetryRefused(t) \/ RetryRecorded(t)
             \/ ExecRequeued(t)
    BY <2>2 DEF ExecCheckpoint, DispatchReturned, DispatchCancelled, DispatchRetryable,
                DispatchFailed, ExecComplete, ExecCancel, ExecFail, ExecAbort, BackoffOver,
                RetryRefused, RetryRecorded, ExecRequeued
  <2>3. CASE ExecRun(t) \/ RetryQueued(t) \/ ExecRefused(t)
    BY <2>1, <2>3 DEF ExecRun, RetryQueued, ExecRefused, Statuses
  <2>4. CASE ExecClose(t)
    BY <2>1, <2>4 DEF ExecClose, Terminal, Statuses
  <2>. QED
    BY <1>4, <2>2, <2>3, <2>4 DEF ExecutorStep
<1>5. CASE UNCHANGED vars
  BY <1>5 DEF vars
<1>. QED
  BY <1>1, <1>2, <1>3, <1>4, <1>5 DEF Next, LoopStep

\* No step takes a variable out of its type.
LEMMA TypeStep == ASSUME IInv, [Next]_vars PROVE TypeOK'
<1>1. ControlTypeOK'
  BY ControlTypeStep
<1>2. journal' \in [Jobs -> Seq(Events)]
  BY JournalStep, PublishTyped DEF IInv, TypeOK
<1>. QED
  BY <1>1, <1>2 DEF ControlTypeOK, TypeOK

-----------------------------------------------------------------------------
Ownership ==
  /\ LockHasSubject
  /\ HolderKnowsStatus
  /\ WorkerOwnsRecord
  /\ ExecutorHoldsLock
  /\ QueueHoldsQueued
  /\ NoJobIsLost

\* Every step hands a job from one owner to the next: what the loop, an
\* executor or a client read of a record before a store call suspended is
\* still true when it acts on it.
LEMMA OwnershipStep == ASSUME IInv, [Next]_vars PROVE Ownership'
<1>a. /\ status \in [Jobs -> Statuses \cup {"absent"}]
      /\ attempt \in [Jobs -> Attempts]
      /\ pc \in [Tasks -> ExecutorPc]
      /\ queue \subseteq Jobs
      /\ Ownership
  BY DEF IInv, TypeOK, Ownership
<1>. USE <1>a, SchedulerAssumption
     DEF Ownership, LockHasSubject, HolderKnowsStatus, WorkerOwnsRecord, ExecutorHoldsLock,
         QueueHoldsQueued, NoJobIsLost, InHand, Working, Locked, Terminal, Tasks, Attempts,
         Acquire, Advance, Unlock, Goto, SetStatus, Requeue, records, control
<1>1. ASSUME NEW j \in Jobs, Submit(j)
       PROVE Ownership'
  BY <1>1 DEF Submit
<1>2. ASSUME NEW j \in Jobs, ManualRetry(j)
       PROVE Ownership'
  BY <1>2 DEF ManualRetry
<1>3. ASSUME NEW j \in Jobs, Cancel(j)
       PROVE Ownership'
  BY <1>3 DEF Cancel
<1>4. CASE Stop
  BY <1>4 DEF Stop
<1>5. CASE Enqueue
  BY <1>5 DEF Enqueue
<1>6. CASE Announce
  BY <1>6 DEF Announce
<1>7. CASE CancelQueued
  BY <1>7 DEF CancelQueued
<1>8. CASE CancelInFlight
  BY <1>8 DEF CancelInFlight
<1>9. CASE LaunchNothing
  BY <1>9 DEF LaunchNothing
<1>10. CASE LaunchHit
  BY <1>10 DEF LaunchHit
<1>11. CASE LaunchAdmit
  BY <1>11 DEF LaunchAdmit
<1>12. CASE LaunchReject
  BY <1>12 DEF LaunchReject
<1>13. CASE LaunchDefer
  BY <1>13 DEF LaunchDefer
<1>14. CASE Rejected
  BY <1>14 DEF Rejected
<1>15. CASE Deferred
  BY <1>15 DEF Deferred
<1>16. CASE Prepare
  BY <1>16 DEF Prepare
<1>17. CASE Start
  BY <1>17 DEF Start
<1>18. CASE ServeFromCache
  BY <1>18 DEF ServeFromCache, FromCache
<1>19. CASE LoopTop
  BY <1>19 DEF LoopTop
<1>20. CASE LoopInner
  BY <1>20 DEF LoopInner
<1>21. CASE LoopWait
  BY <1>21 DEF LoopWait
<1>22. CASE LoopResume
  BY <1>22 DEF LoopResume
<1>23. CASE LoopPause
  <2>1. UNCHANGED <<status, attempt, queue, pc, lock, subject>>
    BY <1>23 DEF LoopPause
  <2>. QED
    BY <2>1
<1>24. CASE LoopWake
  BY <1>24 DEF LoopWake
<1>25. ASSUME NEW j \in Jobs, LaunchPop(j)
       PROVE Ownership'
  BY <1>25 DEF LaunchPop
<1>26. ASSUME NEW t \in Tasks, ExecRun(t)
       PROVE Ownership'
  <2>1. /\ pc[t] = "start" /\ pc' = [pc EXCEPT ![t] = "running"]
        /\ status' = [status EXCEPT ![t[1]] = "running"]
        /\ UNCHANGED <<attempt, queue, lock, subject>>
    BY <1>26 DEF ExecRun
  <2>. QED
    BY <2>1
<1>27. ASSUME NEW t \in Tasks, ExecCheckpoint(t)
       PROVE Ownership'
  BY <1>27 DEF ExecCheckpoint
<1>28. ASSUME NEW t \in Tasks, DispatchReturned(t)
       PROVE Ownership'
  BY <1>28 DEF DispatchReturned
<1>29. ASSUME NEW t \in Tasks, DispatchCancelled(t)
       PROVE Ownership'
  BY <1>29 DEF DispatchCancelled
<1>30. ASSUME NEW t \in Tasks, DispatchRetryable(t)
       PROVE Ownership'
  BY <1>30 DEF DispatchRetryable
<1>31. ASSUME NEW t \in Tasks, DispatchFailed(t)
       PROVE Ownership'
  BY <1>31 DEF DispatchFailed
<1>32. ASSUME NEW t \in Tasks, ExecComplete(t)
       PROVE Ownership'
  BY <1>32 DEF ExecComplete
<1>33. ASSUME NEW t \in Tasks, ExecCancel(t)
       PROVE Ownership'
  BY <1>33 DEF ExecCancel, ExecAbort
<1>34. ASSUME NEW t \in Tasks, ExecFail(t)
       PROVE Ownership'
  BY <1>34 DEF ExecFail, ExecAbort
<1>35. ASSUME NEW t \in Tasks, BackoffOver(t)
       PROVE Ownership'
  BY <1>35 DEF BackoffOver
<1>36. ASSUME NEW t \in Tasks, RetryRefused(t)
       PROVE Ownership'
  BY <1>36 DEF RetryRefused
<1>37. ASSUME NEW t \in Tasks, RetryRecorded(t)
       PROVE Ownership'
  BY <1>37 DEF RetryRecorded
<1>38. ASSUME NEW t \in Tasks, RetryQueued(t)
       PROVE Ownership'
  BY <1>38 DEF RetryQueued
<1>39. ASSUME NEW t \in Tasks, ExecClose(t)
       PROVE Ownership'
  <2>1. /\ pc[t] \in Terminal /\ pc' = [pc EXCEPT ![t] = "done"]
        /\ UNCHANGED <<status, attempt, queue, lock, subject>>
    BY <1>39 DEF ExecClose, Finally
  <2>. QED
    BY <2>1
<1>40. ASSUME NEW t \in Tasks, ExecRefused(t)
       PROVE Ownership'
  BY <1>40 DEF ExecRefused, Finally
<1>41. ASSUME NEW t \in Tasks, ExecRequeued(t)
       PROVE Ownership'
  BY <1>41 DEF ExecRequeued, Finally
<1>42. CASE UNCHANGED vars
  <2>1. UNCHANGED <<status, attempt, queue, pc, lock, subject>>
    BY <1>42 DEF vars
  <2>. QED
    BY <2>1
<1>. HIDE <1>a DEF Ownership, LockHasSubject, HolderKnowsStatus, WorkerOwnsRecord, ExecutorHoldsLock,
         QueueHoldsQueued, NoJobIsLost, Tasks, Acquire, Advance, Unlock, Goto
<1>. QED
  BY <1>1, <1>2, <1>3, <1>4, <1>5, <1>6, <1>7, <1>8, <1>9, <1>10, <1>11, <1>12, <1>13, <1>14, <1>15, <1>16, <1>17, <1>18, <1>19, <1>20, <1>21, <1>22, <1>23, <1>24, <1>25, <1>26, <1>27, <1>28, <1>29, <1>30, <1>31, <1>32, <1>33, <1>34, <1>35, <1>36, <1>37, <1>38, <1>39, <1>40, <1>41, <1>42
     DEF Next, ClientCall, ClientStep, LoopStep, LaunchStep, ExecutorStep

\* Nothing is owned before the first submit().
LEMMA OwnershipInit == ASSUME Init PROVE Ownership
BY SchedulerAssumption
   DEF Init, Ownership, LockHasSubject, HolderKnowsStatus, WorkerOwnsRecord, ExecutorHoldsLock,
       QueueHoldsQueued, NoJobIsLost, Working, Locked

(* The strengthening is an invariant: who owns an unfinished record, and   *)
(* what that owner still knows of it across its awaits.                    *)
THEOREM Invariance == Spec => []IInv
<1>1. Init => IInv
  BY TypeInit, OwnershipInit DEF IInv, Ownership
<1>2. IInv /\ [Next]_vars => IInv'
  BY TypeStep, OwnershipStep DEF IInv, Ownership
<1>. QED
  BY <1>1, <1>2, PTL DEF Spec

(* The type invariant. *)
THEOREM TypeCorrect == Spec => []TypeOK
BY Invariance, PTL DEF IInv

(* An unfinished record is always queued, held by the holder of            *)
(* _control_lock, or worked on by the executor of its current attempt,     *)
(* with either kind of store and whatever clients cancel or retry.         *)
THEOREM NoJobIsEverLost == Spec => []NoJobIsLost
BY Invariance, PTL DEF IInv

(* An item of SchedulerQueues stands for a QUEUED record that nobody is    *)
(* executing or launching, so _launch_next never starts a job twice.       *)
THEOREM EveryItemIsQueuedOnce == Spec => []QueuedOnce
<1>1. IInv => QueuedOnce
  BY DEF IInv, QueuedOnce, QueueHoldsQueued, WorkerOwnsRecord, ExecutorHoldsLock, Working, Tasks,
         Locked, TypeOK
<1>. QED
  BY <1>1, Invariance, PTL

(* Every unfinished job has one place and nothing queued has another.      *)
THEOREM JobsHaveTheirPlace == Spec => []EveryJobHasItsPlace
BY NoJobIsEverLost, EveryItemIsQueuedOnce, PTL DEF EveryJobHasItsPlace

-----------------------------------------------------------------------------
\* The steps that leave the records alone.
LEMMA RecordsUntouched ==
  ASSUME \/ \E j \in Jobs : Cancel(j) \/ LaunchPop(j)
         \/ Stop \/ Enqueue \/ Announce \/ CancelInFlight
         \/ LaunchNothing \/ LaunchHit \/ LaunchAdmit \/ LaunchReject \/ LaunchDefer
         \/ Deferred \/ Start \/ LoopTop \/ LoopInner \/ LoopWait \/ LoopResume \/ LoopPause
         \/ LoopWake
         \/ \E t \in Tasks :
              \/ ExecCheckpoint(t) \/ DispatchReturned(t) \/ DispatchCancelled(t)
              \/ DispatchRetryable(t) \/ DispatchFailed(t) \/ BackoffOver(t) \/ RetryQueued(t)
              \/ ExecClose(t) \/ ExecRefused(t) \/ ExecRequeued(t)
         \/ UNCHANGED vars
  PROVE  UNCHANGED <<status, attempt>>
BY DEF Cancel, LaunchPop, Stop, Enqueue, Announce, CancelInFlight,
       LaunchNothing, LaunchHit, LaunchAdmit, LaunchReject, LaunchDefer,
       Deferred, Start, LoopTop, LoopInner, LoopWait, LoopResume, LoopPause, LoopWake,
       ExecCheckpoint, DispatchReturned, DispatchCancelled, DispatchRetryable, DispatchFailed,
       BackoffOver, RetryQueued, ExecClose, ExecRefused, ExecRequeued, Finally, records, vars

\* Every write of the scheduler is a create, an expected transition or a retry.
LEMMA RepositoryStep ==
  ASSUME IInv, [Next]_vars
  PROVE  [Repository!Next]_Repository!vars
<1>. DEFINE Write(j) ==
       \/ Repository!Create(j)
       \/ \E e, s \in Repository!Statuses : Repository!Transition(j, e, s)
       \/ \E e \in Repository!Statuses : Repository!Retry(j, e)
<1>0. /\ lock # "free" => subject \in Jobs
      /\ \A t \in Tasks : t[1] \in Jobs
  BY DEF IInv, LockHasSubject, Tasks
<1>. USE DEF SetStatus, Requeue, Repository!Create, Repository!Transition, Repository!Retry,
         Repository!Statuses, Repository!Transitions
<1>1. ASSUME NEW j \in Jobs, Submit(j) PROVE Write(j)
  BY <1>1 DEF Submit
<1>2. ASSUME NEW j \in Jobs, ManualRetry(j) PROVE Write(j)
  BY <1>2 DEF ManualRetry
<1>3. ASSUME CancelQueued \/ Rejected \/ Prepare PROVE Write(subject)
  BY <1>3 DEF CancelQueued, Rejected, Prepare, Unlock, Advance, IInv, HolderKnowsStatus
<1>4. ASSUME ServeFromCache PROVE Write(subject)
  BY <1>4 DEF ServeFromCache, FromCache
<1>5. ASSUME NEW t \in Tasks,
             ExecRun(t) \/ ExecComplete(t) \/ ExecCancel(t) \/ ExecFail(t) \/ RetryRefused(t)
      PROVE  Write(t[1])
  BY <1>5 DEF ExecRun, ExecComplete, ExecCancel, ExecFail, ExecAbort, RetryRefused, Goto,
              IInv, WorkerOwnsRecord, Working
<1>6. ASSUME NEW t \in Tasks, RetryRecorded(t) PROVE Write(t[1])
  BY <1>6 DEF RetryRecorded, Goto, IInv, WorkerOwnsRecord, Working
<1>7. CancelQueued \/ Rejected \/ Prepare \/ ServeFromCache => subject \in Jobs
  BY <1>0 DEF CancelQueued, Rejected, Prepare, ServeFromCache, FromCache, Unlock, Advance
<1>8. (\E j \in Jobs : Write(j)) \/ UNCHANGED <<status, attempt>>
  <2>1. CASE ClientCall
    BY <2>1, <1>1, <1>2, RecordsUntouched DEF ClientCall
  <2>2. CASE ClientStep
    BY <2>2, <1>3, <1>7, RecordsUntouched DEF ClientStep
  <2>3. CASE LoopStep
    BY <2>3, <1>3, <1>4, <1>7, RecordsUntouched DEF LoopStep, LaunchStep
  <2>4. ASSUME NEW t \in Tasks, ExecutorStep(t)
        PROVE  (\E j \in Jobs : Write(j)) \/ UNCHANGED <<status, attempt>>
    BY <2>4, <1>0, <1>5, <1>6, RecordsUntouched DEF ExecutorStep
  <2>. QED
    BY <2>1, <2>2, <2>3, <2>4, RecordsUntouched DEF Next
<1>. QED
  BY <1>8 DEF Repository!Next, Repository!vars

(* The scheduler implements the repository contract of JobLifecycle.tla.   *)
THEOREM SchedulerImplementsRepository == Spec => ImplementsRepository
<1>1. Init => Repository!Init
  BY DEF Init, Repository!Init
<1>. QED
  BY <1>1, RepositoryStep, Invariance, PTL DEF Spec, ImplementsRepository, Repository!Spec

-----------------------------------------------------------------------------
(* Registrations. *)

Exclusion == Suspends => Retriable = {}

\* The executor of t has written a terminal status and not finished.
Closing(t) == pc[t] \in Terminal

\* What t wrote last is still what the record says: with in-memory stores
\* because the executor keeps the event loop, otherwise because only a manual
\* retry could have changed it.
ClosingIsCurrent ==
  \A t \in Tasks :
    /\ Closing(t) => status[t[1]] = pc[t] /\ attempt[t[1]] = t[2]
    /\ Closing(t) /\ ~Suspends => turn = t

\* Tasks and registrations correspond one to one.
ActiveIsLive == \A j \in Jobs : active[j] # Absent => Live(<<j, active[j]>>)

\* A registered reservation belongs to the registered attempt.
ReservedIsActive == \A j \in Jobs : reserved[j] # Absent => reserved[j] = active[j]

WorkHasReservation ==
  \A t \in Tasks :
    pc[t] \in {"start", "running", "dispatch", "saving"} /\ t[1] \in Needs
      => reserved[t[1]] = t[2]

RInv ==
  /\ ClosingIsCurrent
  /\ WorkIsRegistered
  /\ ActiveIsLive
  /\ ReservedIsActive
  /\ ReservationsAreRegistered
  /\ WorkHasReservation

\* A launch in progress has made sure of its place.
Launching == lock \in {"popped", "preparing", "prepared"}

ActiveJobs == {j \in Jobs : active[j] # Absent}

PlaceIsFree ==
  /\ Cardinality(ActiveJobs) <= MaxConcurrency
  /\ Launching => Cardinality(ActiveJobs) < MaxConcurrency

-----------------------------------------------------------------------------
\* No executor task is left for the job of a launch in progress.
LEMMA SubjectIsIdle ==
  ASSUME IInv, ClosingIsCurrent, lock \in {"popped", "preparing", "prepared"},
         NEW t \in Tasks, t[1] = subject
  PROVE  ~Live(t)
<1>0. t = <<subject, t[2]>> /\ t[2] \in Attempts
  BY DEF Tasks
<1>1. pc[t] \notin Working
  <2>1. CASE lock = "prepared"
    BY <2>1, <1>0 DEF IInv, HolderKnowsStatus
  <2>2. CASE lock # "prepared"
    BY <2>2 DEF IInv, HolderKnowsStatus, WorkerOwnsRecord, Working
  <2>. QED
    BY <2>1, <2>2
<1>2. pc[t] \notin Locked
  BY DEF IInv, ExecutorHoldsLock
<1>3. ~Closing(t)
  BY DEF IInv, HolderKnowsStatus, ClosingIsCurrent, Closing, Terminal
<1>. QED
  BY <1>1, <1>2, <1>3 DEF IInv, TypeOK, ExecutorPc, Live, Working, Locked, Closing, Terminal

\* An executor task is none of the other actors.
LEMMA ActorsDiffer == \A t \in Tasks : t # Nobody /\ t # Loop /\ t # Client
BY DEF Tasks, Nobody, Loop, Client

\* Nobody but a manual retry writes to a record whose executor still has
\* its terminal event and its finally block ahead.
LEMMA ClosingStep ==
  ASSUME Exclusion, IInv, ClosingIsCurrent, [Next]_vars
  PROVE  ClosingIsCurrent'
<1>a. /\ status \in [Jobs -> Statuses \cup {"absent"}]
      /\ attempt \in [Jobs -> Attempts]
      /\ pc \in [Tasks -> ExecutorPc]
      /\ LockHasSubject /\ HolderKnowsStatus /\ WorkerOwnsRecord /\ ExecutorHoldsLock
      /\ \A j \in queue : status[j] = "queued"
  BY DEF IInv, TypeOK, QueueHoldsQueued
<1>. USE <1>a, ActorsDiffer, SchedulerAssumption
     DEF Exclusion, ClosingIsCurrent, Closing, LockHasSubject, HolderKnowsStatus, WorkerOwnsRecord,
         ExecutorHoldsLock, Locked, Working, Terminal, Statuses, Tasks, Attempts,
         Runs, Continue, Suspend, CallStore, Acquire, Advance, Unlock, Goto, SetStatus, Requeue,
         records, dicts, control
<1>1. ASSUME NEW j \in Jobs, Submit(j)
       PROVE ClosingIsCurrent'
  BY <1>1 DEF Submit
<1>2. ASSUME NEW j \in Jobs, ManualRetry(j)
       PROVE ClosingIsCurrent'
  BY <1>2 DEF ManualRetry
<1>3. ASSUME NEW j \in Jobs, Cancel(j)
       PROVE ClosingIsCurrent'
  BY <1>3 DEF Cancel
<1>4. CASE Stop
  BY <1>4 DEF Stop
<1>5. CASE Enqueue
  BY <1>5 DEF Enqueue
<1>6. CASE Announce
  BY <1>6 DEF Announce
<1>7. CASE CancelQueued
  BY <1>7 DEF CancelQueued
<1>8. CASE CancelInFlight
  BY <1>8 DEF CancelInFlight
<1>9. CASE LaunchNothing
  BY <1>9 DEF LaunchNothing
<1>10. CASE LaunchHit
  BY <1>10 DEF LaunchHit
<1>11. CASE LaunchAdmit
  BY <1>11 DEF LaunchAdmit
<1>12. CASE LaunchReject
  BY <1>12 DEF LaunchReject
<1>13. CASE LaunchDefer
  BY <1>13 DEF LaunchDefer
<1>14. CASE Rejected
  BY <1>14 DEF Rejected
<1>15. CASE Deferred
  BY <1>15 DEF Deferred
<1>16. CASE Prepare
  BY <1>16 DEF Prepare
<1>17. CASE Start
  BY <1>17 DEF Start
<1>18. CASE ServeFromCache
  BY <1>18 DEF ServeFromCache, FromCache
<1>19. CASE LoopTop
  BY <1>19 DEF LoopTop
<1>20. CASE LoopInner
  BY <1>20 DEF LoopInner
<1>21. CASE LoopWait
  BY <1>21 DEF LoopWait
<1>22. CASE LoopResume
  BY <1>22 DEF LoopResume
<1>23. CASE LoopPause
  <2>1. UNCHANGED <<records, queue, dicts, cancelled, pc, control>>  /\ turn' = Nobody /\ turn \in {Loop, Nobody}
    BY <1>23 DEF LoopPause
  <2>. QED
    BY <2>1
<1>24. CASE LoopWake
  BY <1>24 DEF LoopWake
<1>25. ASSUME NEW j \in Jobs, LaunchPop(j)
       PROVE ClosingIsCurrent'
  BY <1>25 DEF LaunchPop
<1>26. ASSUME NEW t \in Tasks, ExecRun(t)
       PROVE ClosingIsCurrent'
  BY <1>26 DEF ExecRun
<1>27. ASSUME NEW t \in Tasks, ExecCheckpoint(t)
       PROVE ClosingIsCurrent'
  BY <1>27 DEF ExecCheckpoint
<1>28. ASSUME NEW t \in Tasks, DispatchReturned(t)
       PROVE ClosingIsCurrent'
  BY <1>28 DEF DispatchReturned
<1>29. ASSUME NEW t \in Tasks, DispatchCancelled(t)
       PROVE ClosingIsCurrent'
  BY <1>29 DEF DispatchCancelled
<1>30. ASSUME NEW t \in Tasks, DispatchRetryable(t)
       PROVE ClosingIsCurrent'
  BY <1>30 DEF DispatchRetryable
<1>31. ASSUME NEW t \in Tasks, DispatchFailed(t)
       PROVE ClosingIsCurrent'
  BY <1>31 DEF DispatchFailed
<1>32. ASSUME NEW t \in Tasks, ExecComplete(t)
       PROVE ClosingIsCurrent'
  BY <1>32 DEF ExecComplete
<1>33. ASSUME NEW t \in Tasks, ExecCancel(t)
       PROVE ClosingIsCurrent'
  BY <1>33 DEF ExecCancel, ExecAbort
<1>34. ASSUME NEW t \in Tasks, ExecFail(t)
       PROVE ClosingIsCurrent'
  BY <1>34 DEF ExecFail, ExecAbort
<1>35. ASSUME NEW t \in Tasks, BackoffOver(t)
       PROVE ClosingIsCurrent'
  BY <1>35 DEF BackoffOver
<1>36. ASSUME NEW t \in Tasks, RetryRefused(t)
       PROVE ClosingIsCurrent'
  BY <1>36 DEF RetryRefused
<1>37. ASSUME NEW t \in Tasks, RetryRecorded(t)
       PROVE ClosingIsCurrent'
  BY <1>37 DEF RetryRecorded
<1>38. ASSUME NEW t \in Tasks, RetryQueued(t)
       PROVE ClosingIsCurrent'
  BY <1>38 DEF RetryQueued
<1>39. ASSUME NEW t \in Tasks, ExecClose(t)
       PROVE ClosingIsCurrent'
  BY <1>39 DEF ExecClose, Finally
<1>40. ASSUME NEW t \in Tasks, ExecRefused(t)
       PROVE ClosingIsCurrent'
  BY <1>40 DEF ExecRefused, Finally
<1>41. ASSUME NEW t \in Tasks, ExecRequeued(t)
       PROVE ClosingIsCurrent'
  BY <1>41 DEF ExecRequeued, Finally
<1>42. CASE UNCHANGED vars
  BY <1>42 DEF vars
<1>. QED
  BY <1>1, <1>2, <1>3, <1>4, <1>5, <1>6, <1>7, <1>8, <1>9, <1>10, <1>11, <1>12, <1>13, <1>14, <1>15, <1>16, <1>17, <1>18, <1>19, <1>20, <1>21, <1>22, <1>23, <1>24, <1>25, <1>26, <1>27, <1>28, <1>29, <1>30, <1>31, <1>32, <1>33, <1>34, <1>35, <1>36, <1>37, <1>38, <1>39, <1>40, <1>41, <1>42
     DEF Next, ClientCall, ClientStep, LoopStep, LaunchStep, ExecutorStep

\* Start registers the task it creates; only the finally block of the same
\* attempt removes it.
LEMMA RegistrationStep ==
  ASSUME IInv, RInv, [Next]_vars
  PROVE  WorkIsRegistered' /\ ActiveIsLive'
<1>a. /\ attempt \in [Jobs -> Attempts]
      /\ pc \in [Tasks -> ExecutorPc]
      /\ active \in [Jobs -> Attempts \cup {Absent}]
      /\ LockHasSubject
      /\ WorkIsRegistered /\ ActiveIsLive
      /\ lock = "prepared" => \A t \in Tasks : t[1] = subject => ~Live(t)
  BY SubjectIsIdle DEF IInv, TypeOK, RInv
<1>. USE <1>a, SchedulerAssumption
     DEF WorkIsRegistered, ActiveIsLive, Live, LockHasSubject, Terminal, Tasks, Attempts, Absent,
         Acquire, Advance, Unlock, Goto, records, dicts, control
<1>1. ASSUME NEW j \in Jobs, Submit(j)
       PROVE (WorkIsRegistered /\ ActiveIsLive)'
  BY <1>1 DEF Submit
<1>2. ASSUME NEW j \in Jobs, ManualRetry(j)
       PROVE (WorkIsRegistered /\ ActiveIsLive)'
  BY <1>2 DEF ManualRetry
<1>3. ASSUME NEW j \in Jobs, Cancel(j)
       PROVE (WorkIsRegistered /\ ActiveIsLive)'
  BY <1>3 DEF Cancel
<1>4. CASE Stop
  BY <1>4 DEF Stop
<1>5. CASE Enqueue
  BY <1>5 DEF Enqueue
<1>6. CASE Announce
  BY <1>6 DEF Announce
<1>7. CASE CancelQueued
  BY <1>7 DEF CancelQueued
<1>8. CASE CancelInFlight
  BY <1>8 DEF CancelInFlight
<1>9. CASE LaunchNothing
  BY <1>9 DEF LaunchNothing
<1>10. CASE LaunchHit
  BY <1>10 DEF LaunchHit
<1>11. CASE LaunchAdmit
  BY <1>11 DEF LaunchAdmit
<1>12. CASE LaunchReject
  BY <1>12 DEF LaunchReject
<1>13. CASE LaunchDefer
  BY <1>13 DEF LaunchDefer
<1>14. CASE Rejected
  BY <1>14 DEF Rejected
<1>15. CASE Deferred
  BY <1>15 DEF Deferred
<1>16. CASE Prepare
  BY <1>16 DEF Prepare
<1>17. CASE Start
  BY <1>17 DEF Start
<1>18. CASE ServeFromCache
  BY <1>18 DEF ServeFromCache, FromCache
<1>19. CASE LoopTop
  BY <1>19 DEF LoopTop
<1>20. CASE LoopInner
  BY <1>20 DEF LoopInner
<1>21. CASE LoopWait
  BY <1>21 DEF LoopWait
<1>22. CASE LoopResume
  BY <1>22 DEF LoopResume
<1>23. CASE LoopPause
  <2>1. UNCHANGED <<records, queue, dicts, cancelled, pc, control>> 
    BY <1>23 DEF LoopPause
  <2>. QED
    BY <2>1
<1>24. CASE LoopWake
  BY <1>24 DEF LoopWake
<1>25. ASSUME NEW j \in Jobs, LaunchPop(j)
       PROVE (WorkIsRegistered /\ ActiveIsLive)'
  BY <1>25 DEF LaunchPop
<1>26. ASSUME NEW t \in Tasks, ExecRun(t)
       PROVE (WorkIsRegistered /\ ActiveIsLive)'
  BY <1>26 DEF ExecRun
<1>27. ASSUME NEW t \in Tasks, ExecCheckpoint(t)
       PROVE (WorkIsRegistered /\ ActiveIsLive)'
  BY <1>27 DEF ExecCheckpoint
<1>28. ASSUME NEW t \in Tasks, DispatchReturned(t)
       PROVE (WorkIsRegistered /\ ActiveIsLive)'
  BY <1>28 DEF DispatchReturned
<1>29. ASSUME NEW t \in Tasks, DispatchCancelled(t)
       PROVE (WorkIsRegistered /\ ActiveIsLive)'
  BY <1>29 DEF DispatchCancelled
<1>30. ASSUME NEW t \in Tasks, DispatchRetryable(t)
       PROVE (WorkIsRegistered /\ ActiveIsLive)'
  BY <1>30 DEF DispatchRetryable
<1>31. ASSUME NEW t \in Tasks, DispatchFailed(t)
       PROVE (WorkIsRegistered /\ ActiveIsLive)'
  BY <1>31 DEF DispatchFailed
<1>32. ASSUME NEW t \in Tasks, ExecComplete(t)
       PROVE (WorkIsRegistered /\ ActiveIsLive)'
  BY <1>32 DEF ExecComplete
<1>33. ASSUME NEW t \in Tasks, ExecCancel(t)
       PROVE (WorkIsRegistered /\ ActiveIsLive)'
  BY <1>33 DEF ExecCancel, ExecAbort
<1>34. ASSUME NEW t \in Tasks, ExecFail(t)
       PROVE (WorkIsRegistered /\ ActiveIsLive)'
  BY <1>34 DEF ExecFail, ExecAbort
<1>35. ASSUME NEW t \in Tasks, BackoffOver(t)
       PROVE (WorkIsRegistered /\ ActiveIsLive)'
  BY <1>35 DEF BackoffOver
<1>36. ASSUME NEW t \in Tasks, RetryRefused(t)
       PROVE (WorkIsRegistered /\ ActiveIsLive)'
  BY <1>36 DEF RetryRefused
<1>37. ASSUME NEW t \in Tasks, RetryRecorded(t)
       PROVE (WorkIsRegistered /\ ActiveIsLive)'
  BY <1>37 DEF RetryRecorded
<1>38. ASSUME NEW t \in Tasks, RetryQueued(t)
       PROVE (WorkIsRegistered /\ ActiveIsLive)'
  BY <1>38 DEF RetryQueued
<1>39. ASSUME NEW t \in Tasks, ExecClose(t)
       PROVE (WorkIsRegistered /\ ActiveIsLive)'
  BY <1>39 DEF ExecClose, Finally
<1>40. ASSUME NEW t \in Tasks, ExecRefused(t)
       PROVE (WorkIsRegistered /\ ActiveIsLive)'
  BY <1>40 DEF ExecRefused, Finally
<1>41. ASSUME NEW t \in Tasks, ExecRequeued(t)
       PROVE (WorkIsRegistered /\ ActiveIsLive)'
  BY <1>41 DEF ExecRequeued, Finally
<1>42. CASE UNCHANGED vars
  BY <1>42 DEF vars
<1>. QED
  BY <1>1, <1>2, <1>3, <1>4, <1>5, <1>6, <1>7, <1>8, <1>9, <1>10, <1>11, <1>12, <1>13, <1>14, <1>15, <1>16, <1>17, <1>18, <1>19, <1>20, <1>21, <1>22, <1>23, <1>24, <1>25, <1>26, <1>27, <1>28, <1>29, <1>30, <1>31, <1>32, <1>33, <1>34, <1>35, <1>36, <1>37, <1>38, <1>39, <1>40, <1>41, <1>42
     DEF Next, ClientCall, ClientStep, LoopStep, LaunchStep, ExecutorStep

\* ReservationsAreRegistered, one attempt at a time.
GrantedExactly ==
  \A t \in Tasks :
    t \in granted <=>
      \/ reserved[t[1]] = t[2]
      \/ lock \in {"preparing", "prepared"} /\ subject \in Needs /\ t = <<subject, attempt[subject]>>

\* The equation between sets, attempt by attempt.
LEMMA GrantedPointwise ==
  ASSUME TypeOK, LockHasSubject
  PROVE  ReservationsAreRegistered <=> GrantedExactly
<1>1. lock # "free" => <<subject, attempt[subject]>> \in Tasks
  BY DEF TypeOK, LockHasSubject, Tasks
<1>. QED
  BY <1>1 DEF ReservationsAreRegistered, GrantedExactly, TypeOK

Reservations == ReservedIsActive /\ GrantedExactly /\ WorkHasReservation

\* A reservation is granted, registered and released by steps of one attempt.
LEMMA ReservationStep ==
  ASSUME IInv, RInv, [Next]_vars
  PROVE  Reservations'
<1>a. /\ attempt \in [Jobs -> Attempts]
      /\ pc \in [Tasks -> ExecutorPc]
      /\ active \in [Jobs -> Attempts \cup {Absent}]
      /\ reserved \in [Jobs -> Attempts \cup {Absent}]
      /\ granted \subseteq Tasks
      /\ LockHasSubject /\ WorkIsRegistered /\ ActiveIsLive /\ Reservations
      /\ lock \in {"popped", "preparing", "prepared"} =>
           \A t \in Tasks : t[1] = subject => ~Live(t)
  BY SubjectIsIdle, GrantedPointwise DEF IInv, TypeOK, RInv, Reservations
<1>b. lock \in {"popped", "preparing", "prepared"} =>
        /\ <<subject, attempt[subject]>> \in Tasks
        /\ active[subject] = Absent
        /\ reserved[subject] = Absent
  BY <1>a DEF LockHasSubject, ActiveIsLive, Tasks, Reservations, ReservedIsActive
<1>. USE <1>a, <1>b, SchedulerAssumption
     DEF Reservations, ReservedIsActive, GrantedExactly, WorkHasReservation, WorkIsRegistered, Live,
         LockHasSubject, Terminal, Tasks, Attempts, Absent, ReleaseReservation,
         Acquire, Advance, Unlock, Goto, SetStatus, Requeue, records, dicts, control
<1>1. ASSUME NEW j \in Jobs, Submit(j)
       PROVE Reservations'
  BY <1>1 DEF Submit
<1>2. ASSUME NEW j \in Jobs, ManualRetry(j)
       PROVE Reservations'
  BY <1>2 DEF ManualRetry
<1>3. ASSUME NEW j \in Jobs, Cancel(j)
       PROVE Reservations'
  BY <1>3 DEF Cancel
<1>4. CASE Stop
  BY <1>4 DEF Stop
<1>5. CASE Enqueue
  BY <1>5 DEF Enqueue
<1>6. CASE Announce
  BY <1>6 DEF Announce
<1>7. CASE CancelQueued
  BY <1>7 DEF CancelQueued
<1>8. CASE CancelInFlight
  BY <1>8 DEF CancelInFlight
<1>9. CASE LaunchNothing
  BY <1>9 DEF LaunchNothing
<1>10. CASE LaunchHit
  BY <1>10 DEF LaunchHit
<1>11. CASE LaunchAdmit
  BY <1>11 DEF LaunchAdmit
<1>12. CASE LaunchReject
  BY <1>12 DEF LaunchReject
<1>13. CASE LaunchDefer
  BY <1>13 DEF LaunchDefer
<1>14. CASE Rejected
  BY <1>14 DEF Rejected
<1>15. CASE Deferred
  BY <1>15 DEF Deferred
<1>16. CASE Prepare
  BY <1>16 DEF Prepare
<1>17. CASE Start
  BY <1>17 DEF Start
<1>18. CASE ServeFromCache
  BY <1>18 DEF ServeFromCache, FromCache
<1>19. CASE LoopTop
  BY <1>19 DEF LoopTop
<1>20. CASE LoopInner
  BY <1>20 DEF LoopInner
<1>21. CASE LoopWait
  BY <1>21 DEF LoopWait
<1>22. CASE LoopResume
  BY <1>22 DEF LoopResume
<1>23. CASE LoopPause
  <2>1. UNCHANGED <<records, queue, dicts, cancelled, pc, control>> 
    BY <1>23 DEF LoopPause
  <2>. QED
    BY <2>1
<1>24. CASE LoopWake
  BY <1>24 DEF LoopWake
<1>25. ASSUME NEW j \in Jobs, LaunchPop(j)
       PROVE Reservations'
  BY <1>25 DEF LaunchPop
<1>26. ASSUME NEW t \in Tasks, ExecRun(t)
       PROVE Reservations'
  BY <1>26 DEF ExecRun
<1>27. ASSUME NEW t \in Tasks, ExecCheckpoint(t)
       PROVE Reservations'
  BY <1>27 DEF ExecCheckpoint
<1>28. ASSUME NEW t \in Tasks, DispatchReturned(t)
       PROVE Reservations'
  BY <1>28 DEF DispatchReturned
<1>29. ASSUME NEW t \in Tasks, DispatchCancelled(t)
       PROVE Reservations'
  BY <1>29 DEF DispatchCancelled
<1>30. ASSUME NEW t \in Tasks, DispatchRetryable(t)
       PROVE Reservations'
  BY <1>30 DEF DispatchRetryable
<1>31. ASSUME NEW t \in Tasks, DispatchFailed(t)
       PROVE Reservations'
  BY <1>31 DEF DispatchFailed
<1>32. ASSUME NEW t \in Tasks, ExecComplete(t)
       PROVE Reservations'
  BY <1>32 DEF ExecComplete
<1>33. ASSUME NEW t \in Tasks, ExecCancel(t)
       PROVE Reservations'
  BY <1>33 DEF ExecCancel, ExecAbort
<1>34. ASSUME NEW t \in Tasks, ExecFail(t)
       PROVE Reservations'
  BY <1>34 DEF ExecFail, ExecAbort
<1>35. ASSUME NEW t \in Tasks, BackoffOver(t)
       PROVE Reservations'
  BY <1>35 DEF BackoffOver
<1>36. ASSUME NEW t \in Tasks, RetryRefused(t)
       PROVE Reservations'
  BY <1>36 DEF RetryRefused
<1>37. ASSUME NEW t \in Tasks, RetryRecorded(t)
       PROVE Reservations'
  BY <1>37 DEF RetryRecorded
<1>38. ASSUME NEW t \in Tasks, RetryQueued(t)
       PROVE Reservations'
  BY <1>38 DEF RetryQueued
<1>39. ASSUME NEW t \in Tasks, ExecClose(t)
       PROVE Reservations'
  BY <1>39 DEF ExecClose, Finally
<1>40. ASSUME NEW t \in Tasks, ExecRefused(t)
       PROVE Reservations'
  BY <1>40 DEF ExecRefused, Finally
<1>41. ASSUME NEW t \in Tasks, ExecRequeued(t)
       PROVE Reservations'
  BY <1>41 DEF ExecRequeued, Finally
<1>42. CASE UNCHANGED vars
  BY <1>42 DEF vars
<1>. QED
  BY <1>1, <1>2, <1>3, <1>4, <1>5, <1>6, <1>7, <1>8, <1>9, <1>10, <1>11, <1>12, <1>13, <1>14, <1>15, <1>16, <1>17, <1>18, <1>19, <1>20, <1>21, <1>22, <1>23, <1>24, <1>25, <1>26, <1>27, <1>28, <1>29, <1>30, <1>31, <1>32, <1>33, <1>34, <1>35, <1>36, <1>37, <1>38, <1>39, <1>40, <1>41, <1>42
     DEF Next, ClientCall, ClientStep, LoopStep, LaunchStep, ExecutorStep

\* Nothing is registered before the first launch.
LEMMA RInvInit == ASSUME Init PROVE RInv
BY SchedulerAssumption
   DEF Init, RInv, ClosingIsCurrent, Closing, Terminal, WorkIsRegistered, ActiveIsLive, Live,
       ReservedIsActive, ReservationsAreRegistered, WorkHasReservation, Tasks, Attempts, Absent

\* The registrations survive every step.
LEMMA RInvStep == ASSUME Exclusion, IInv, IInv', RInv, [Next]_vars PROVE RInv'
<1>1. ClosingIsCurrent'
  BY ClosingStep DEF RInv
<1>2. WorkIsRegistered' /\ ActiveIsLive'
  BY RegistrationStep
<1>3. Reservations'
  BY ReservationStep
<1>4. TypeOK' /\ LockHasSubject'
  BY DEF IInv
<1>5. (lock # "free" => <<subject, attempt[subject]>> \in Tasks)'
  BY <1>4 DEF TypeOK, LockHasSubject, Tasks
<1>6. (ReservationsAreRegistered <=> GrantedExactly)'
  BY <1>4, <1>5 DEF ReservationsAreRegistered, GrantedExactly, TypeOK
<1>. QED
  BY <1>1, <1>2, <1>3, <1>6 DEF RInv, Reservations

(* Tokens, tasks and reservations belong to the attempt that is running,   *)
(* as long as no manual retry meets the finally block of the attempt it    *)
(* replaces.                                                               *)
THEOREM RegistrationInvariance == ASSUME Exclusion PROVE Spec => []RInv
<1>1. Init => RInv
  BY RInvInit
<1>2. IInv /\ IInv' /\ RInv /\ [Next]_vars => RInv'
  BY RInvStep
<1>. QED
  BY <1>1, <1>2, Invariance, PTL DEF Spec

(* An unfinished executor is registered: cancel() finds its token.         *)
THEOREM ExecutorsAreRegistered == ASSUME Exclusion PROVE Spec => []WorkIsRegistered
BY RegistrationInvariance, PTL DEF RInv

(* No reservation leaks, whichever way an attempt ends.                    *)
THEOREM NoReservationLeaks == ASSUME Exclusion PROVE Spec => []ReservationsAreRegistered
BY RegistrationInvariance, PTL DEF RInv

(* An attempt at work has its resources reserved.                          *)
THEOREM ExecutorsAreReserved == ASSUME Exclusion PROVE Spec => []WorkIsReserved
<1>1. IInv /\ RInv => WorkIsReserved
  BY GrantedPointwise DEF IInv, RInv, WorkIsReserved, WorkHasReservation, GrantedExactly
<1>. QED
  BY <1>1, Invariance, RegistrationInvariance, PTL

(* What is unfinished is registered and reserved, and nothing else is.     *)
THEOREM AttemptsAccountedFor == ASSUME Exclusion PROVE Spec => []AttemptsAreAccountedFor
BY ExecutorsAreRegistered, NoReservationLeaks, ExecutorsAreReserved, PTL DEF AttemptsAreAccountedFor

-----------------------------------------------------------------------------
(* The bound on concurrency.                                               *)

\* _active has finitely many entries.
LEMMA ActiveJobsFinite == IsFiniteSet(ActiveJobs)
BY SchedulerAssumption, FS_Subset DEF ActiveJobs

\* Nothing is active at first.
LEMMA PlaceInit == ASSUME Init PROVE PlaceIsFree
<1>1. ActiveJobs = {}
  BY DEF Init, ActiveJobs
<1>. QED
  BY <1>1, FS_EmptySet, SchedulerAssumption DEF Init, PlaceIsFree, Launching

\* Only Start registers an executor, and only when the launch began with room.
LEMMA PlaceStep ==
  ASSUME IInv, IInv', PlaceIsFree, [Next]_vars
  PROVE  PlaceIsFree'
<1>0. /\ IsFiniteSet(ActiveJobs) /\ IsFiniteSet(ActiveJobs')
      /\ Cardinality(ActiveJobs) \in Nat /\ Cardinality(ActiveJobs') \in Nat
      /\ MaxConcurrency \in Nat
  <2>1. ActiveJobs \subseteq Jobs /\ ActiveJobs' \subseteq Jobs
    BY DEF ActiveJobs
  <2>. QED
    BY <2>1, SchedulerAssumption, FS_Subset, FS_CardinalityType
<1>1. CASE Start
  <2>1. ActiveJobs' \subseteq ActiveJobs \cup {subject}
    BY <1>1 DEF Start, Unlock, ActiveJobs, IInv, TypeOK, LockHasSubject
  <2>2. /\ IsFiniteSet(ActiveJobs \cup {subject})
        /\ Cardinality(ActiveJobs \cup {subject}) \in {Cardinality(ActiveJobs), Cardinality(ActiveJobs) + 1}
    BY <1>0, FS_AddElement, Zenon
  <2>3. Cardinality(ActiveJobs') <= Cardinality(ActiveJobs) + 1
    <3>1. /\ Cardinality(ActiveJobs') <= Cardinality(ActiveJobs \cup {subject})
          /\ Cardinality(ActiveJobs \cup {subject}) \in Nat
      BY <2>1, <2>2, FS_Subset, FS_CardinalityType
    <3>. QED
      BY <1>0, <2>2, <3>1
  <2>4. Cardinality(ActiveJobs) < MaxConcurrency /\ ~Launching'
    BY <1>1 DEF Start, Unlock, PlaceIsFree, Launching
  <2>. QED
    BY <1>0, <2>3, <2>4 DEF PlaceIsFree
<1>2. ASSUME ActiveJobs' \subseteq ActiveJobs,
             Launching' => Launching \/ Cardinality(ActiveJobs) < MaxConcurrency
      PROVE  PlaceIsFree'
  <2>1. Cardinality(ActiveJobs') <= Cardinality(ActiveJobs)
    BY <1>0, <1>2, FS_Subset
  <2>. QED
    BY <1>0, <1>2, <2>1 DEF PlaceIsFree
<1>3. ASSUME NEW t \in Tasks, ExecutorStep(t)
      PROVE  ActiveJobs' \subseteq ActiveJobs /\ (Launching' => Launching)
  <2>1. \/ UNCHANGED active
        \/ active' = [active EXCEPT ![t[1]] = Absent]
    BY <1>3 DEF ExecutorStep, ExecRun, ExecCheckpoint, DispatchReturned, DispatchCancelled,
         DispatchRetryable, DispatchFailed, ExecComplete, ExecCancel, ExecFail, ExecAbort,
         BackoffOver, RetryRefused, RetryRecorded, RetryQueued, ExecClose, ExecRefused,
         ExecRequeued, Finally, dicts
  <2>2. lock' \in {lock, "free", "executor"}
    BY <1>3 DEF ExecutorStep, ExecRun, ExecCheckpoint, DispatchReturned, DispatchCancelled,
         DispatchRetryable, DispatchFailed, ExecComplete, ExecCancel, ExecFail, ExecAbort,
         BackoffOver, RetryRefused, RetryRecorded, RetryQueued, ExecClose, ExecRefused,
         ExecRequeued, Finally, Acquire, Unlock, control
  <2>. QED
    BY <2>1, <2>2 DEF ActiveJobs, Launching, IInv, TypeOK
<1>4. ASSUME ClientCall \/ ClientStep
      PROVE  UNCHANGED active /\ (Launching' => Launching)
    BY <1>4 DEF ClientCall, ClientStep, Submit, ManualRetry, Cancel, Stop, Enqueue, Announce,
         CancelQueued, CancelInFlight, dicts, Acquire, Unlock, Advance, Launching, control
<1>5. ASSUME LoopStep, ~Start
      PROVE  /\ ActiveJobs' \subseteq ActiveJobs
             /\ Launching' => Launching \/ Cardinality(ActiveJobs) < MaxConcurrency
  <2>1. UNCHANGED active
    BY <1>5 DEF LoopStep, LaunchStep, LoopTop, LoopInner, LoopWait, LoopResume, LoopPause,
         LoopWake, LaunchPop, LaunchNothing, LaunchHit, LaunchAdmit, LaunchReject, LaunchDefer,
         Rejected, Deferred, Prepare, ServeFromCache, FromCache, dicts
  <2>2. Launching' => Launching \/ \E j \in Jobs : LaunchPop(j)
    BY <1>5 DEF LoopStep, LaunchStep, LoopTop, LoopInner, LoopWait, LoopResume, LoopPause,
         LoopWake, LaunchNothing, LaunchHit, LaunchAdmit, LaunchReject, LaunchDefer,
         Rejected, Deferred, Prepare, ServeFromCache, FromCache, Advance, Unlock, control, Launching
  <2>3. (\E j \in Jobs : LaunchPop(j)) => Cardinality(ActiveJobs) < MaxConcurrency
    BY DEF LaunchPop, HasRoom, ActiveJobs
  <2>. QED
    BY <2>1, <2>2, <2>3 DEF ActiveJobs
<1>6. CASE UNCHANGED vars
  <2>1. ActiveJobs' = ActiveJobs /\ Launching' = Launching
    BY <1>6 DEF vars, ActiveJobs, Launching
  <2>. QED
    BY <2>1 DEF PlaceIsFree
<1>. QED
  BY <1>1, <1>2, <1>3, <1>4, <1>5, <1>6 DEF Next, ActiveJobs

(* max_concurrency bounds the executor tasks that exist.                   *)
THEOREM ConcurrencyBound == ASSUME Exclusion PROVE Spec => []ConcurrencyIsBounded
<1>1. Init => PlaceIsFree
  BY PlaceInit
<1>2. IInv /\ IInv' /\ PlaceIsFree /\ [Next]_vars => PlaceIsFree'
  BY PlaceStep
<1>3. IInv /\ RInv /\ PlaceIsFree => ConcurrencyIsBounded
  <2>. SUFFICES ASSUME IInv, RInv, PlaceIsFree PROVE ConcurrencyIsBounded
    OBVIOUS
  <2>. DEFINE L == {t \in Tasks : Live(t)}
              f == [t \in L |-> t[1]]
  <2>1. f \in [L -> ActiveJobs]
    BY DEF RInv, WorkIsRegistered, ActiveJobs, Tasks, Attempts, Absent
  <2>2. \A t, u \in L : f[t] = f[u] => t = u
    BY DEF RInv, WorkIsRegistered, Tasks
  <2>3. f \in Injection(L, ActiveJobs)
    BY <2>1, <2>2 DEF Injection, IsInjective
  <2>4. IsFiniteSet(L) /\ Cardinality(L) <= Cardinality(ActiveJobs)
    BY <2>3, ActiveJobsFinite, FS_Injection
  <2>5. /\ Cardinality(L) \in Nat /\ Cardinality(ActiveJobs) \in Nat
        /\ MaxConcurrency \in Nat
    BY <2>4, ActiveJobsFinite, FS_CardinalityType, SchedulerAssumption
  <2>. QED
    BY <2>4, <2>5 DEF PlaceIsFree, ConcurrencyIsBounded
<1>. QED
  BY <1>1, <1>2, <1>3, Invariance, RegistrationInvariance, PTL DEF Spec

-----------------------------------------------------------------------------
(* The bound on the queue.                                                 *)

\* A job whose place in the queue has been checked and not taken yet.
Pending ==
  IF lock \in {"recorded", "popped"} \/ \E t \in Tasks : pc[t] = "requeueing"
  THEN {subject} ELSE {}

PlaceInQueue == Cardinality(queue \cup Pending) <= MaxQueued

\* An enqueue adds at most one to the length of the queue.
LEMMA QueueFinite ==
  ASSUME NEW Q \in SUBSET Jobs, NEW j
  PROVE  /\ IsFiniteSet(Q) /\ Cardinality(Q) \in Nat
         /\ IsFiniteSet(Q \cup {j}) /\ Cardinality(Q \cup {j}) \in Nat
         /\ Cardinality(Q \cup {j}) \in {Cardinality(Q), Cardinality(Q) + 1}
<1>1. IsFiniteSet(Q)
  BY SchedulerAssumption, FS_Subset
<1>2. IsFiniteSet(Q \cup {j})
  BY <1>1, FS_AddElement
<1>3. Cardinality(Q \cup {j}) \in {Cardinality(Q), Cardinality(Q) + 1}
  BY <1>1, FS_AddElement, Zenon
<1>. QED
  BY <1>1, <1>2, <1>3, FS_CardinalityType

\* A step takes a place only when it has found one free.
LEMMA QueueGrowth ==
  ASSUME IInv, [Next]_vars
  PROVE  \/ (queue \cup Pending)' \subseteq queue \cup Pending
         \/ HasCapacity /\ \E j \in Jobs : (queue \cup Pending)' \subseteq queue \cup {j}
<1>. DEFINE Kept == (queue \cup Pending)' \subseteq queue \cup Pending
            Taken == HasCapacity /\ \E j \in Jobs : (queue \cup Pending)' \subseteq queue \cup {j}
<1>a. /\ pc \in [Tasks -> ExecutorPc]
      /\ queue \subseteq Jobs
      /\ \A t \in Tasks : t[1] \in Jobs
      /\ \A t \in Tasks : pc[t] = "requeueing" => lock = "executor" /\ subject = t[1]
  BY DEF IInv, TypeOK, ExecutorHoldsLock, Locked, Tasks
<1>. USE <1>a DEF Pending, Acquire, Advance, Unlock, Goto, control
<1>1. ASSUME NEW j \in Jobs, Submit(j) \/ ManualRetry(j) \/ Cancel(j) PROVE Kept \/ Taken
  BY <1>1 DEF Submit, ManualRetry, Cancel
<1>2. CASE Stop
  BY <1>2 DEF Stop
<1>3. CASE ClientStep
  BY <1>3 DEF ClientStep, Enqueue, Announce, CancelQueued, CancelInFlight
<1>4. CASE LaunchStep
  BY <1>4 DEF LaunchStep, LaunchPop, LaunchNothing, LaunchHit, LaunchAdmit, LaunchReject,
         LaunchDefer, Rejected, Deferred, Prepare, Start, ServeFromCache, FromCache
<1>5. CASE LoopTop \/ LoopInner \/ LoopWait \/ LoopResume \/ LoopPause \/ LoopWake
  <2>1. UNCHANGED <<queue, pc, lock, subject>>
    BY <1>5 DEF LoopTop, LoopInner, LoopWait, LoopResume, LoopPause, LoopWake
  <2>. QED
    BY <2>1
<1>6. ASSUME NEW t \in Tasks, ExecutorStep(t) PROVE Kept \/ Taken
  <2>1. CASE RetryRecorded(t)
    BY <2>1 DEF RetryRecorded
  <2>2. CASE RetryQueued(t)
    BY <2>2 DEF RetryQueued
  <2>3. CASE ~RetryRecorded(t) /\ ~RetryQueued(t)
    <3>1. queue' = queue /\ lock' \in {lock, "free", "executor"}
      BY <1>6, <2>3 DEF ExecutorStep, ExecRun, ExecCheckpoint, DispatchReturned,
           DispatchCancelled, DispatchRetryable, DispatchFailed, ExecComplete, ExecCancel,
           ExecFail, ExecAbort, BackoffOver, RetryRefused, ExecClose, ExecRefused, ExecRequeued,
           Finally
    <3>2. lock' = lock => subject' = subject \/ lock' \notin {"recorded", "popped"}
      BY <1>6, <2>3 DEF ExecutorStep, ExecRun, ExecCheckpoint, DispatchReturned,
           DispatchCancelled, DispatchRetryable, DispatchFailed, ExecComplete, ExecCancel,
           ExecFail, ExecAbort, BackoffOver, RetryRefused, ExecClose, ExecRefused, ExecRequeued,
           Finally
    <3>3. \A u \in Tasks : pc'[u] = "requeueing" => pc[u] = "requeueing" /\ subject' = subject
      BY <1>6, <2>3 DEF ExecutorStep, ExecRun, ExecCheckpoint, DispatchReturned,
           DispatchCancelled, DispatchRetryable, DispatchFailed, ExecComplete, ExecCancel,
           ExecFail, ExecAbort, BackoffOver, RetryRefused, ExecClose, ExecRefused, ExecRequeued,
           Finally, Terminal, IInv, ExecutorHoldsLock, Locked
    <3>. QED
      BY <3>1, <3>2, <3>3
  <2>. QED
    BY <2>1, <2>2, <2>3
<1>7. CASE UNCHANGED vars
  BY <1>7 DEF vars
<1>. QED
  BY <1>1, <1>2, <1>3, <1>4, <1>5, <1>6, <1>7 DEF Next, ClientCall, LoopStep

(* max_queued bounds the queue, although a deferral enqueues unchecked.    *)
THEOREM QueueNeverOverflows == Spec => []QueueWithinCapacity
<1>1. Init => PlaceInQueue
  <2>. SUFFICES ASSUME Init PROVE PlaceInQueue
    OBVIOUS
  <2>1. queue \cup Pending = {}
    BY DEF Init, Pending
  <2>. QED
    BY <2>1, FS_EmptySet, SchedulerAssumption DEF PlaceInQueue
<1>2. IInv /\ PlaceInQueue /\ [Next]_vars => PlaceInQueue'
  <2>. SUFFICES ASSUME IInv, PlaceInQueue, [Next]_vars PROVE PlaceInQueue'
    OBVIOUS
  <2>0. /\ queue \in SUBSET Jobs
        /\ IsFiniteSet(queue \cup Pending) /\ Cardinality(queue \cup Pending) \in Nat
        /\ MaxQueued \in Nat
    <3>1. queue \in SUBSET Jobs
      BY DEF IInv, TypeOK
    <3>2. CASE Pending = {subject}
      BY <3>1, <3>2, QueueFinite, SchedulerAssumption
    <3>3. CASE Pending = {}
      <4>1. queue \cup Pending = queue
        BY <3>3
      <4>. QED
        BY <3>1, <4>1, QueueFinite, SchedulerAssumption
    <3>. QED
      BY <3>2, <3>3 DEF Pending
  <2>1. CASE (queue \cup Pending)' \subseteq queue \cup Pending
    <3>1. /\ Cardinality((queue \cup Pending)') <= Cardinality(queue \cup Pending)
          /\ Cardinality((queue \cup Pending)') \in Nat
      BY <2>0, <2>1, FS_Subset, FS_CardinalityType
    <3>. QED
      BY <2>0, <3>1 DEF PlaceInQueue
  <2>2. ASSUME HasCapacity, NEW j \in Jobs, (queue \cup Pending)' \subseteq queue \cup {j}
        PROVE  PlaceInQueue'
    <3>1. /\ IsFiniteSet(queue \cup {j}) /\ Cardinality(queue \cup {j}) \in Nat
          /\ Cardinality(queue) \in Nat
          /\ Cardinality(queue \cup {j}) \in {Cardinality(queue), Cardinality(queue) + 1}
      BY <2>0, QueueFinite
    <3>2. /\ Cardinality((queue \cup Pending)') <= Cardinality(queue \cup {j})
          /\ Cardinality((queue \cup Pending)') \in Nat
      BY <3>1, <2>2, FS_Subset, FS_CardinalityType
    <3>. QED
      BY <2>0, <2>2, <3>1, <3>2 DEF PlaceInQueue, HasCapacity
  <2>. QED
    BY <2>1, <2>2, QueueGrowth
<1>3. IInv /\ PlaceInQueue => QueueWithinCapacity
  <2>. SUFFICES ASSUME IInv, PlaceInQueue PROVE QueueWithinCapacity
    OBVIOUS
  <2>1. queue \in SUBSET Jobs /\ queue \cup Pending \in SUBSET (Jobs \cup {subject})
    BY DEF IInv, TypeOK, Pending
  <2>2. IsFiniteSet(Jobs \cup {subject}) /\ IsFiniteSet(queue)
    BY <2>1, SchedulerAssumption, QueueFinite, FS_AddElement
  <2>3. IsFiniteSet(queue \cup Pending)
    BY <2>1, <2>2, FS_Subset
  <2>4. /\ Cardinality(queue) <= Cardinality(queue \cup Pending)
        /\ Cardinality(queue) \in Nat /\ Cardinality(queue \cup Pending) \in Nat
    BY <2>2, <2>3, FS_Subset, FS_CardinalityType
  <2>. QED
    BY <2>4, SchedulerAssumption DEF PlaceInQueue, QueueWithinCapacity
<1>. QED
  BY <1>1, <1>2, <1>3, Invariance, PTL DEF Spec

(* Neither the queue nor the executors exceed their limits.                *)
THEOREM LimitsAlwaysHold == ASSUME Exclusion PROVE Spec => []LimitsHold
BY ConcurrencyBound, QueueNeverOverflows, PTL DEF LimitsHold

-----------------------------------------------------------------------------
(* Cancellation, with in-memory stores.                                    *)

\* Between two actions of its own stretch an actor holds the event loop: the
\* lock is never held, and no executor left in mid-write, while others run.
StretchIsUninterrupted ==
  /\ lock \in {"recorded", "announcing", "removing", "signalling"} => turn = Client
  /\ lock \in {"popped", "preparing", "prepared", "rejecting", "deferring", "cached"}
       => turn = Loop /\ loop = "launching"
  /\ lock = "executor" => turn \in Tasks /\ pc[turn] \in Locked
  /\ \A t \in Tasks : pc[t] \notin {"none", "start", "dispatch", "backoff", "done"} => turn = t

\* The executor of a cancelled attempt has not passed its last checkpoint.
CancelledIsStopped ==
  \A t \in cancelled :
    pc[t] \notin {"none", "saving", "locking", "refused", "requeueing", "requeued", "completed"}

\* While a cancelled attempt is the current one it is at work, or it has ended without a result.
CancelledHasNoResult ==
  \A t \in cancelled :
    /\ t[2] <= attempt[t[1]]
    /\ attempt[t[1]] = t[2] => status[t[1]] \in {"preparing", "running", "failed", "cancelled"}
    /\ lock = "cached" /\ t[1] = subject => attempt[subject] # t[2]

CInv == StretchIsUninterrupted /\ CancelledIsStopped /\ CancelledHasNoResult

\* Nobody runs in the middle of somebody else's stretch.
LEMMA StretchStep ==
  ASSUME ~Suspends, IInv, StretchIsUninterrupted, [Next]_vars
  PROVE  StretchIsUninterrupted'
<1>a. /\ pc \in [Tasks -> ExecutorPc]
      /\ lock \in LockPc
      /\ turn \in Tasks \cup {Nobody, Loop, Client}
      /\ Nobody # Loop /\ Nobody # Client /\ Loop # Client
  BY DEF IInv, TypeOK, Nobody, Loop, Client
<1>. USE <1>a, ActorsDiffer
     DEF StretchIsUninterrupted, Locked, LockPc, Terminal,
         Runs, Continue, Suspend, CallStore, Acquire, Advance, Unlock, Goto, control, looping
<1>1. ASSUME NEW j \in Jobs, Submit(j)
       PROVE  StretchIsUninterrupted'
  BY <1>1 DEF Submit
<1>2. ASSUME NEW j \in Jobs, ManualRetry(j)
       PROVE  StretchIsUninterrupted'
  BY <1>2 DEF ManualRetry
<1>3. ASSUME NEW j \in Jobs, Cancel(j)
       PROVE  StretchIsUninterrupted'
  BY <1>3 DEF Cancel
<1>4. CASE Stop
  BY <1>4 DEF Stop
<1>5. CASE Enqueue
  BY <1>5 DEF Enqueue
<1>6. CASE Announce
  BY <1>6 DEF Announce
<1>7. CASE CancelQueued
  BY <1>7 DEF CancelQueued
<1>8. CASE CancelInFlight
  BY <1>8 DEF CancelInFlight
<1>9. CASE LaunchNothing
  BY <1>9 DEF LaunchNothing
<1>10. CASE LaunchHit
  BY <1>10 DEF LaunchHit
<1>11. CASE LaunchAdmit
  BY <1>11 DEF LaunchAdmit
<1>12. CASE LaunchReject
  BY <1>12 DEF LaunchReject
<1>13. CASE LaunchDefer
  BY <1>13 DEF LaunchDefer
<1>14. CASE Rejected
  BY <1>14 DEF Rejected
<1>15. CASE Deferred
  BY <1>15 DEF Deferred
<1>16. CASE Prepare
  BY <1>16 DEF Prepare
<1>17. CASE Start
  BY <1>17 DEF Start
<1>18. CASE ServeFromCache
  BY <1>18 DEF ServeFromCache, FromCache
<1>19. CASE LoopTop
  BY <1>19 DEF LoopTop
<1>20. CASE LoopInner
  BY <1>20 DEF LoopInner
<1>21. CASE LoopWait
  BY <1>21 DEF LoopWait
<1>22. CASE LoopResume
  BY <1>22 DEF LoopResume
<1>23. CASE LoopPause
  BY <1>23 DEF LoopPause
<1>24. CASE LoopWake
  BY <1>24 DEF LoopWake
<1>25. ASSUME NEW j \in Jobs, LaunchPop(j)
       PROVE  StretchIsUninterrupted'
  BY <1>25 DEF LaunchPop
<1>26. ASSUME NEW t \in Tasks, ExecRun(t)
       PROVE  StretchIsUninterrupted'
  BY <1>26 DEF ExecRun
<1>27. ASSUME NEW t \in Tasks, ExecCheckpoint(t)
       PROVE  StretchIsUninterrupted'
  BY <1>27 DEF ExecCheckpoint
<1>28. ASSUME NEW t \in Tasks, DispatchReturned(t)
       PROVE  StretchIsUninterrupted'
  BY <1>28 DEF DispatchReturned
<1>29. ASSUME NEW t \in Tasks, DispatchCancelled(t)
       PROVE  StretchIsUninterrupted'
  BY <1>29 DEF DispatchCancelled
<1>30. ASSUME NEW t \in Tasks, DispatchRetryable(t)
       PROVE  StretchIsUninterrupted'
  BY <1>30 DEF DispatchRetryable
<1>31. ASSUME NEW t \in Tasks, DispatchFailed(t)
       PROVE  StretchIsUninterrupted'
  BY <1>31 DEF DispatchFailed
<1>32. ASSUME NEW t \in Tasks, ExecComplete(t)
       PROVE  StretchIsUninterrupted'
  BY <1>32 DEF ExecComplete
<1>33. ASSUME NEW t \in Tasks, ExecCancel(t)
       PROVE  StretchIsUninterrupted'
  BY <1>33 DEF ExecCancel, ExecAbort
<1>34. ASSUME NEW t \in Tasks, ExecFail(t)
       PROVE  StretchIsUninterrupted'
  BY <1>34 DEF ExecFail, ExecAbort
<1>35. ASSUME NEW t \in Tasks, BackoffOver(t)
       PROVE  StretchIsUninterrupted'
  BY <1>35 DEF BackoffOver
<1>36. ASSUME NEW t \in Tasks, RetryRefused(t)
       PROVE  StretchIsUninterrupted'
  BY <1>36 DEF RetryRefused
<1>37. ASSUME NEW t \in Tasks, RetryRecorded(t)
       PROVE  StretchIsUninterrupted'
  BY <1>37 DEF RetryRecorded
<1>38. ASSUME NEW t \in Tasks, RetryQueued(t)
       PROVE  StretchIsUninterrupted'
  BY <1>38 DEF RetryQueued
<1>39. ASSUME NEW t \in Tasks, ExecClose(t)
       PROVE  StretchIsUninterrupted'
  BY <1>39 DEF ExecClose, Finally
<1>40. ASSUME NEW t \in Tasks, ExecRefused(t)
       PROVE  StretchIsUninterrupted'
  BY <1>40 DEF ExecRefused, Finally
<1>41. ASSUME NEW t \in Tasks, ExecRequeued(t)
       PROVE  StretchIsUninterrupted'
  BY <1>41 DEF ExecRequeued, Finally
<1>42. CASE UNCHANGED vars
  BY <1>42 DEF vars
<1>. QED
  BY <1>1, <1>2, <1>3, <1>4, <1>5, <1>6, <1>7, <1>8, <1>9, <1>10, <1>11, <1>12, <1>13, <1>14, <1>15, <1>16, <1>17, <1>18, <1>19, <1>20, <1>21, <1>22, <1>23, <1>24, <1>25, <1>26, <1>27, <1>28, <1>29, <1>30, <1>31, <1>32, <1>33, <1>34, <1>35, <1>36, <1>37, <1>38, <1>39, <1>40, <1>41, <1>42
     DEF Next, ClientCall, ClientStep, LoopStep, LaunchStep, ExecutorStep

\* cancel() finds the token of an attempt that still has a checkpoint ahead.
LEMMA CancelInTime ==
  ASSUME IInv, RInv, StretchIsUninterrupted, ~Suspends, CancelInFlight, active[subject] # Absent
  PROVE  /\ <<subject, active[subject]>> \in Tasks
         /\ pc[<<subject, active[subject]>>] \in {"start", "dispatch", "backoff"}
         /\ attempt[subject] = active[subject]
         /\ status[subject] \in {"preparing", "running"}
<1>. DEFINE t == <<subject, active[subject]>>
<1>1. subject \in Jobs /\ lock = "signalling"
  BY DEF IInv, LockHasSubject, CancelInFlight, Unlock
<1>2. t \in Tasks /\ t[1] = subject /\ t[2] = active[subject]
  BY <1>1 DEF IInv, TypeOK, Tasks
<1>3. Live(t)
  BY <1>1 DEF RInv, ActiveIsLive
<1>4. turn # t
  BY <1>1, <1>2, ActorsDiffer DEF StretchIsUninterrupted
<1>5. pc[t] \in {"start", "dispatch", "backoff"}
  BY <1>2, <1>3, <1>4 DEF StretchIsUninterrupted, Live
<1>. QED
  BY <1>2, <1>5 DEF IInv, WorkerOwnsRecord, Working

LEMMA CancelledStep ==
  ASSUME ~Suspends, IInv, RInv, CInv, [Next]_vars
  PROVE  (CancelledIsStopped /\ CancelledHasNoResult)'
<1>. DEFINE Goal == CancelledIsStopped /\ CancelledHasNoResult
<1>a. /\ status \in [Jobs -> Statuses \cup {"absent"}]
      /\ attempt \in [Jobs -> Attempts]
      /\ pc \in [Tasks -> ExecutorPc]
      /\ cancelled \subseteq Tasks
      /\ LockHasSubject /\ HolderKnowsStatus /\ WorkerOwnsRecord
      /\ CancelledIsStopped /\ CancelledHasNoResult
      /\ CancelInFlight /\ active[subject] # Absent =>
           /\ <<subject, active[subject]>> \in Tasks
           /\ pc[<<subject, active[subject]>>] \in {"start", "dispatch", "backoff"}
           /\ attempt[subject] = active[subject]
           /\ status[subject] \in {"preparing", "running"}
  BY CancelInTime DEF IInv, TypeOK, CInv
<1>. USE <1>a, SchedulerAssumption
     DEF CancelledIsStopped, CancelledHasNoResult, LockHasSubject, HolderKnowsStatus,
         WorkerOwnsRecord, Working, Terminal, Tasks, Attempts,
         Acquire, Advance, Unlock, Goto, SetStatus, Requeue, records, dicts, control
<1>1. ASSUME NEW j \in Jobs, Submit(j)
       PROVE  Goal'
  BY <1>1 DEF Submit
<1>2. ASSUME NEW j \in Jobs, ManualRetry(j)
       PROVE  Goal'
  BY <1>2 DEF ManualRetry
<1>3. ASSUME NEW j \in Jobs, Cancel(j)
       PROVE  Goal'
  BY <1>3 DEF Cancel
<1>4. CASE Stop
  BY <1>4 DEF Stop
<1>5. CASE Enqueue
  BY <1>5 DEF Enqueue
<1>6. CASE Announce
  BY <1>6 DEF Announce
<1>7. CASE CancelQueued
  BY <1>7 DEF CancelQueued
<1>8. CASE CancelInFlight
  BY <1>8 DEF CancelInFlight
<1>9. CASE LaunchNothing
  BY <1>9 DEF LaunchNothing
<1>10. CASE LaunchHit
  BY <1>10 DEF LaunchHit
<1>11. CASE LaunchAdmit
  BY <1>11 DEF LaunchAdmit
<1>12. CASE LaunchReject
  BY <1>12 DEF LaunchReject
<1>13. CASE LaunchDefer
  BY <1>13 DEF LaunchDefer
<1>14. CASE Rejected
  BY <1>14 DEF Rejected
<1>15. CASE Deferred
  BY <1>15 DEF Deferred
<1>16. CASE Prepare
  BY <1>16 DEF Prepare
<1>17. CASE Start
  BY <1>17 DEF Start
<1>18. CASE ServeFromCache
  BY <1>18 DEF ServeFromCache, FromCache
<1>19. CASE LoopTop
  BY <1>19 DEF LoopTop
<1>20. CASE LoopInner
  BY <1>20 DEF LoopInner
<1>21. CASE LoopWait
  BY <1>21 DEF LoopWait
<1>22. CASE LoopResume
  BY <1>22 DEF LoopResume
<1>23. CASE LoopPause
  BY <1>23 DEF LoopPause
<1>24. CASE LoopWake
  BY <1>24 DEF LoopWake
<1>25. ASSUME NEW j \in Jobs, LaunchPop(j)
       PROVE  Goal'
  BY <1>25 DEF LaunchPop
<1>26. ASSUME NEW t \in Tasks, ExecRun(t)
       PROVE  Goal'
  BY <1>26 DEF ExecRun
<1>27. ASSUME NEW t \in Tasks, ExecCheckpoint(t)
       PROVE  Goal'
  BY <1>27 DEF ExecCheckpoint
<1>28. ASSUME NEW t \in Tasks, DispatchReturned(t)
       PROVE  Goal'
  BY <1>28 DEF DispatchReturned
<1>29. ASSUME NEW t \in Tasks, DispatchCancelled(t)
       PROVE  Goal'
  BY <1>29 DEF DispatchCancelled
<1>30. ASSUME NEW t \in Tasks, DispatchRetryable(t)
       PROVE  Goal'
  BY <1>30 DEF DispatchRetryable
<1>31. ASSUME NEW t \in Tasks, DispatchFailed(t)
       PROVE  Goal'
  BY <1>31 DEF DispatchFailed
<1>32. ASSUME NEW t \in Tasks, ExecComplete(t)
       PROVE  Goal'
  BY <1>32 DEF ExecComplete
<1>33. ASSUME NEW t \in Tasks, ExecCancel(t)
       PROVE  Goal'
  BY <1>33 DEF ExecCancel, ExecAbort
<1>34. ASSUME NEW t \in Tasks, ExecFail(t)
       PROVE  Goal'
  BY <1>34 DEF ExecFail, ExecAbort
<1>35. ASSUME NEW t \in Tasks, BackoffOver(t)
       PROVE  Goal'
  BY <1>35 DEF BackoffOver
<1>36. ASSUME NEW t \in Tasks, RetryRefused(t)
       PROVE  Goal'
  BY <1>36 DEF RetryRefused
<1>37. ASSUME NEW t \in Tasks, RetryRecorded(t)
       PROVE  Goal'
  BY <1>37 DEF RetryRecorded
<1>38. ASSUME NEW t \in Tasks, RetryQueued(t)
       PROVE  Goal'
  BY <1>38 DEF RetryQueued
<1>39. ASSUME NEW t \in Tasks, ExecClose(t)
       PROVE  Goal'
  BY <1>39 DEF ExecClose, Finally
<1>40. ASSUME NEW t \in Tasks, ExecRefused(t)
       PROVE  Goal'
  BY <1>40 DEF ExecRefused, Finally
<1>41. ASSUME NEW t \in Tasks, ExecRequeued(t)
       PROVE  Goal'
  BY <1>41 DEF ExecRequeued, Finally
<1>42. CASE UNCHANGED vars
  BY <1>42 DEF vars
<1>. QED
  BY <1>1, <1>2, <1>3, <1>4, <1>5, <1>6, <1>7, <1>8, <1>9, <1>10, <1>11, <1>12, <1>13, <1>14, <1>15, <1>16, <1>17, <1>18, <1>19, <1>20, <1>21, <1>22, <1>23, <1>24, <1>25, <1>26, <1>27, <1>28, <1>29, <1>30, <1>31, <1>32, <1>33, <1>34, <1>35, <1>36, <1>37, <1>38, <1>39, <1>40, <1>41, <1>42
     DEF Next, ClientCall, ClientStep, LoopStep, LaunchStep, ExecutorStep

\* Only the automatic retry makes a record at work QUEUED again.
LEMMA RequeuedByExecutor ==
  ASSUME IInv, [Next]_vars, NEW j \in Jobs,
         status[j] \in {"preparing", "running"}, status'[j] = "queued"
  PROVE  \E t \in Tasks : t[1] = j /\ RetryRecorded(t)
<1>. DEFINE Goal == \E t \in Tasks : t[1] = j /\ RetryRecorded(t)
<1>a. /\ status \in [Jobs -> Statuses \cup {"absent"}]
      /\ status[j] # status'[j]
      /\ LockHasSubject /\ HolderKnowsStatus /\ WorkerOwnsRecord
  BY DEF IInv, TypeOK
<1>. USE <1>a
     DEF LockHasSubject, HolderKnowsStatus, WorkerOwnsRecord, Terminal,
         Acquire, Advance, Unlock, Goto, SetStatus, Requeue, records, dicts, control
<1>1. ASSUME NEW k \in Jobs, Submit(k)
       PROVE  Goal
  BY <1>1 DEF Submit
<1>2. ASSUME NEW k \in Jobs, ManualRetry(k)
       PROVE  Goal
  BY <1>2 DEF ManualRetry
<1>3. ASSUME NEW k \in Jobs, Cancel(k)
       PROVE  Goal
  BY <1>3 DEF Cancel
<1>4. CASE Stop
  BY <1>4 DEF Stop
<1>5. CASE Enqueue
  BY <1>5 DEF Enqueue
<1>6. CASE Announce
  BY <1>6 DEF Announce
<1>7. CASE CancelQueued
  BY <1>7 DEF CancelQueued
<1>8. CASE CancelInFlight
  BY <1>8 DEF CancelInFlight
<1>9. CASE LaunchNothing
  BY <1>9 DEF LaunchNothing
<1>10. CASE LaunchHit
  BY <1>10 DEF LaunchHit
<1>11. CASE LaunchAdmit
  BY <1>11 DEF LaunchAdmit
<1>12. CASE LaunchReject
  BY <1>12 DEF LaunchReject
<1>13. CASE LaunchDefer
  BY <1>13 DEF LaunchDefer
<1>14. CASE Rejected
  BY <1>14 DEF Rejected
<1>15. CASE Deferred
  BY <1>15 DEF Deferred
<1>16. CASE Prepare
  BY <1>16 DEF Prepare
<1>17. CASE Start
  BY <1>17 DEF Start
<1>18. CASE ServeFromCache
  BY <1>18 DEF ServeFromCache, FromCache
<1>19. CASE LoopTop
  BY <1>19 DEF LoopTop
<1>20. CASE LoopInner
  BY <1>20 DEF LoopInner
<1>21. CASE LoopWait
  BY <1>21 DEF LoopWait
<1>22. CASE LoopResume
  BY <1>22 DEF LoopResume
<1>23. CASE LoopPause
  BY <1>23 DEF LoopPause
<1>24. CASE LoopWake
  BY <1>24 DEF LoopWake
<1>25. ASSUME NEW k \in Jobs, LaunchPop(k)
       PROVE  Goal
  BY <1>25 DEF LaunchPop
<1>26. ASSUME NEW t \in Tasks, ExecRun(t)
       PROVE  Goal
  BY <1>26 DEF ExecRun
<1>27. ASSUME NEW t \in Tasks, ExecCheckpoint(t)
       PROVE  Goal
  BY <1>27 DEF ExecCheckpoint
<1>28. ASSUME NEW t \in Tasks, DispatchReturned(t)
       PROVE  Goal
  BY <1>28 DEF DispatchReturned
<1>29. ASSUME NEW t \in Tasks, DispatchCancelled(t)
       PROVE  Goal
  BY <1>29 DEF DispatchCancelled
<1>30. ASSUME NEW t \in Tasks, DispatchRetryable(t)
       PROVE  Goal
  BY <1>30 DEF DispatchRetryable
<1>31. ASSUME NEW t \in Tasks, DispatchFailed(t)
       PROVE  Goal
  BY <1>31 DEF DispatchFailed
<1>32. ASSUME NEW t \in Tasks, ExecComplete(t)
       PROVE  Goal
  BY <1>32 DEF ExecComplete
<1>33. ASSUME NEW t \in Tasks, ExecCancel(t)
       PROVE  Goal
  BY <1>33 DEF ExecCancel, ExecAbort
<1>34. ASSUME NEW t \in Tasks, ExecFail(t)
       PROVE  Goal
  BY <1>34 DEF ExecFail, ExecAbort
<1>35. ASSUME NEW t \in Tasks, BackoffOver(t)
       PROVE  Goal
  BY <1>35 DEF BackoffOver
<1>36. ASSUME NEW t \in Tasks, RetryRefused(t)
       PROVE  Goal
  BY <1>36 DEF RetryRefused
<1>37. ASSUME NEW t \in Tasks, RetryRecorded(t)
       PROVE  Goal
  <2>1. t[1] = j
    BY <1>37 DEF RetryRecorded
  <2>. QED
    BY <1>37, <2>1
<1>38. ASSUME NEW t \in Tasks, RetryQueued(t)
       PROVE  Goal
  BY <1>38 DEF RetryQueued
<1>39. ASSUME NEW t \in Tasks, ExecClose(t)
       PROVE  Goal
  BY <1>39 DEF ExecClose, Finally
<1>40. ASSUME NEW t \in Tasks, ExecRefused(t)
       PROVE  Goal
  BY <1>40 DEF ExecRefused, Finally
<1>41. ASSUME NEW t \in Tasks, ExecRequeued(t)
       PROVE  Goal
  BY <1>41 DEF ExecRequeued, Finally
<1>42. CASE UNCHANGED vars
  BY <1>42 DEF vars
<1>. QED
  BY <1>1, <1>2, <1>3, <1>4, <1>5, <1>6, <1>7, <1>8, <1>9, <1>10, <1>11, <1>12, <1>13, <1>14, <1>15, <1>16, <1>17, <1>18, <1>19, <1>20, <1>21, <1>22, <1>23, <1>24, <1>25, <1>26, <1>27, <1>28, <1>29, <1>30, <1>31, <1>32, <1>33, <1>34, <1>35, <1>36, <1>37, <1>38, <1>39, <1>40, <1>41, <1>42
     DEF Next, ClientCall, ClientStep, LoopStep, LaunchStep, ExecutorStep


\* Only an attempt that was not cancelled completes, or is followed by an automatic one.
LEMMA CancelledActions ==
  ASSUME IInv, CInv, CInv', [Next]_vars
  PROVE  CancelledNeverCompletes' /\ CancelledIsNotRequeued
<1>1. CancelledNeverCompletes'
  BY DEF CInv, CancelledHasNoResult, CancelledNeverCompletes
<1>2. ASSUME NEW j \in Jobs, status[j] \in {"preparing", "running"}, status'[j] = "queued"
      PROVE  <<j, attempt[j]>> \notin cancelled
  <2>1. PICK t \in Tasks : t[1] = j /\ RetryRecorded(t)
    BY <1>2, RequeuedByExecutor
  <2>2. pc[t] = "locking" /\ t \notin cancelled
    BY <2>1 DEF RetryRecorded, Goto, CInv, CancelledIsStopped
  <2>3. t = <<j, attempt[j]>>
    BY <2>1, <2>2 DEF IInv, WorkerOwnsRecord, Working, Tasks
  <2>. QED
    BY <2>2, <2>3
<1>. QED
  BY <1>1, <1>2 DEF CancelledIsNotRequeued

(* What a client was told is cancelled neither completes nor is tried      *)
(* again, with in-memory stores: between cancel()'s look at the record and *)
(* at the token no executor runs.                                          *)
THEOREM CancellationsHold == ASSUME ~Suspends PROVE Spec => CancelledStaysCancelled
<1>1. Init => CInv
  BY DEF Init, CInv, StretchIsUninterrupted, CancelledIsStopped, CancelledHasNoResult
<1>2. ASSUME ~Suspends
      PROVE  IInv /\ RInv /\ CInv /\ [Next]_vars => CInv'
  BY <1>2, StretchStep, CancelledStep DEF CInv
<1>3. IInv /\ CInv /\ CInv' /\ [Next]_vars => CancelledNeverCompletes' /\ CancelledIsNotRequeued
  BY CancelledActions
<1>4. ASSUME ~Suspends
      PROVE  Spec => []RInv
  BY <1>4, RegistrationInvariance DEF Exclusion
<1>5. ASSUME ~Suspends
      PROVE  Spec => CancelledStaysCancelled
  BY <1>1, <1>2, <1>3, <1>4, <1>5, Invariance, PTL DEF Spec, CancelledStaysCancelled
<1>. QED
  BY <1>5

-----------------------------------------------------------------------------
(* The journal.                                                            *)

LastPosition(j) ==
  IF journal[j] = <<>> THEN -1
  ELSE LET e == journal[j][Len(journal[j])] IN Repository!MonotonicPosition(e.name, e.attempt)

RecordPosition(j) == Repository!MonotonicPosition(status[j], attempt[j])

\* The record has been written and the event of that write not published.
Telling == Terminal \cup {"refused", "requeueing"}

Untold(j) ==
  \/ lock = "recorded" /\ subject = j
  \/ \E t \in Tasks : t[1] = j /\ pc[t] \in Telling

\* The journal is where the record is, or behind it while an event is due.
JournalFollows ==
  \A j \in Jobs :
    /\ status[j] = "absent" => journal[j] = <<>>
    /\ status[j] # "absent" => LastPosition(j) <= RecordPosition(j)
    /\ Untold(j) => LastPosition(j) < RecordPosition(j)

RefusedIsFailed ==
  \A t \in Tasks : pc[t] = "refused" => status[t[1]] = "failed" /\ attempt[t[1]] = t[2]

JInv == RefusedIsFailed /\ JournalFollows /\ JournalIsMonotone

\* What a step does to the record and the journal of job j: it writes the
\* record forward, or publishes what the record says, or both.
OthersKept(j) ==
  \A i \in Jobs \ {j} : /\ status'[i] = status[i] /\ attempt'[i] = attempt[i]
                        /\ Untold(i)' => Untold(i)

Advances(j) ==
  /\ status'[j] \in Statuses
  /\ status[j] # "absent" => RecordPosition(j) < RecordPosition(j)'

TellsNothing ==
  /\ UNCHANGED <<status, attempt, journal>>
  /\ \A i \in Jobs : Untold(i)' => Untold(i)

Writes(j) == UNCHANGED journal /\ OthersKept(j) /\ Advances(j)

Tells(j) ==
  /\ Publish(j, status'[j], attempt'[j])
  /\ OthersKept(j)
  /\ status[j] \in Statuses /\ status'[j] \in Statuses
  /\ ~Untold(j)'
  /\ \/ Advances(j)
     \/ Untold(j) /\ status'[j] = status[j] /\ attempt'[j] = attempt[j]

\* A refused retry has failed its record under the lock.
LEMMA RefusedStep ==
  ASSUME Exclusion, IInv, RInv, RefusedIsFailed, [Next]_vars PROVE RefusedIsFailed'
<1>a. /\ status \in [Jobs -> Statuses \cup {"absent"}] /\ attempt \in [Jobs -> Attempts]
      /\ pc \in [Tasks -> ExecutorPc]
      /\ lock # "free" => subject \in Jobs
      /\ \A t \in Tasks : pc[t] = "refused" => /\ lock = "executor" /\ subject = t[1]
                                               /\ status[t[1]] = "failed" /\ attempt[t[1]] = t[2]
      /\ \A t \in Tasks : pc[t] \in Working => attempt[t[1]] = t[2]
      /\ \A t \in Tasks : pc[t] \in Working \ {"start"} => status[t[1]] = "running"
      /\ \A t \in Tasks : pc[t] = "start" => status[t[1]] = "preparing"
      /\ \A t \in Tasks : t[1] \in Jobs /\ t[2] \in Attempts
  BY DEF IInv, TypeOK, LockHasSubject, ExecutorHoldsLock, WorkerOwnsRecord, RefusedIsFailed, Locked, Tasks
<1>. USE <1>a
     DEF RefusedIsFailed, Working, Terminal, Acquire, Advance, Unlock, Goto, SetStatus, Requeue, records, dicts,
         control
<1>1. ASSUME NEW j \in Jobs, Submit(j)
       PROVE  RefusedIsFailed'
  BY <1>1 DEF Submit
<1>2. ASSUME NEW j \in Jobs, ManualRetry(j)
       PROVE  RefusedIsFailed'
  BY <1>2 DEF ManualRetry
<1>3. ASSUME NEW j \in Jobs, Cancel(j)
       PROVE  RefusedIsFailed'
  BY <1>3 DEF Cancel
<1>4. CASE Stop
  BY <1>4 DEF Stop
<1>5. CASE Enqueue
  BY <1>5 DEF Enqueue
<1>6. CASE Announce
  BY <1>6 DEF Announce
<1>7. CASE CancelQueued
  BY <1>7 DEF CancelQueued
<1>8. CASE CancelInFlight
  BY <1>8 DEF CancelInFlight
<1>9. CASE LaunchNothing
  BY <1>9 DEF LaunchNothing
<1>10. CASE LaunchHit
  BY <1>10 DEF LaunchHit
<1>11. CASE LaunchAdmit
  BY <1>11 DEF LaunchAdmit
<1>12. CASE LaunchReject
  BY <1>12 DEF LaunchReject
<1>13. CASE LaunchDefer
  BY <1>13 DEF LaunchDefer
<1>14. CASE Rejected
  BY <1>14 DEF Rejected
<1>15. CASE Deferred
  BY <1>15 DEF Deferred
<1>16. CASE Prepare
  BY <1>16 DEF Prepare
<1>17. CASE Start
  BY <1>17 DEF Start
<1>18. CASE ServeFromCache
  BY <1>18 DEF ServeFromCache, FromCache
<1>19. CASE LoopTop
  BY <1>19 DEF LoopTop
<1>20. CASE LoopInner
  BY <1>20 DEF LoopInner
<1>21. CASE LoopWait
  BY <1>21 DEF LoopWait
<1>22. CASE LoopResume
  BY <1>22 DEF LoopResume
<1>23. CASE LoopPause
  BY <1>23 DEF LoopPause
<1>24. CASE LoopWake
  BY <1>24 DEF LoopWake
<1>25. ASSUME NEW j \in Jobs, LaunchPop(j)
       PROVE  RefusedIsFailed'
  BY <1>25 DEF LaunchPop
<1>26. ASSUME NEW t \in Tasks, ExecRun(t)
       PROVE  RefusedIsFailed'
  BY <1>26 DEF ExecRun
<1>27. ASSUME NEW t \in Tasks, ExecCheckpoint(t)
       PROVE  RefusedIsFailed'
  BY <1>27 DEF ExecCheckpoint
<1>28. ASSUME NEW t \in Tasks, DispatchReturned(t)
       PROVE  RefusedIsFailed'
  BY <1>28 DEF DispatchReturned
<1>29. ASSUME NEW t \in Tasks, DispatchCancelled(t)
       PROVE  RefusedIsFailed'
  BY <1>29 DEF DispatchCancelled
<1>30. ASSUME NEW t \in Tasks, DispatchRetryable(t)
       PROVE  RefusedIsFailed'
  BY <1>30 DEF DispatchRetryable
<1>31. ASSUME NEW t \in Tasks, DispatchFailed(t)
       PROVE  RefusedIsFailed'
  BY <1>31 DEF DispatchFailed
<1>32. ASSUME NEW t \in Tasks, ExecComplete(t)
       PROVE  RefusedIsFailed'
  BY <1>32 DEF ExecComplete
<1>33. ASSUME NEW t \in Tasks, ExecCancel(t)
       PROVE  RefusedIsFailed'
  BY <1>33 DEF ExecCancel, ExecAbort
<1>34. ASSUME NEW t \in Tasks, ExecFail(t)
       PROVE  RefusedIsFailed'
  BY <1>34 DEF ExecFail, ExecAbort
<1>35. ASSUME NEW t \in Tasks, BackoffOver(t)
       PROVE  RefusedIsFailed'
  BY <1>35 DEF BackoffOver
<1>36. ASSUME NEW t \in Tasks, RetryRefused(t)
       PROVE  RefusedIsFailed'
  BY <1>36 DEF RetryRefused
<1>37. ASSUME NEW t \in Tasks, RetryRecorded(t)
       PROVE  RefusedIsFailed'
  BY <1>37 DEF RetryRecorded
<1>38. ASSUME NEW t \in Tasks, RetryQueued(t)
       PROVE  RefusedIsFailed'
  BY <1>38 DEF RetryQueued
<1>39. ASSUME NEW t \in Tasks, ExecClose(t)
       PROVE  RefusedIsFailed'
  BY <1>39 DEF ExecClose, Finally
<1>40. ASSUME NEW t \in Tasks, ExecRefused(t)
       PROVE  RefusedIsFailed'
  BY <1>40 DEF ExecRefused, Finally
<1>41. ASSUME NEW t \in Tasks, ExecRequeued(t)
       PROVE  RefusedIsFailed'
  BY <1>41 DEF ExecRequeued, Finally
<1>42. CASE UNCHANGED vars
  BY <1>42 DEF vars
<1>. QED
  BY <1>1, <1>2, <1>3, <1>4, <1>5, <1>6, <1>7, <1>8, <1>9, <1>10, <1>11, <1>12, <1>13,
     <1>14, <1>15, <1>16, <1>17, <1>18, <1>19, <1>20, <1>21, <1>22, <1>23, <1>24, <1>25,
     <1>26, <1>27, <1>28, <1>29, <1>30, <1>31, <1>32, <1>33, <1>34, <1>35, <1>36, <1>37,
     <1>38, <1>39, <1>40, <1>41, <1>42
  DEF Next, ClientCall, ClientStep, LoopStep, LaunchStep, ExecutorStep

\* Every step is of one of these kinds.
LEMMA TellingStep ==
  ASSUME Exclusion, IInv, RInv, RefusedIsFailed, [Next]_vars
  PROVE  TellsNothing \/ \E j \in Jobs : Writes(j) \/ Tells(j)
<1>. DEFINE Goal == TellsNothing \/ \E j \in Jobs : Writes(j) \/ Tells(j)
<1>a. /\ status \in [Jobs -> Statuses \cup {"absent"}] /\ attempt \in [Jobs -> Attempts]
      /\ pc \in [Tasks -> ExecutorPc]
      /\ lock \in LockPc
      /\ lock # "free" => subject \in Jobs
      /\ \A t \in Tasks : t[1] \in Jobs /\ t[2] \in Attempts /\ t = <<t[1], t[2]>>
  BY DEF IInv, TypeOK, LockHasSubject, Tasks
<1>b. /\ HolderKnowsStatus /\ WorkerOwnsRecord
      /\ \A t \in Tasks :
           /\ pc[t] \in Terminal => status[t[1]] = pc[t] /\ attempt[t[1]] = t[2]
           /\ pc[t] = "refused" => status[t[1]] = "failed" /\ attempt[t[1]] = t[2]
           /\ pc[t] = "requeueing" => status[t[1]] = "queued" /\ attempt[t[1]] = t[2] + 1
           /\ pc[t] \in {"refused", "requeueing"} => lock = "executor" /\ subject = t[1]
      /\ \A t, u \in Tasks : pc[t] = "requeueing" /\ pc[u] \in {"refused", "requeueing"} => t = u
  BY DEF IInv, RInv, ClosingIsCurrent, Closing, RefusedIsFailed, ExecutorHoldsLock, Locked
<1>c. \A i \in Jobs : Attempts \subseteq Nat /\ attempt[i] \in Nat
  BY <1>a, SchedulerAssumption DEF Attempts
<1>d. ASSUME lock' = "recorded" => lock = "recorded" /\ subject' = subject,
             \A u \in Tasks : pc'[u] \in Telling => pc[u] \in Telling
      PROVE  \A i \in Jobs : Untold(i)' => Untold(i)
  BY <1>d DEF Untold
<1>e. ASSUME NEW j \in Jobs,
             lock' = "recorded" => subject' = j \/ (lock = "recorded" /\ subject' = subject),
             \A t \in Tasks : t[1] # j /\ pc'[t] \in Telling => pc[t] \in Telling,
             \A i \in Jobs \ {j} : status'[i] = status[i] /\ attempt'[i] = attempt[i]
      PROVE  OthersKept(j)
  BY <1>e DEF Untold, OthersKept
<1>f. ASSUME NEW j \in Jobs, status'[j] \in Statuses,
             \/ status[j] = "absent"
             \/ attempt'[j] = attempt[j] /\ status'[j] \in Repository!Transitions(status[j])
             \/ attempt'[j] = attempt[j] + 1
      PROVE  Advances(j)
  <2>1. attempt[j] \in Nat /\ Repository!StatusPosition(status[j]) \in 0 .. 3
    BY <1>c DEF Repository!StatusPosition
  <2>2. CASE status[j] = "absent"
    BY <1>f, <2>2 DEF Advances
  <2>3. CASE attempt'[j] = attempt[j] /\ status'[j] \in Repository!Transitions(status[j])
    <3>1. Repository!StatusPosition(status[j]) < Repository!StatusPosition(status'[j])
      BY <1>a, <2>3 DEF Repository!Transitions, Repository!StatusPosition, Statuses
    <3>2. Repository!StatusPosition(status'[j]) \in 0 .. 3
      BY DEF Repository!StatusPosition
    <3>. QED
      BY <1>f, <2>1, <2>3, <3>1, <3>2 DEF Advances, RecordPosition, Repository!MonotonicPosition
  <2>4. CASE attempt'[j] = attempt[j] + 1
    <3>1. Repository!StatusPosition(status'[j]) \in 0 .. 3
      BY DEF Repository!StatusPosition
    <3>. QED
      BY <1>f, <2>1, <2>4, <3>1 DEF Advances, RecordPosition, Repository!MonotonicPosition
  <2>. QED
    BY <1>f, <2>2, <2>3, <2>4
<1>g. ASSUME NEW j \in Jobs, lock' # "recorded" \/ subject' # j,
             \A t \in Tasks : t[1] = j => pc'[t] \notin Telling
      PROVE  ~Untold(j)'
  BY <1>g DEF Untold
<1>h. ASSUME NEW j \in Jobs, NEW t \in Tasks, t[1] = j, pc[t] \in Telling,
             lock # "executor" \/ subject # j
      PROVE  status[j] \in Terminal
  BY <1>b, <1>h DEF Telling
<1>. USE DEF Acquire, Advance, Unlock, Goto, SetStatus, Requeue, records, dicts, control, Telling, Terminal, Statuses
<1>. HIDE DEF Goal
<1>1. ASSUME NEW j \in Jobs, Submit(j)
       PROVE  Goal
  <2>. DEFINE i == j
  <2>1. /\ i \in Jobs /\ UNCHANGED journal
        /\ \A k \in Jobs \ {i} : status'[k] = status[k] /\ attempt'[k] = attempt[k]
        /\ status'[i] \in Statuses
        /\ \/ status[i] = "absent"
           \/ attempt'[i] = attempt[i] /\ status'[i] \in Repository!Transitions(status[i])
           \/ attempt'[i] = attempt[i] + 1
    BY <1>1, <1>a, <1>b, <1>c DEF Submit, WorkerOwnsRecord, Working, Repository!Transitions
  <2>2. /\ lock' = "recorded" => subject' = i \/ (lock = "recorded" /\ subject' = subject)
        /\ \A t \in Tasks : t[1] # i /\ pc'[t] \in Telling => pc[t] \in Telling
    BY <1>1, <1>a DEF Submit
  <2>. HIDE DEF i
  <2>3. OthersKept(i) /\ Advances(i)
    BY <1>e, <1>f, <2>1, <2>2
  <2>. QED
    BY <2>1, <2>3, Zenon DEF Goal, Writes
<1>2. ASSUME NEW j \in Jobs, ManualRetry(j)
       PROVE  Goal
  <2>. DEFINE i == j
  <2>1. /\ i \in Jobs /\ UNCHANGED journal
        /\ \A k \in Jobs \ {i} : status'[k] = status[k] /\ attempt'[k] = attempt[k]
        /\ status'[i] \in Statuses
        /\ \/ status[i] = "absent"
           \/ attempt'[i] = attempt[i] /\ status'[i] \in Repository!Transitions(status[i])
           \/ attempt'[i] = attempt[i] + 1
    BY <1>2, <1>a, <1>b, <1>c DEF ManualRetry, WorkerOwnsRecord, Working, Repository!Transitions
  <2>2. /\ lock' = "recorded" => subject' = i \/ (lock = "recorded" /\ subject' = subject)
        /\ \A t \in Tasks : t[1] # i /\ pc'[t] \in Telling => pc[t] \in Telling
    BY <1>2, <1>a DEF ManualRetry
  <2>. HIDE DEF i
  <2>3. OthersKept(i) /\ Advances(i)
    BY <1>e, <1>f, <2>1, <2>2
  <2>. QED
    BY <2>1, <2>3, Zenon DEF Goal, Writes
<1>3. ASSUME NEW j \in Jobs, Cancel(j)
       PROVE  Goal
  <2>1. UNCHANGED <<status, attempt, journal>>
    BY <1>3 DEF Cancel
  <2>2. /\ lock' = "recorded" => lock = "recorded" /\ subject' = subject
        /\ \A u \in Tasks : pc'[u] \in Telling => pc[u] \in Telling
    BY <1>3, <1>a DEF Cancel
  <2>. QED
    BY <1>d, <2>1, <2>2 DEF Goal, TellsNothing
<1>4. CASE Stop
  <2>1. UNCHANGED <<status, attempt, journal>>
    BY <1>4 DEF Stop
  <2>2. /\ lock' = "recorded" => lock = "recorded" /\ subject' = subject
        /\ \A u \in Tasks : pc'[u] \in Telling => pc[u] \in Telling
    BY <1>4, <1>a DEF Stop
  <2>. QED
    BY <1>d, <2>1, <2>2 DEF Goal, TellsNothing
<1>5. CASE Enqueue
  <2>i. PICK i \in Jobs : i = subject
    BY <1>5, <1>a DEF Enqueue
  <2>1. /\ i \in Jobs
        /\ \A k \in Jobs \ {i} : status'[k] = status[k] /\ attempt'[k] = attempt[k]
        /\ status[i] \in Statuses /\ status'[i] \in Statuses
        /\ attempt'[i] = attempt[i] /\ status'[i] = status[i]
    BY <1>5, <2>i, <1>a, <1>b, <1>c DEF Enqueue, HolderKnowsStatus, WorkerOwnsRecord, Working,
       Repository!Transitions
  <2>2. Publish(i, status'[i], attempt'[i])
    BY <1>5, <2>i, <1>a, <1>b DEF Enqueue, Publish, HolderKnowsStatus, WorkerOwnsRecord, Working
  <2>3. /\ lock' = "recorded" => subject' = i \/ (lock = "recorded" /\ subject' = subject)
        /\ \A u \in Tasks : u[1] # i /\ pc'[u] \in Telling => pc[u] \in Telling
    BY <1>5, <2>i, <1>a DEF Enqueue
  <2>4. /\ lock' # "recorded" \/ subject' # i
        /\ \A u \in Tasks : u[1] = i => pc'[u] \notin Telling
    BY <1>5, <2>i, <1>a, <1>b, <1>h DEF Enqueue, HolderKnowsStatus, WorkerOwnsRecord, Working
  <2>5. Untold(i)
    BY <1>5, <2>i, <1>a DEF Enqueue, Untold
  <2>6. OthersKept(i)
    BY <1>e, <2>1, <2>3
  <2>7. ~Untold(i)'
    BY <1>g, <2>1, <2>4
  <2>. QED
    BY <2>1, <2>2, <2>5, <2>6, <2>7, Zenon DEF Goal, Tells
<1>6. CASE Announce
  <2>1. UNCHANGED <<status, attempt, journal>>
    BY <1>6 DEF Announce
  <2>2. /\ lock' = "recorded" => lock = "recorded" /\ subject' = subject
        /\ \A u \in Tasks : pc'[u] \in Telling => pc[u] \in Telling
    BY <1>6, <1>a DEF Announce
  <2>. QED
    BY <1>d, <2>1, <2>2 DEF Goal, TellsNothing
<1>7. CASE CancelQueued
  <2>i. PICK i \in Jobs : i = subject
    BY <1>7, <1>a DEF CancelQueued
  <2>1. /\ i \in Jobs
        /\ \A k \in Jobs \ {i} : status'[k] = status[k] /\ attempt'[k] = attempt[k]
        /\ status[i] \in Statuses /\ status'[i] \in Statuses
        /\ attempt'[i] = attempt[i] /\ status'[i] \in Repository!Transitions(status[i])
    BY <1>7, <2>i, <1>a, <1>b, <1>c DEF CancelQueued, HolderKnowsStatus, WorkerOwnsRecord, Working,
       Repository!Transitions
  <2>2. Publish(i, status'[i], attempt'[i])
    BY <1>7, <2>i, <1>a, <1>b DEF CancelQueued, Publish, HolderKnowsStatus, WorkerOwnsRecord, Working
  <2>3. /\ lock' = "recorded" => subject' = i \/ (lock = "recorded" /\ subject' = subject)
        /\ \A u \in Tasks : u[1] # i /\ pc'[u] \in Telling => pc[u] \in Telling
    BY <1>7, <2>i, <1>a DEF CancelQueued
  <2>4. /\ lock' # "recorded" \/ subject' # i
        /\ \A u \in Tasks : u[1] = i => pc'[u] \notin Telling
    BY <1>7, <2>i, <1>a, <1>b, <1>h DEF CancelQueued, HolderKnowsStatus, WorkerOwnsRecord, Working
  <2>5. Advances(i)
    BY <1>f, <2>1
  <2>6. OthersKept(i)
    BY <1>e, <2>1, <2>3
  <2>7. ~Untold(i)'
    BY <1>g, <2>1, <2>4
  <2>. QED
    BY <2>1, <2>2, <2>5, <2>6, <2>7, Zenon DEF Goal, Tells
<1>8. CASE CancelInFlight
  <2>1. UNCHANGED <<status, attempt, journal>>
    BY <1>8 DEF CancelInFlight
  <2>2. /\ lock' = "recorded" => lock = "recorded" /\ subject' = subject
        /\ \A u \in Tasks : pc'[u] \in Telling => pc[u] \in Telling
    BY <1>8, <1>a DEF CancelInFlight
  <2>. QED
    BY <1>d, <2>1, <2>2 DEF Goal, TellsNothing
<1>9. CASE LaunchNothing
  <2>1. UNCHANGED <<status, attempt, journal>>
    BY <1>9 DEF LaunchNothing
  <2>2. /\ lock' = "recorded" => lock = "recorded" /\ subject' = subject
        /\ \A u \in Tasks : pc'[u] \in Telling => pc[u] \in Telling
    BY <1>9, <1>a DEF LaunchNothing
  <2>. QED
    BY <1>d, <2>1, <2>2 DEF Goal, TellsNothing
<1>10. CASE LaunchHit
  <2>1. UNCHANGED <<status, attempt, journal>>
    BY <1>10 DEF LaunchHit
  <2>2. /\ lock' = "recorded" => lock = "recorded" /\ subject' = subject
        /\ \A u \in Tasks : pc'[u] \in Telling => pc[u] \in Telling
    BY <1>10, <1>a DEF LaunchHit
  <2>. QED
    BY <1>d, <2>1, <2>2 DEF Goal, TellsNothing
<1>11. CASE LaunchAdmit
  <2>1. UNCHANGED <<status, attempt, journal>>
    BY <1>11 DEF LaunchAdmit
  <2>2. /\ lock' = "recorded" => lock = "recorded" /\ subject' = subject
        /\ \A u \in Tasks : pc'[u] \in Telling => pc[u] \in Telling
    BY <1>11, <1>a DEF LaunchAdmit
  <2>. QED
    BY <1>d, <2>1, <2>2 DEF Goal, TellsNothing
<1>12. CASE LaunchReject
  <2>1. UNCHANGED <<status, attempt, journal>>
    BY <1>12 DEF LaunchReject
  <2>2. /\ lock' = "recorded" => lock = "recorded" /\ subject' = subject
        /\ \A u \in Tasks : pc'[u] \in Telling => pc[u] \in Telling
    BY <1>12, <1>a DEF LaunchReject
  <2>. QED
    BY <1>d, <2>1, <2>2 DEF Goal, TellsNothing
<1>13. CASE LaunchDefer
  <2>1. UNCHANGED <<status, attempt, journal>>
    BY <1>13 DEF LaunchDefer
  <2>2. /\ lock' = "recorded" => lock = "recorded" /\ subject' = subject
        /\ \A u \in Tasks : pc'[u] \in Telling => pc[u] \in Telling
    BY <1>13, <1>a DEF LaunchDefer
  <2>. QED
    BY <1>d, <2>1, <2>2 DEF Goal, TellsNothing
<1>14. CASE Rejected
  <2>i. PICK i \in Jobs : i = subject
    BY <1>14, <1>a DEF Rejected
  <2>1. /\ i \in Jobs
        /\ \A k \in Jobs \ {i} : status'[k] = status[k] /\ attempt'[k] = attempt[k]
        /\ status[i] \in Statuses /\ status'[i] \in Statuses
        /\ attempt'[i] = attempt[i] /\ status'[i] \in Repository!Transitions(status[i])
    BY <1>14, <2>i, <1>a, <1>b, <1>c DEF Rejected, HolderKnowsStatus, WorkerOwnsRecord, Working,
       Repository!Transitions
  <2>2. Publish(i, status'[i], attempt'[i])
    BY <1>14, <2>i, <1>a, <1>b DEF Rejected, Publish, HolderKnowsStatus, WorkerOwnsRecord, Working
  <2>3. /\ lock' = "recorded" => subject' = i \/ (lock = "recorded" /\ subject' = subject)
        /\ \A u \in Tasks : u[1] # i /\ pc'[u] \in Telling => pc[u] \in Telling
    BY <1>14, <2>i, <1>a DEF Rejected
  <2>4. /\ lock' # "recorded" \/ subject' # i
        /\ \A u \in Tasks : u[1] = i => pc'[u] \notin Telling
    BY <1>14, <2>i, <1>a, <1>b, <1>h DEF Rejected, HolderKnowsStatus, WorkerOwnsRecord, Working
  <2>5. Advances(i)
    BY <1>f, <2>1
  <2>6. OthersKept(i)
    BY <1>e, <2>1, <2>3
  <2>7. ~Untold(i)'
    BY <1>g, <2>1, <2>4
  <2>. QED
    BY <2>1, <2>2, <2>5, <2>6, <2>7, Zenon DEF Goal, Tells
<1>15. CASE Deferred
  <2>1. UNCHANGED <<status, attempt, journal>>
    BY <1>15 DEF Deferred
  <2>2. /\ lock' = "recorded" => lock = "recorded" /\ subject' = subject
        /\ \A u \in Tasks : pc'[u] \in Telling => pc[u] \in Telling
    BY <1>15, <1>a DEF Deferred
  <2>. QED
    BY <1>d, <2>1, <2>2 DEF Goal, TellsNothing
<1>16. CASE Prepare
  <2>i. PICK i \in Jobs : i = subject
    BY <1>16, <1>a DEF Prepare
  <2>1. /\ i \in Jobs
        /\ \A k \in Jobs \ {i} : status'[k] = status[k] /\ attempt'[k] = attempt[k]
        /\ status[i] \in Statuses /\ status'[i] \in Statuses
        /\ attempt'[i] = attempt[i] /\ status'[i] \in Repository!Transitions(status[i])
    BY <1>16, <2>i, <1>a, <1>b, <1>c DEF Prepare, HolderKnowsStatus, WorkerOwnsRecord, Working,
       Repository!Transitions
  <2>2. Publish(i, status'[i], attempt'[i])
    BY <1>16, <2>i, <1>a, <1>b DEF Prepare, Publish, HolderKnowsStatus, WorkerOwnsRecord, Working
  <2>3. /\ lock' = "recorded" => subject' = i \/ (lock = "recorded" /\ subject' = subject)
        /\ \A u \in Tasks : u[1] # i /\ pc'[u] \in Telling => pc[u] \in Telling
    BY <1>16, <2>i, <1>a DEF Prepare
  <2>4. /\ lock' # "recorded" \/ subject' # i
        /\ \A u \in Tasks : u[1] = i => pc'[u] \notin Telling
    BY <1>16, <2>i, <1>a, <1>b, <1>h DEF Prepare, HolderKnowsStatus, WorkerOwnsRecord, Working
  <2>5. Advances(i)
    BY <1>f, <2>1
  <2>6. OthersKept(i)
    BY <1>e, <2>1, <2>3
  <2>7. ~Untold(i)'
    BY <1>g, <2>1, <2>4
  <2>. QED
    BY <2>1, <2>2, <2>5, <2>6, <2>7, Zenon DEF Goal, Tells
<1>17. CASE Start
  <2>1. UNCHANGED <<status, attempt, journal>>
    BY <1>17 DEF Start
  <2>2. /\ lock' = "recorded" => lock = "recorded" /\ subject' = subject
        /\ \A u \in Tasks : pc'[u] \in Telling => pc[u] \in Telling
    BY <1>17, <1>a DEF Start
  <2>. QED
    BY <1>d, <2>1, <2>2 DEF Goal, TellsNothing
<1>18. CASE ServeFromCache
  <2>i. PICK i \in Jobs : i = subject
    BY <1>18, <1>a DEF ServeFromCache, FromCache
  <2>1. /\ i \in Jobs
        /\ \A k \in Jobs \ {i} : status'[k] = status[k] /\ attempt'[k] = attempt[k]
        /\ status[i] \in Statuses /\ status'[i] \in Statuses
        /\ attempt'[i] = attempt[i] /\ status'[i] \in Repository!Transitions(status[i])
    BY <1>18, <2>i, <1>a, <1>b, <1>c DEF ServeFromCache, FromCache, HolderKnowsStatus, WorkerOwnsRecord, Working,
       Repository!Transitions
  <2>2. Publish(i, status'[i], attempt'[i])
    BY <1>18, <2>i, <1>a, <1>b DEF ServeFromCache, FromCache, Publish, HolderKnowsStatus, WorkerOwnsRecord, Working
  <2>3. /\ lock' = "recorded" => subject' = i \/ (lock = "recorded" /\ subject' = subject)
        /\ \A u \in Tasks : u[1] # i /\ pc'[u] \in Telling => pc[u] \in Telling
    BY <1>18, <2>i, <1>a DEF ServeFromCache, FromCache
  <2>4. /\ lock' # "recorded" \/ subject' # i
        /\ \A u \in Tasks : u[1] = i => pc'[u] \notin Telling
    BY <1>18, <2>i, <1>a, <1>b, <1>h DEF ServeFromCache, FromCache, HolderKnowsStatus, WorkerOwnsRecord, Working
  <2>5. Advances(i)
    BY <1>f, <2>1
  <2>6. OthersKept(i)
    BY <1>e, <2>1, <2>3
  <2>7. ~Untold(i)'
    BY <1>g, <2>1, <2>4
  <2>. QED
    BY <2>1, <2>2, <2>5, <2>6, <2>7, Zenon DEF Goal, Tells
<1>19. CASE LoopTop
  <2>1. UNCHANGED <<status, attempt, journal>>
    BY <1>19 DEF LoopTop
  <2>2. /\ lock' = "recorded" => lock = "recorded" /\ subject' = subject
        /\ \A u \in Tasks : pc'[u] \in Telling => pc[u] \in Telling
    BY <1>19, <1>a DEF LoopTop
  <2>. QED
    BY <1>d, <2>1, <2>2 DEF Goal, TellsNothing
<1>20. CASE LoopInner
  <2>1. UNCHANGED <<status, attempt, journal>>
    BY <1>20 DEF LoopInner
  <2>2. /\ lock' = "recorded" => lock = "recorded" /\ subject' = subject
        /\ \A u \in Tasks : pc'[u] \in Telling => pc[u] \in Telling
    BY <1>20, <1>a DEF LoopInner
  <2>. QED
    BY <1>d, <2>1, <2>2 DEF Goal, TellsNothing
<1>21. CASE LoopWait
  <2>1. UNCHANGED <<status, attempt, journal>>
    BY <1>21 DEF LoopWait
  <2>2. /\ lock' = "recorded" => lock = "recorded" /\ subject' = subject
        /\ \A u \in Tasks : pc'[u] \in Telling => pc[u] \in Telling
    BY <1>21, <1>a DEF LoopWait
  <2>. QED
    BY <1>d, <2>1, <2>2 DEF Goal, TellsNothing
<1>22. CASE LoopResume
  <2>1. UNCHANGED <<status, attempt, journal>>
    BY <1>22 DEF LoopResume
  <2>2. /\ lock' = "recorded" => lock = "recorded" /\ subject' = subject
        /\ \A u \in Tasks : pc'[u] \in Telling => pc[u] \in Telling
    BY <1>22, <1>a DEF LoopResume
  <2>. QED
    BY <1>d, <2>1, <2>2 DEF Goal, TellsNothing
<1>23. CASE LoopPause
  <2>1. UNCHANGED <<status, attempt, journal>>
    BY <1>23 DEF LoopPause
  <2>2. /\ lock' = "recorded" => lock = "recorded" /\ subject' = subject
        /\ \A u \in Tasks : pc'[u] \in Telling => pc[u] \in Telling
    BY <1>23, <1>a DEF LoopPause
  <2>. QED
    BY <1>d, <2>1, <2>2 DEF Goal, TellsNothing
<1>24. CASE LoopWake
  <2>1. UNCHANGED <<status, attempt, journal>>
    BY <1>24 DEF LoopWake
  <2>2. /\ lock' = "recorded" => lock = "recorded" /\ subject' = subject
        /\ \A u \in Tasks : pc'[u] \in Telling => pc[u] \in Telling
    BY <1>24, <1>a DEF LoopWake
  <2>. QED
    BY <1>d, <2>1, <2>2 DEF Goal, TellsNothing
<1>25. ASSUME NEW j \in Jobs, LaunchPop(j)
       PROVE  Goal
  <2>1. UNCHANGED <<status, attempt, journal>>
    BY <1>25 DEF LaunchPop
  <2>2. /\ lock' = "recorded" => lock = "recorded" /\ subject' = subject
        /\ \A u \in Tasks : pc'[u] \in Telling => pc[u] \in Telling
    BY <1>25, <1>a DEF LaunchPop
  <2>. QED
    BY <1>d, <2>1, <2>2 DEF Goal, TellsNothing
<1>26. ASSUME NEW t \in Tasks, ExecRun(t)
       PROVE  Goal
  <2>i. PICK i \in Jobs : i = t[1]
    BY <1>26, <1>a DEF ExecRun
  <2>0. \A u \in Tasks : u # t => pc'[u] = pc[u]
    BY <1>26, <1>a DEF ExecRun
  <2>1. /\ i \in Jobs
        /\ \A k \in Jobs \ {i} : status'[k] = status[k] /\ attempt'[k] = attempt[k]
        /\ status[i] \in Statuses /\ status'[i] \in Statuses
        /\ attempt'[i] = attempt[i] /\ status'[i] \in Repository!Transitions(status[i])
    BY <1>26, <2>i, <1>a, <1>b, <1>c DEF ExecRun, HolderKnowsStatus, WorkerOwnsRecord, Working,
       Repository!Transitions
  <2>2. Publish(i, status'[i], attempt'[i])
    BY <1>26, <2>i, <1>a, <1>b DEF ExecRun, Publish, HolderKnowsStatus, WorkerOwnsRecord, Working
  <2>3. /\ lock' = "recorded" => subject' = i \/ (lock = "recorded" /\ subject' = subject)
        /\ \A u \in Tasks : u[1] # i /\ pc'[u] \in Telling => pc[u] \in Telling
    <3>1. lock' = "recorded" => subject' = i \/ (lock = "recorded" /\ subject' = subject)
      BY <1>26 DEF ExecRun
    <3>. QED
      BY <2>0, <2>i, <3>1
  <2>4. /\ lock' # "recorded" \/ subject' # i
        /\ \A u \in Tasks : u[1] = i => pc'[u] \notin Telling
    BY <1>26, <2>i, <1>a, <1>b, <1>h DEF ExecRun, HolderKnowsStatus, WorkerOwnsRecord, Working
  <2>5. Advances(i)
    BY <1>f, <2>1
  <2>6. OthersKept(i)
    BY <1>e, <2>1, <2>3
  <2>7. ~Untold(i)'
    BY <1>g, <2>1, <2>4
  <2>. QED
    BY <2>1, <2>2, <2>5, <2>6, <2>7, Zenon DEF Goal, Tells
<1>27. ASSUME NEW t \in Tasks, ExecCheckpoint(t)
       PROVE  Goal
  <2>1. UNCHANGED <<status, attempt, journal>>
    BY <1>27 DEF ExecCheckpoint
  <2>2. /\ lock' = "recorded" => lock = "recorded" /\ subject' = subject
        /\ \A u \in Tasks : pc'[u] \in Telling => pc[u] \in Telling
    BY <1>27, <1>a DEF ExecCheckpoint
  <2>. QED
    BY <1>d, <2>1, <2>2 DEF Goal, TellsNothing
<1>28. ASSUME NEW t \in Tasks, DispatchReturned(t)
       PROVE  Goal
  <2>1. UNCHANGED <<status, attempt, journal>>
    BY <1>28 DEF DispatchReturned
  <2>2. /\ lock' = "recorded" => lock = "recorded" /\ subject' = subject
        /\ \A u \in Tasks : pc'[u] \in Telling => pc[u] \in Telling
    BY <1>28, <1>a DEF DispatchReturned
  <2>. QED
    BY <1>d, <2>1, <2>2 DEF Goal, TellsNothing
<1>29. ASSUME NEW t \in Tasks, DispatchCancelled(t)
       PROVE  Goal
  <2>1. UNCHANGED <<status, attempt, journal>>
    BY <1>29 DEF DispatchCancelled
  <2>2. /\ lock' = "recorded" => lock = "recorded" /\ subject' = subject
        /\ \A u \in Tasks : pc'[u] \in Telling => pc[u] \in Telling
    BY <1>29, <1>a DEF DispatchCancelled
  <2>. QED
    BY <1>d, <2>1, <2>2 DEF Goal, TellsNothing
<1>30. ASSUME NEW t \in Tasks, DispatchRetryable(t)
       PROVE  Goal
  <2>1. UNCHANGED <<status, attempt, journal>>
    BY <1>30 DEF DispatchRetryable
  <2>2. /\ lock' = "recorded" => lock = "recorded" /\ subject' = subject
        /\ \A u \in Tasks : pc'[u] \in Telling => pc[u] \in Telling
    BY <1>30, <1>a DEF DispatchRetryable
  <2>. QED
    BY <1>d, <2>1, <2>2 DEF Goal, TellsNothing
<1>31. ASSUME NEW t \in Tasks, DispatchFailed(t)
       PROVE  Goal
  <2>1. UNCHANGED <<status, attempt, journal>>
    BY <1>31 DEF DispatchFailed
  <2>2. /\ lock' = "recorded" => lock = "recorded" /\ subject' = subject
        /\ \A u \in Tasks : pc'[u] \in Telling => pc[u] \in Telling
    BY <1>31, <1>a DEF DispatchFailed
  <2>. QED
    BY <1>d, <2>1, <2>2 DEF Goal, TellsNothing
<1>32. ASSUME NEW t \in Tasks, ExecComplete(t)
       PROVE  Goal
  <2>. DEFINE i == t[1]
  <2>0. \A u \in Tasks : u # t => pc'[u] = pc[u]
    BY <1>32, <1>a DEF ExecComplete
  <2>1. /\ i \in Jobs /\ UNCHANGED journal
        /\ \A k \in Jobs \ {i} : status'[k] = status[k] /\ attempt'[k] = attempt[k]
        /\ status'[i] \in Statuses
        /\ \/ status[i] = "absent"
           \/ attempt'[i] = attempt[i] /\ status'[i] \in Repository!Transitions(status[i])
           \/ attempt'[i] = attempt[i] + 1
    BY <1>32, <1>a, <1>b, <1>c DEF ExecComplete, WorkerOwnsRecord, Working, Repository!Transitions
  <2>2. /\ lock' = "recorded" => subject' = i \/ (lock = "recorded" /\ subject' = subject)
        /\ \A u \in Tasks : u[1] # i /\ pc'[u] \in Telling => pc[u] \in Telling
    <3>1. lock' = "recorded" => subject' = i \/ (lock = "recorded" /\ subject' = subject)
      BY <1>32 DEF ExecComplete
    <3>. QED
      BY <2>0, <3>1
  <2>. HIDE DEF i
  <2>3. OthersKept(i) /\ Advances(i)
    BY <1>e, <1>f, <2>1, <2>2
  <2>. QED
    BY <2>1, <2>3, Zenon DEF Goal, Writes
<1>33. ASSUME NEW t \in Tasks, ExecCancel(t)
       PROVE  Goal
  <2>. DEFINE i == t[1]
  <2>0. \A u \in Tasks : u # t => pc'[u] = pc[u]
    BY <1>33, <1>a DEF ExecCancel, ExecAbort
  <2>1. /\ i \in Jobs /\ UNCHANGED journal
        /\ \A k \in Jobs \ {i} : status'[k] = status[k] /\ attempt'[k] = attempt[k]
        /\ status'[i] \in Statuses
        /\ \/ status[i] = "absent"
           \/ attempt'[i] = attempt[i] /\ status'[i] \in Repository!Transitions(status[i])
           \/ attempt'[i] = attempt[i] + 1
    BY <1>33, <1>a, <1>b, <1>c DEF ExecCancel, ExecAbort, WorkerOwnsRecord, Working, Repository!Transitions
  <2>2. /\ lock' = "recorded" => subject' = i \/ (lock = "recorded" /\ subject' = subject)
        /\ \A u \in Tasks : u[1] # i /\ pc'[u] \in Telling => pc[u] \in Telling
    <3>1. lock' = "recorded" => subject' = i \/ (lock = "recorded" /\ subject' = subject)
      BY <1>33 DEF ExecCancel, ExecAbort
    <3>. QED
      BY <2>0, <3>1
  <2>. HIDE DEF i
  <2>3. OthersKept(i) /\ Advances(i)
    BY <1>e, <1>f, <2>1, <2>2
  <2>. QED
    BY <2>1, <2>3, Zenon DEF Goal, Writes
<1>34. ASSUME NEW t \in Tasks, ExecFail(t)
       PROVE  Goal
  <2>. DEFINE i == t[1]
  <2>0. \A u \in Tasks : u # t => pc'[u] = pc[u]
    BY <1>34, <1>a DEF ExecFail, ExecAbort
  <2>1. /\ i \in Jobs /\ UNCHANGED journal
        /\ \A k \in Jobs \ {i} : status'[k] = status[k] /\ attempt'[k] = attempt[k]
        /\ status'[i] \in Statuses
        /\ \/ status[i] = "absent"
           \/ attempt'[i] = attempt[i] /\ status'[i] \in Repository!Transitions(status[i])
           \/ attempt'[i] = attempt[i] + 1
    BY <1>34, <1>a, <1>b, <1>c DEF ExecFail, ExecAbort, WorkerOwnsRecord, Working, Repository!Transitions
  <2>2. /\ lock' = "recorded" => subject' = i \/ (lock = "recorded" /\ subject' = subject)
        /\ \A u \in Tasks : u[1] # i /\ pc'[u] \in Telling => pc[u] \in Telling
    <3>1. lock' = "recorded" => subject' = i \/ (lock = "recorded" /\ subject' = subject)
      BY <1>34 DEF ExecFail, ExecAbort
    <3>. QED
      BY <2>0, <3>1
  <2>. HIDE DEF i
  <2>3. OthersKept(i) /\ Advances(i)
    BY <1>e, <1>f, <2>1, <2>2
  <2>. QED
    BY <2>1, <2>3, Zenon DEF Goal, Writes
<1>35. ASSUME NEW t \in Tasks, BackoffOver(t)
       PROVE  Goal
  <2>1. UNCHANGED <<status, attempt, journal>>
    BY <1>35 DEF BackoffOver
  <2>2. /\ lock' = "recorded" => lock = "recorded" /\ subject' = subject
        /\ \A u \in Tasks : pc'[u] \in Telling => pc[u] \in Telling
    BY <1>35, <1>a DEF BackoffOver
  <2>. QED
    BY <1>d, <2>1, <2>2 DEF Goal, TellsNothing
<1>36. ASSUME NEW t \in Tasks, RetryRefused(t)
       PROVE  Goal
  <2>. DEFINE i == t[1]
  <2>0. \A u \in Tasks : u # t => pc'[u] = pc[u]
    BY <1>36, <1>a DEF RetryRefused
  <2>1. /\ i \in Jobs /\ UNCHANGED journal
        /\ \A k \in Jobs \ {i} : status'[k] = status[k] /\ attempt'[k] = attempt[k]
        /\ status'[i] \in Statuses
        /\ \/ status[i] = "absent"
           \/ attempt'[i] = attempt[i] /\ status'[i] \in Repository!Transitions(status[i])
           \/ attempt'[i] = attempt[i] + 1
    BY <1>36, <1>a, <1>b, <1>c DEF RetryRefused, WorkerOwnsRecord, Working, Repository!Transitions
  <2>2. /\ lock' = "recorded" => subject' = i \/ (lock = "recorded" /\ subject' = subject)
        /\ \A u \in Tasks : u[1] # i /\ pc'[u] \in Telling => pc[u] \in Telling
    <3>1. lock' = "recorded" => subject' = i \/ (lock = "recorded" /\ subject' = subject)
      BY <1>36 DEF RetryRefused
    <3>. QED
      BY <2>0, <3>1
  <2>. HIDE DEF i
  <2>3. OthersKept(i) /\ Advances(i)
    BY <1>e, <1>f, <2>1, <2>2
  <2>. QED
    BY <2>1, <2>3, Zenon DEF Goal, Writes
<1>37. ASSUME NEW t \in Tasks, RetryRecorded(t)
       PROVE  Goal
  <2>. DEFINE i == t[1]
  <2>0. \A u \in Tasks : u # t => pc'[u] = pc[u]
    BY <1>37, <1>a DEF RetryRecorded
  <2>1. /\ i \in Jobs /\ UNCHANGED journal
        /\ \A k \in Jobs \ {i} : status'[k] = status[k] /\ attempt'[k] = attempt[k]
        /\ status'[i] \in Statuses
        /\ \/ status[i] = "absent"
           \/ attempt'[i] = attempt[i] /\ status'[i] \in Repository!Transitions(status[i])
           \/ attempt'[i] = attempt[i] + 1
    BY <1>37, <1>a, <1>b, <1>c DEF RetryRecorded, WorkerOwnsRecord, Working, Repository!Transitions
  <2>2. /\ lock' = "recorded" => subject' = i \/ (lock = "recorded" /\ subject' = subject)
        /\ \A u \in Tasks : u[1] # i /\ pc'[u] \in Telling => pc[u] \in Telling
    <3>1. lock' = "recorded" => subject' = i \/ (lock = "recorded" /\ subject' = subject)
      BY <1>37 DEF RetryRecorded
    <3>. QED
      BY <2>0, <3>1
  <2>. HIDE DEF i
  <2>3. OthersKept(i) /\ Advances(i)
    BY <1>e, <1>f, <2>1, <2>2
  <2>. QED
    BY <2>1, <2>3, Zenon DEF Goal, Writes
<1>38. ASSUME NEW t \in Tasks, RetryQueued(t)
       PROVE  Goal
  <2>i. PICK i \in Jobs : i = t[1]
    BY <1>38, <1>a DEF RetryQueued
  <2>0. \A u \in Tasks : u # t => pc'[u] = pc[u]
    BY <1>38, <1>a DEF RetryQueued
  <2>1. /\ i \in Jobs
        /\ \A k \in Jobs \ {i} : status'[k] = status[k] /\ attempt'[k] = attempt[k]
        /\ status[i] \in Statuses /\ status'[i] \in Statuses
        /\ attempt'[i] = attempt[i] /\ status'[i] = status[i]
    BY <1>38, <2>i, <1>a, <1>b, <1>c DEF RetryQueued, HolderKnowsStatus, WorkerOwnsRecord, Working,
       Repository!Transitions
  <2>2. Publish(i, status'[i], attempt'[i])
    BY <1>38, <2>i, <1>a, <1>b DEF RetryQueued, Publish, HolderKnowsStatus, WorkerOwnsRecord, Working
  <2>3. /\ lock' = "recorded" => subject' = i \/ (lock = "recorded" /\ subject' = subject)
        /\ \A u \in Tasks : u[1] # i /\ pc'[u] \in Telling => pc[u] \in Telling
    <3>1. lock' = "recorded" => subject' = i \/ (lock = "recorded" /\ subject' = subject)
      BY <1>38 DEF RetryQueued
    <3>. QED
      BY <2>0, <2>i, <3>1
  <2>4. /\ lock' # "recorded" \/ subject' # i
        /\ \A u \in Tasks : u[1] = i => pc'[u] \notin Telling
    BY <1>38, <2>i, <1>a, <1>b, <1>h DEF RetryQueued, HolderKnowsStatus, WorkerOwnsRecord, Working
  <2>5. Untold(i)
    BY <1>38, <2>i, <1>a DEF RetryQueued, Untold
  <2>6. OthersKept(i)
    BY <1>e, <2>1, <2>3
  <2>7. ~Untold(i)'
    BY <1>g, <2>1, <2>4
  <2>. QED
    BY <2>1, <2>2, <2>5, <2>6, <2>7, Zenon DEF Goal, Tells
<1>39. ASSUME NEW t \in Tasks, ExecClose(t)
       PROVE  Goal
  <2>i. PICK i \in Jobs : i = t[1]
    BY <1>39, <1>a DEF ExecClose, Finally
  <2>0. \A u \in Tasks : u # t => pc'[u] = pc[u]
    BY <1>39, <1>a DEF ExecClose, Finally
  <2>1. /\ i \in Jobs
        /\ \A k \in Jobs \ {i} : status'[k] = status[k] /\ attempt'[k] = attempt[k]
        /\ status[i] \in Statuses /\ status'[i] \in Statuses
        /\ attempt'[i] = attempt[i] /\ status'[i] = status[i]
    BY <1>39, <2>i, <1>a, <1>b, <1>c DEF ExecClose, Finally, HolderKnowsStatus, WorkerOwnsRecord, Working,
       Repository!Transitions
  <2>2. Publish(i, status'[i], attempt'[i])
    BY <1>39, <2>i, <1>a, <1>b DEF ExecClose, Finally, Publish, HolderKnowsStatus, WorkerOwnsRecord, Working
  <2>3. /\ lock' = "recorded" => subject' = i \/ (lock = "recorded" /\ subject' = subject)
        /\ \A u \in Tasks : u[1] # i /\ pc'[u] \in Telling => pc[u] \in Telling
    <3>1. lock' = "recorded" => subject' = i \/ (lock = "recorded" /\ subject' = subject)
      BY <1>39 DEF ExecClose, Finally
    <3>. QED
      BY <2>0, <2>i, <3>1
  <2>4. /\ lock' # "recorded" \/ subject' # i
        /\ \A u \in Tasks : u[1] = i => pc'[u] \notin Telling
    BY <1>39, <2>i, <1>a, <1>b, <1>h DEF ExecClose, Finally, HolderKnowsStatus, WorkerOwnsRecord, Working
  <2>5. Untold(i)
    BY <1>39, <2>i, <1>a DEF ExecClose, Finally, Untold
  <2>6. OthersKept(i)
    BY <1>e, <2>1, <2>3
  <2>7. ~Untold(i)'
    BY <1>g, <2>1, <2>4
  <2>. QED
    BY <2>1, <2>2, <2>5, <2>6, <2>7, Zenon DEF Goal, Tells
<1>40. ASSUME NEW t \in Tasks, ExecRefused(t)
       PROVE  Goal
  <2>i. PICK i \in Jobs : i = t[1]
    BY <1>40, <1>a DEF ExecRefused, Finally
  <2>0. \A u \in Tasks : u # t => pc'[u] = pc[u]
    BY <1>40, <1>a DEF ExecRefused, Finally
  <2>1. /\ i \in Jobs
        /\ \A k \in Jobs \ {i} : status'[k] = status[k] /\ attempt'[k] = attempt[k]
        /\ status[i] \in Statuses /\ status'[i] \in Statuses
        /\ attempt'[i] = attempt[i] /\ status'[i] = status[i]
    BY <1>40, <2>i, <1>a, <1>b, <1>c DEF ExecRefused, Finally, HolderKnowsStatus, WorkerOwnsRecord, Working,
       Repository!Transitions
  <2>2. Publish(i, status'[i], attempt'[i])
    BY <1>40, <2>i, <1>a, <1>b DEF ExecRefused, Finally, Publish, HolderKnowsStatus, WorkerOwnsRecord, Working
  <2>3. /\ lock' = "recorded" => subject' = i \/ (lock = "recorded" /\ subject' = subject)
        /\ \A u \in Tasks : u[1] # i /\ pc'[u] \in Telling => pc[u] \in Telling
    <3>1. lock' = "recorded" => subject' = i \/ (lock = "recorded" /\ subject' = subject)
      BY <1>40 DEF ExecRefused, Finally
    <3>. QED
      BY <2>0, <2>i, <3>1
  <2>4. /\ lock' # "recorded" \/ subject' # i
        /\ \A u \in Tasks : u[1] = i => pc'[u] \notin Telling
    BY <1>40, <2>i, <1>a, <1>b, <1>h DEF ExecRefused, Finally, HolderKnowsStatus, WorkerOwnsRecord, Working
  <2>5. Untold(i)
    BY <1>40, <2>i, <1>a DEF ExecRefused, Finally, Untold
  <2>6. OthersKept(i)
    BY <1>e, <2>1, <2>3
  <2>7. ~Untold(i)'
    BY <1>g, <2>1, <2>4
  <2>. QED
    BY <2>1, <2>2, <2>5, <2>6, <2>7, Zenon DEF Goal, Tells
<1>41. ASSUME NEW t \in Tasks, ExecRequeued(t)
       PROVE  Goal
  <2>1. UNCHANGED <<status, attempt, journal>>
    BY <1>41 DEF ExecRequeued, Finally
  <2>2. /\ lock' = "recorded" => lock = "recorded" /\ subject' = subject
        /\ \A u \in Tasks : pc'[u] \in Telling => pc[u] \in Telling
    BY <1>41, <1>a DEF ExecRequeued, Finally
  <2>. QED
    BY <1>d, <2>1, <2>2 DEF Goal, TellsNothing
<1>42. CASE UNCHANGED vars
  <2>1. TellsNothing
    BY <1>42, <1>d DEF vars, TellsNothing
  <2>. QED
    BY <2>1 DEF Goal
<1>. QED
  BY <1>1, <1>2, <1>3, <1>4, <1>5, <1>6, <1>7, <1>8, <1>9, <1>10, <1>11, <1>12, <1>13,
     <1>14, <1>15, <1>16, <1>17, <1>18, <1>19, <1>20, <1>21, <1>22, <1>23, <1>24, <1>25,
     <1>26, <1>27, <1>28, <1>29, <1>30, <1>31, <1>32, <1>33, <1>34, <1>35, <1>36, <1>37,
     <1>38, <1>39, <1>40, <1>41, <1>42
  DEF Next, ClientCall, ClientStep, LoopStep, LaunchStep, ExecutorStep, Goal

\* A position that is later than the last one may be published.
LEMMA PublishInOrder ==
  ASSUME journal \in [Jobs -> Seq(Events)], JournalIsMonotone,
         NEW j \in Jobs, NEW s \in Statuses, NEW a \in Attempts, Publish(j, s, a),
         LastPosition(j) < Repository!MonotonicPosition(s, a)
  PROVE  /\ JournalIsMonotone'
         /\ LastPosition(j)' = Repository!MonotonicPosition(s, a)
         /\ \A i \in Jobs \ {j} : journal'[i] = journal[i]
<1>. DEFINE e == [name |-> s, attempt |-> a]
            old == journal[j]
            n == Len(old)
            P(x) == Repository!MonotonicPosition(x.name, x.attempt)
<1>0. e \in Events
  BY DEF Events
<1>1. old \in Seq(Events) /\ e \in Events /\ n \in Nat
  BY <1>0
<1>2. journal'[j] = Append(old, e) /\ \A i \in Jobs \ {j} : journal'[i] = journal[i]
  BY DEF Publish
<1>3. /\ Len(journal'[j]) = n + 1 /\ journal'[j] # <<>>
      /\ \A i \in 1 .. n : journal'[j][i] = old[i]
      /\ journal'[j][n + 1] = e
  <2>. HIDE DEF e, old
  <2>. QED
    BY <1>1, <1>2 DEF n
<1>4. P(e) = Repository!MonotonicPosition(s, a)
  OBVIOUS
<1>5. n > 0 => P(old[n]) < P(e)
  BY <1>1, <1>4 DEF LastPosition
<1>6. LastPosition(j)' = P(e)
  BY <1>3 DEF LastPosition
<1>7. ASSUME NEW i \in 1 .. n PROVE P(journal'[j][i]) < P(journal'[j][i + 1])
  <2>1. CASE i = n
    BY <1>1, <1>3, <1>5, <2>1
  <2>2. CASE i < n
    <3>1. i \in 1 .. n - 1 /\ i + 1 \in 1 .. n
      BY <1>1, <2>2
    <3>2. P(old[i]) < P(old[i + 1])
      BY <3>1 DEF JournalIsMonotone
    <3>. QED
      BY <1>3, <3>1, <3>2
  <2>. QED
    BY <1>1, <2>1, <2>2
<1>8. JournalIsMonotone'
  <2>. SUFFICES ASSUME NEW k \in Jobs, NEW i \in 1 .. Len(journal'[k]) - 1
                PROVE  P(journal'[k][i]) < P(journal'[k][i + 1])
    BY DEF JournalIsMonotone
  <2>1. CASE k = j
    BY <1>1, <1>3, <1>7, <2>1
  <2>2. CASE k # j
    <3>1. journal'[k] = journal[k]
      BY <1>2, <2>2
    <3>. QED
      BY <3>1 DEF JournalIsMonotone
  <2>. QED
    BY <2>1, <2>2
<1>. QED
  BY <1>2, <1>4, <1>6, <1>8

\* Positions are numbers.
LEMMA LastIsNumber ==
  ASSUME journal \in [Jobs -> Seq(Events)], NEW j \in Jobs
  PROVE  LastPosition(j) \in Int /\ (journal[j] = <<>> => LastPosition(j) = -1)
<1>1. \A s, a : a \in Nat => Repository!MonotonicPosition(s, a) \in Nat
  BY DEF Repository!MonotonicPosition, Repository!StatusPosition
<1>2. CASE journal[j] # <<>>
  <2>1. Len(journal[j]) \in 1 .. Len(journal[j])
    BY <1>2
  <2>2. journal[j][Len(journal[j])] \in Events
    BY <2>1
  <2>3. journal[j][Len(journal[j])].attempt \in Nat
    BY <2>2, SchedulerAssumption DEF Events, Attempts
  <2>. QED
    BY <1>1, <1>2, <2>3 DEF LastPosition
<1>. QED
  BY <1>2 DEF LastPosition

\* The journal is written behind the record and never before it.
LEMMA JournalFollowsStep ==
  ASSUME IInv, IInv', JInv, TellsNothing \/ \E j \in Jobs : Writes(j) \/ Tells(j)
  PROVE  JournalFollows' /\ JournalIsMonotone'
<1>a. /\ journal \in [Jobs -> Seq(Events)] /\ journal' \in [Jobs -> Seq(Events)]
      /\ status \in [Jobs -> Statuses \cup {"absent"}]
      /\ attempt \in [Jobs -> Attempts] /\ attempt' \in [Jobs -> Attempts]
      /\ "absent" \notin Statuses
      /\ JournalFollows /\ JournalIsMonotone
  BY DEF IInv, TypeOK, JInv, Statuses
<1>b. \A i \in Jobs : LastPosition(i) \in Int /\ (journal[i] = <<>> => LastPosition(i) = -1)
  BY <1>a, LastIsNumber
<1>c. \A i \in Jobs : RecordPosition(i) \in Nat /\ RecordPosition(i)' \in Nat
  <2>1. \A s : Repository!StatusPosition(s) \in 0 .. 3
    BY DEF Repository!StatusPosition
  <2>2. \A i \in Jobs : attempt[i] \in Nat /\ attempt'[i] \in Nat
    BY <1>a, SchedulerAssumption DEF Attempts
  <2>. QED
    BY <2>1, <2>2 DEF RecordPosition, Repository!MonotonicPosition
<1>d. ASSUME NEW i \in Jobs, journal'[i] = journal[i], status'[i] = status[i], attempt'[i] = attempt[i]
      PROVE  LastPosition(i)' = LastPosition(i) /\ RecordPosition(i)' = RecordPosition(i)
  BY <1>d DEF LastPosition, RecordPosition
<1>e. ASSUME NEW i \in Jobs, journal'[i] = journal[i], status'[i] = status[i], attempt'[i] = attempt[i],
             Untold(i)' => Untold(i)
      PROVE  /\ status'[i] = "absent" => journal'[i] = <<>>
             /\ status'[i] # "absent" => LastPosition(i)' <= RecordPosition(i)'
             /\ Untold(i)' => LastPosition(i)' < RecordPosition(i)'
  BY <1>a, <1>d, <1>e DEF JournalFollows
<1>1. CASE TellsNothing
  <2>1. JournalIsMonotone'
    BY <1>1, <1>a DEF TellsNothing, JournalIsMonotone
  <2>. QED
    BY <1>1, <1>e, <2>1 DEF TellsNothing, JournalFollows
<1>2. ASSUME NEW j \in Jobs, Writes(j) PROVE JournalFollows' /\ JournalIsMonotone'
  <2>1. JournalIsMonotone'
    BY <1>2, <1>a DEF Writes, JournalIsMonotone
  <2>2. LastPosition(j)' = LastPosition(j) /\ status'[j] # "absent"
    BY <1>2, <1>a DEF Writes, Advances, LastPosition
  <2>3. LastPosition(j)' < RecordPosition(j)'
    BY <1>2, <1>a, <1>b, <1>c, <2>2 DEF Writes, Advances, JournalFollows
  <2>4. LastPosition(j)' <= RecordPosition(j)'
    BY <1>b, <1>c, <2>2, <2>3
  <2>. QED
    BY <1>2, <1>e, <2>1, <2>2, <2>3, <2>4 DEF Writes, OthersKept, JournalFollows
<1>3. ASSUME NEW j \in Jobs, Tells(j) PROVE JournalFollows' /\ JournalIsMonotone'
  <2>1. LastPosition(j) < RecordPosition(j)'
    <3>1. CASE Advances(j)
      BY <1>3, <3>1, <1>a, <1>b, <1>c DEF Tells, Advances, JournalFollows
    <3>2. CASE Untold(j) /\ status'[j] = status[j] /\ attempt'[j] = attempt[j]
      BY <3>2, <1>a DEF JournalFollows, RecordPosition
    <3>. QED
      BY <1>3, <3>1, <3>2 DEF Tells
  <2>2. status'[j] \in Statuses /\ attempt'[j] \in Attempts /\ Publish(j, status'[j], attempt'[j])
    BY <1>3, <1>a DEF Tells
  <2>3. PICK s \in Statuses, a \in Attempts : s = status'[j] /\ a = attempt'[j]
    BY <2>2
  <2>4. Publish(j, s, a) /\ LastPosition(j) < Repository!MonotonicPosition(s, a)
    BY <2>1, <2>2, <2>3 DEF RecordPosition
  <2>5. /\ JournalIsMonotone' /\ LastPosition(j)' = Repository!MonotonicPosition(s, a)
        /\ \A i \in Jobs \ {j} : journal'[i] = journal[i]
    BY <1>a, <2>4, PublishInOrder
  <2>6. LastPosition(j)' = RecordPosition(j)'
    BY <2>3, <2>5 DEF RecordPosition
  <2>7. LastPosition(j)' <= RecordPosition(j)' /\ ~Untold(j)' /\ status'[j] # "absent"
    BY <1>3, <1>a, <1>c, <2>2, <2>6 DEF Tells
  <2>. QED
    BY <1>3, <1>e, <2>5, <2>7 DEF Tells, OthersKept, JournalFollows
<1>. QED
  BY <1>1, <1>2, <1>3

\* The events of a job are published in the order of its history, one
\* terminal event for each attempt, unless a manual retry meets a store that
\* suspends between the record and the journal.
THEOREM JournalsAreMonotone == ASSUME Exclusion PROVE Spec => []JournalIsMonotone
<1>1. ASSUME Init PROVE JInv
  <2>1. \A j \in Jobs : journal[j] = <<>> /\ ~Untold(j)
    BY <1>1 DEF Init, Untold, Telling, Terminal, Tasks
  <2>2. JournalIsMonotone
    <3>1. Len(<<>>) - 1 = -1 /\ 1 .. -1 = {}
      OBVIOUS
    <3>. QED
      BY <2>1, <3>1 DEF JournalIsMonotone
  <2>. QED
    BY <1>1, <2>1, <2>2 DEF Init, JInv, RefusedIsFailed, JournalFollows, Tasks
<1>2. ASSUME IInv, IInv', RInv, JInv, [Next]_vars PROVE JInv'
  <2>1. RefusedIsFailed'
    BY <1>2, RefusedStep DEF JInv
  <2>2. JournalFollows' /\ JournalIsMonotone'
    BY <1>2, TellingStep, JournalFollowsStep DEF JInv
  <2>. QED
    BY <2>1, <2>2 DEF JInv
<1>3. JInv => JournalIsMonotone
  BY DEF JInv
<1>. QED
  BY <1>1, <1>2, <1>3, Invariance, RegistrationInvariance, PTL DEF Spec

=============================================================================
