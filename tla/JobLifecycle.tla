---------------------------- MODULE JobLifecycle ----------------------------
(***************************************************************************)
(* What a job repository (src/comfyng/core/jobs.py) promises about the     *)
(* records it keeps.  InMemoryJobRepository and SqliteJobRepository share  *)
(* the two pure functions _transition_record and _retry_record and apply   *)
(* them atomically, so one module stands for both.  A record is reduced to *)
(* its status and its attempt; timestamps, payloads and the error and      *)
(* result columns follow the status.                                       *)
(*                                                                         *)
(* Scheduler.tla is shown to implement this module: no write of the        *)
(* scheduler ever meets a JobTransitionConflict or InvalidJobTransition.   *)
(***************************************************************************)
EXTENDS Naturals

CONSTANTS
  Jobs,         \* identifiers of the jobs that clients submit
  MaxAttempts   \* JobSubmission.max_attempts

ASSUME MaxAttemptsAssumption == MaxAttempts \in Nat \ {0}

VARIABLES
  status,       \* JobRecord.status, or "absent" before create()
  attempt       \* JobRecord.attempt

vars == <<status, attempt>>

Attempts == 0 .. MaxAttempts - 1

Statuses == {"queued", "preparing", "running", "completed", "failed", "cancelled"}

Terminal == {"completed", "failed", "cancelled"}

\* _TRANSITIONS: the statuses a compare-and-set from s may reach.
Transitions(s) ==
  CASE s = "queued"    -> {"preparing", "failed", "cancelled"}
    [] s = "preparing" -> {"running", "failed", "cancelled"}
    [] s = "running"   -> {"completed", "failed", "cancelled"}
    [] OTHER           -> {}

\* _STATUS_POSITION
StatusPosition(s) ==
  CASE s = "queued"    -> 0
    [] s = "preparing" -> 1
    [] s = "running"   -> 2
    [] OTHER           -> 3

\* JobRecord.monotonic_position
MonotonicPosition(s, a) == 4 * a + StatusPosition(s)

TypeOK ==
  /\ status \in [Jobs -> Statuses \cup {"absent"}]
  /\ attempt \in [Jobs -> Attempts]

Init ==
  /\ status = [j \in Jobs |-> "absent"]
  /\ attempt = [j \in Jobs |-> 0]

\* create(): a new identifier enters the repository as QUEUED, attempt 0.
Create(j) ==
  /\ status[j] = "absent"
  /\ status' = [status EXCEPT ![j] = "queued"]
  /\ UNCHANGED attempt

\* transition(): the caller names the status it expects; a stale caller is
\* refused (JobTransitionConflict) and the record is left alone.
Transition(j, expected, target) ==
  /\ status[j] = expected
  /\ target \in Transitions(expected)
  /\ status' = [status EXCEPT ![j] = target]
  /\ UNCHANGED attempt

\* Fault: the record goes back to QUEUED under the same attempt.
RetrySameAttempt(j, expected) ==
  /\ status[j] = expected
  /\ expected \in {"failed", "preparing", "running"}
  /\ attempt[j] + 1 < MaxAttempts
  /\ status' = [status EXCEPT ![j] = "queued"]
  /\ UNCHANGED attempt

\* retry(): a failed or in-flight attempt is replaced by a new QUEUED one
\* while the budget lasts.
Retry(j, expected) ==
  /\ status[j] = expected
  /\ expected \in {"failed", "preparing", "running"}
  /\ attempt[j] + 1 < MaxAttempts
  /\ status' = [status EXCEPT ![j] = "queued"]
  /\ attempt' = [attempt EXCEPT ![j] = @ + 1]

Next ==
  \E j \in Jobs :
    \/ Create(j)
    \/ \E expected, target \in Statuses : Transition(j, expected, target)
    \/ \E expected \in Statuses : Retry(j, expected)

Spec == Init /\ [][Next]_vars

-----------------------------------------------------------------------------
(* Whatever sequence of calls a repository receives, the position of a     *)
(* record strictly increases with each accepted write, also across retry   *)
(* attempts: JobRecord.monotonic_position is a valid optimistic version.   *)
PositionIncreases ==
  \A j \in Jobs :
    /\ status[j] # "absent"
    /\ <<status[j], attempt[j]>>' # <<status[j], attempt[j]>>
    => MonotonicPosition(status[j], attempt[j])
         < MonotonicPosition(status'[j], attempt'[j])

RecordsAreMonotone == [][PositionIncreases]_vars

(* A success or a cancellation is final: no later transition or retry,     *)
(* however stale its caller, can touch such a record again.                *)
OutcomeIsFinal ==
  \A j \in Jobs :
    status[j] \in {"completed", "cancelled"} =>
      <<status[j], attempt[j]>>' = <<status[j], attempt[j]>>

OutcomesAreFinal == [][OutcomeIsFinal]_vars

(* Records only advance: both of the above.                                *)
RecordsAdvance == [][PositionIncreases /\ OutcomeIsFinal]_vars

=============================================================================
