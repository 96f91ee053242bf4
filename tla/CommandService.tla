---------------------------- MODULE CommandService ----------------------------
(***************************************************************************)
(* What a worker supervisor promises of the commands requested of it       *)
(* (src/comfyng/workers/supervisor.py): each is worked on once at most,    *)
(* one at a time, and its caller is told the truth about it.  Who is       *)
(* refused, or told of a crash, may request the same work again: nothing   *)
(* is left of it.  Who is told of a timeout or a stop may not rely on it.  *)
(* Processes, generations, pipes and restarts are not seen.                *)
(***************************************************************************)
CONSTANT Commands

VARIABLES
  work,   \* what has become of each command, in whichever worker
  told    \* what its caller has been told

vars == <<work, told>>

Reports == {"result", "error", "cancelled"}
Refusals == {"unavailable", "circuit", "busy", "unsent"}
Breaches == {"crashed", "stopped", "timeout"}

Init ==
  /\ work = [c \in Commands |-> "none"]
  /\ told = [c \in Commands |-> "pending"]

Refuse(c) ==
  /\ told[c] = "pending" /\ work[c] = "none"
  /\ \E answer \in Refusals : told' = [told EXCEPT ![c] = answer]
  /\ UNCHANGED work

Order(c) ==
  /\ told[c] = "pending" /\ work[c] = "none"
  /\ work' = [work EXCEPT ![c] = "ordered"]
  /\ UNCHANGED told

Start(c) ==
  /\ work[c] = "ordered"
  /\ \A other \in Commands : work[other] # "working"
  /\ work' = [work EXCEPT ![c] = "working"]
  /\ UNCHANGED told

(* A worker that is busy with what its caller gave up answers with an      *)
(* error.                                                                  *)
Finish(c) ==
  /\ \E report \in Reports :
       /\ work[c] = "working" \/ (work[c] = "ordered" /\ report = "error")
       /\ work' = [work EXCEPT ![c] = report]
  /\ UNCHANGED told

(* A worker dies with all that it has not answered.                        *)
Lose ==
  /\ \E lost \in SUBSET {c \in Commands : work[c] \notin {"none", "gone", told[c]}} :
       work' = [c \in Commands |-> IF c \in lost THEN "gone" ELSE work[c]]
  /\ UNCHANGED told

Tell(c) ==
  /\ told[c] = "pending" /\ work[c] # "none"
  /\ \E answer \in Reports \cup Breaches :
       /\ answer \in Reports => work[c] = answer
       /\ answer = "crashed" => work[c] = "gone"
       /\ told' = [told EXCEPT ![c] = answer]
  /\ UNCHANGED work

(* A report that comes after the deadline is dropped.                      *)
TellLate(c) ==
  /\ told[c] = "pending" /\ work[c] \in Reports
  /\ told' = [told EXCEPT ![c] = "timeout"]
  /\ work' = [work EXCEPT ![c] = "gone"]

Next ==
  \/ \E c \in Commands : Refuse(c) \/ Order(c) \/ Start(c) \/ Finish(c) \/ Tell(c) \/ TellLate(c)
  \/ Lose

Spec == Init /\ [][Next]_vars

================================================================================
