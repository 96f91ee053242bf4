--------------------------- MODULE WorkerSupervisor ---------------------------
(***************************************************************************)
(* One supervised worker: the supervisor's record of it                    *)
(* (src/comfyng/workers/supervisor.py) with the threads that share it, and *)
(* the worker processes it spawns (src/comfyng/runtime/entrypoint.py).     *)
(*                                                                         *)
(* Threads: one per request, the monitor (which start() precedes with the  *)
(* first spawn), and one that calls stop().  record.condition is an RLock  *)
(* around every access to the record, so each stretch under it, up to a    *)
(* wait, is one action; spawning, terminating and joining happen outside.  *)
(*                                                                         *)
(* Processes are numbered by generation.  Heartbeats carry no information  *)
(* but that the worker lives: an expired watchdog is a choice, and "busy"  *)
(* and "ready" are one status.                                             *)
(***************************************************************************)
EXTENDS Naturals, Sequences, FiniteSets

CONSTANTS
  Commands,       \* one request each: EXECUTE, or UNLOAD, which is answered alike
  RestartLimit,   \* WorkerSpec.restart_limit
  MaxGeneration,  \* bound: workers spawned although the window lets go of restarts
  NoCommand       \* the worker is idle

ASSUME SupervisorAssumption ==
  /\ RestartLimit \in Nat
  /\ MaxGeneration \in Nat /\ MaxGeneration > RestartLimit
  /\ NoCommand \notin Commands

Generations == 1 .. MaxGeneration
None == 0     \* no transport, no reason for a restart

VARIABLES
  status, ready, circuitOpen, stopRequested, transport, generation,
  pending,     \* commands sent and not answered
  outcomes,    \* answers not collected yet
  force,       \* force_restart_reason: the generation the reason is about
  restarts,    \* length of restart_times
  monitor,     \* where the monitor (or start()) stands
  handled,     \* the transport it works on
  process,     \* state of each worker process
  active,      \* the command its execution thread works on
  cancelling,  \* workers whose active command has been told to stop
  inbox,       \* commands in the pipe to a worker
  outbox,      \* events in the pipe from a worker
  closed,      \* transports whose connection the supervisor closed
  call,        \* where a request stands, or how it ended
  via,         \* the transport a request was sent on
  stopper,     \* where stop() stands
  stopping     \* the transport stop() works on

flags  == <<status, ready, circuitOpen, stopRequested>>
answers == <<pending, outcomes>>
wires  == <<inbox, outbox>>
workers == <<process, active, cancelling>>
watch  == <<monitor, handled>>
calls  == <<call, via>>
stops  == <<stopper, stopping>>
vars == <<status, ready, circuitOpen, stopRequested, transport, generation, pending, outcomes,
          force, restarts, monitor, handled, process, active, cancelling, inbox, outbox, closed,
          call, via, stopper, stopping>>

Statuses == {"starting", "ready", "failed", "restarting", "circuit_open", "stopping", "stopped",
             "absent"}   \* start() failed and dropped the record
Outcomes == {"result", "error", "cancelled", "crashed", "stopped"}
Answers == Outcomes \cup {"unavailable", "circuit", "busy", "unsent", "timeout"}
Awaiting == {"waiting", "grace"}

CommandMessages ==
  [kind : {"execute", "cancel"}, command : Commands] \cup [kind : {"shutdown"}]
EventMessages ==
  [kind : {"ready", "stopped"}] \cup [kind : {"result", "error", "cancelled"}, command : Commands]

Alive(g) == process[g] \in {"booting", "up"}

TypeOK ==
  /\ status \in Statuses
  /\ ready \in BOOLEAN /\ circuitOpen \in BOOLEAN /\ stopRequested \in BOOLEAN
  /\ transport \in {None} \cup Generations
  /\ generation \in 0 .. MaxGeneration
  /\ pending \subseteq Commands
  /\ outcomes \in [Commands -> Outcomes \cup {"none"}]
  /\ force \in {None} \cup Generations
  /\ restarts \in 0 .. RestartLimit     \* the restart budget
  /\ monitor \in {"spawn", "register", "boot", "broken", "top", "poll", "check", "recover",
                  "terminate", "settle", "exited"}
  /\ handled \in {None} \cup Generations
  /\ process \in [Generations -> {"none", "booting", "up", "dead"}]
  /\ active \in [Generations -> Commands \cup {NoCommand}]
  /\ cancelling \subseteq Generations
  /\ inbox \in [Generations -> Seq(CommandMessages)]
  /\ outbox \in [Generations -> Seq(EventMessages)]
  /\ closed \subseteq Generations
  /\ call \in [Commands -> {"new"} \cup Awaiting \cup Answers]
  /\ via \in [Commands -> {None} \cup Generations]
  /\ stopper \in {"idle", "terminating", "joining", "returned", "raised"}
  /\ stopping \in {None} \cup Generations

Init ==
  /\ status = "starting"
  /\ ready = FALSE
  /\ circuitOpen = FALSE
  /\ stopRequested = FALSE
  /\ transport = None
  /\ generation = 0
  /\ pending = {}
  /\ outcomes = [c \in Commands |-> "none"]
  /\ force = None
  /\ restarts = 0
  /\ monitor = "spawn"
  /\ handled = None
  /\ process = [g \in Generations |-> "none"]
  /\ active = [g \in Generations |-> NoCommand]
  /\ cancelling = {}
  /\ inbox = [g \in Generations |-> <<>>]
  /\ outbox = [g \in Generations |-> <<>>]
  /\ closed = {}
  /\ call = [c \in Commands |-> "new"]
  /\ via = [c \in Commands |-> None]
  /\ stopper = "idle"
  /\ stopping = None

-----------------------------------------------------------------------------
(* The pipes.                                                              *)

\* Writing to a dead worker, or to a closed connection, raises.
CanSend(g) == g # None /\ Alive(g) /\ g \notin closed

Send(g, m) == inbox' = [inbox EXCEPT ![g] = Append(@, m)]

TrySend(g, m) == IF CanSend(g) THEN Send(g, m) ELSE UNCHANGED inbox

Post(g, e) == outbox' = [outbox EXCEPT ![g] = Append(@, e)]

\* A process ends; its execution thread and its end of the pipe go with it.
Die(g) ==
  /\ process' = [process EXCEPT ![g] = "dead"]
  /\ active' = [active EXCEPT ![g] = NoCommand]
  /\ cancelling' = cancelling \ {g}
  /\ inbox' = [inbox EXCEPT ![g] = <<>>]

\* terminate_process_tree and transport.close()
Terminate(g) ==
  /\ Die(g)
  /\ outbox' = [outbox EXCEPT ![g] = <<>>]
  /\ closed' = closed \cup {g}

-----------------------------------------------------------------------------
(* The worker process.                                                     *)

Boot(g) ==
  /\ process[g] = "booting"
  /\ process' = [process EXCEPT ![g] = "up"]
  /\ Post(g, [kind |-> "ready"])
  /\ UNCHANGED <<flags, transport, generation, answers, force, restarts, watch, active, cancelling,
                 inbox, closed, calls, stops>>

Execute(g) ==
  /\ process[g] = "up" /\ inbox[g] # <<>> /\ Head(inbox[g]).kind = "execute"
  /\ inbox' = [inbox EXCEPT ![g] = Tail(@)]
  /\ LET c == Head(inbox[g]).command IN
       IF active[g] # NoCommand
       THEN Post(g, [kind |-> "error", command |-> c]) /\ UNCHANGED <<active, cancelling>>
       ELSE /\ active' = [active EXCEPT ![g] = c]
            /\ cancelling' = cancelling \ {g}
            /\ UNCHANGED outbox
  /\ UNCHANGED <<flags, transport, generation, answers, force, restarts, watch, process, closed,
                 calls, stops>>

ObserveCancel(g) ==
  /\ process[g] = "up" /\ inbox[g] # <<>> /\ Head(inbox[g]).kind = "cancel"
  /\ inbox' = [inbox EXCEPT ![g] = Tail(@)]
  /\ cancelling' = IF active[g] = Head(inbox[g]).command THEN cancelling \cup {g} ELSE cancelling
  /\ UNCHANGED <<flags, transport, generation, answers, force, restarts, watch, process, active,
                 outbox, closed, calls, stops>>

Shutdown(g) ==
  /\ process[g] = "up" /\ inbox[g] # <<>> /\ Head(inbox[g]).kind = "shutdown"
  /\ Die(g)
  /\ Post(g, [kind |-> "stopped"])
  /\ UNCHANGED <<flags, transport, generation, answers, force, restarts, watch, closed, calls, stops>>

\* The execution thread ends and the main loop reports how.
Report(g) ==
  /\ process[g] = "up" /\ active[g] # NoCommand
  /\ \E kind \in {"result", "error"} \cup (IF g \in cancelling THEN {"cancelled"} ELSE {}) :
       Post(g, [kind |-> kind, command |-> active[g]])
  /\ active' = [active EXCEPT ![g] = NoCommand]
  /\ UNCHANGED <<flags, transport, generation, answers, force, restarts, watch, process, cancelling,
                 inbox, closed, calls, stops>>

\* A crash at any time; while booting, also a startup error.
Crash(g) ==
  /\ Alive(g)
  /\ Die(g)
  /\ UNCHANGED <<flags, transport, generation, answers, force, restarts, watch, outbox, closed,
                 calls, stops>>

-----------------------------------------------------------------------------
(* _spawn(), by start() and by _recover().                                 *)

SpawnProcess ==
  /\ monitor = "spawn"
  /\ generation < MaxGeneration
  /\ monitor' = "register"
  /\ handled' = generation + 1
  /\ process' = [process EXCEPT ![generation + 1] = "booting"]
  /\ UNCHANGED <<flags, transport, generation, answers, force, restarts, active, cancelling, wires,
                 closed, calls, stops>>

\* The process cannot be started.
SpawnRefused ==
  /\ monitor = "spawn"
  /\ generation < MaxGeneration
  /\ monitor' = "broken"
  /\ handled' = generation + 1
  /\ UNCHANGED <<flags, transport, generation, answers, force, restarts, workers, wires, closed,
                 calls, stops>>

Register ==
  /\ monitor = "register"
  /\ monitor' = "boot"
  /\ transport' = handled
  /\ generation' = generation + 1
  /\ status' = "starting"
  /\ ready' = FALSE
  /\ UNCHANGED <<circuitOpen, stopRequested, answers, force, restarts, handled, workers, wires,
                 closed, calls, stops>>

\* _consume_event: what one event does to the record.
Answer(c, outcome) ==
  /\ outcomes' = [outcomes EXCEPT ![c] = outcome]
  /\ pending' = pending \ {c}
  /\ status' = IF ready THEN "ready" ELSE status
  /\ UNCHANGED ready

Consume(e) ==
  CASE e.kind = "ready"   -> status' = "ready" /\ ready' = TRUE /\ UNCHANGED answers
    [] e.kind = "stopped" -> status' = "stopped" /\ ready' = FALSE /\ UNCHANGED answers
    [] OTHER              -> Answer(e.command, e.kind)

Receive ==
  /\ handled \notin closed
  /\ outbox[handled] # <<>>
  /\ Consume(Head(outbox[handled]))
  /\ outbox' = [outbox EXCEPT ![handled] = Tail(@)]

SpawnReady ==
  /\ monitor = "boot"
  /\ Receive
  /\ monitor' = IF Head(outbox[handled]).kind = "ready" THEN "top" ELSE "boot"
  /\ UNCHANGED <<circuitOpen, stopRequested, transport, generation, force, restarts, handled,
                 workers, inbox, closed, calls, stops>>

\* The worker died, reported a startup error, or startup_timeout has passed.
SpawnFails ==
  /\ monitor = "boot"
  /\ monitor' = "broken"
  /\ Terminate(handled)
  /\ UNCHANGED <<flags, transport, generation, answers, force, restarts, handled, calls, stops>>

\* Fault: the transport of the failed spawn is kept.
SpawnAbandonedKeeps ==
  /\ monitor = "broken"
  /\ IF handled = 1
     THEN monitor' = "exited" /\ status' = "absent" /\ UNCHANGED circuitOpen
     ELSE monitor' = "top" /\ circuitOpen' = TRUE /\ status' = "circuit_open"
  /\ UNCHANGED <<ready, stopRequested, transport, generation, answers, force, restarts, handled,
                 workers, wires, closed, calls, stops>>

\* start() drops the record and raises; _recover() opens the circuit.
SpawnAbandoned ==
  /\ monitor = "broken"
  /\ IF handled = 1
     THEN monitor' = "exited" /\ status' = "absent" /\ UNCHANGED <<circuitOpen, transport>>
     ELSE /\ monitor' = "top"
          /\ circuitOpen' = TRUE
          /\ status' = "circuit_open"
          /\ transport' = None
  /\ UNCHANGED <<ready, stopRequested, generation, answers, force, restarts, handled, workers,
                 wires, closed, calls, stops>>

-----------------------------------------------------------------------------
(* _monitor() and _recover().                                              *)

MonitorTop ==
  /\ monitor = "top"
  /\ IF stopRequested
     THEN monitor' = "exited" /\ UNCHANGED <<handled, force>>
     ELSE /\ force' = None
          /\ handled' = transport
          /\ monitor' = CASE transport = None -> "exited"
                          [] transport # None /\ force # None -> "recover"
                          [] OTHER -> "poll"
  /\ UNCHANGED <<flags, transport, generation, answers, restarts, workers, wires, closed, calls, stops>>

MonitorReceive ==
  /\ monitor = "poll"
  /\ Receive
  /\ monitor' = "check"
  /\ UNCHANGED <<circuitOpen, stopRequested, transport, generation, force, restarts, handled,
                 workers, inbox, closed, calls, stops>>

\* Fault: the end of the stream ends the monitor.
MonitorGivesUp ==
  /\ monitor = "poll"
  /\ handled \in closed \/ outbox[handled] = <<>>
  /\ monitor' = IF handled \in closed \/ ~Alive(handled) THEN "exited" ELSE "check"
  /\ UNCHANGED <<flags, transport, generation, answers, force, restarts, handled, workers, wires,
                 closed, calls, stops>>

\* Nothing to read: the end of the stream if the worker is gone.
MonitorQuiet ==
  /\ monitor = "poll"
  /\ handled \in closed \/ outbox[handled] = <<>>
  /\ monitor' = IF handled \in closed \/ ~Alive(handled) THEN "recover" ELSE "check"
  /\ UNCHANGED <<flags, transport, generation, answers, force, restarts, handled, workers, wires,
                 closed, calls, stops>>

\* is_alive() on a closed process object raises, which ends the thread.
MonitorCheck ==
  /\ monitor = "check"
  /\ \/ handled \in closed /\ monitor' = "exited"
     \/ handled \notin closed /\ ~Alive(handled) /\ monitor' = "recover"
     \/ handled \notin closed /\ Alive(handled) /\ monitor' = "top"
     \/ ready /\ transport = handled /\ handled \notin closed /\ monitor' = "recover"
  /\ UNCHANGED <<flags, transport, generation, answers, force, restarts, handled, workers, wires,
                 closed, calls, stops>>

RecoverBegin ==
  /\ monitor = "recover"
  /\ IF transport # handled \/ stopRequested
     THEN monitor' = "top" /\ UNCHANGED <<status, ready>>
     ELSE monitor' = "terminate" /\ status' = "failed" /\ ready' = FALSE
  /\ UNCHANGED <<circuitOpen, stopRequested, transport, generation, answers, force, restarts,
                 handled, workers, wires, closed, calls, stops>>

\* Fault: the old process is left to die by itself.
RecoverSpares ==
  /\ monitor = "terminate"
  /\ monitor' = "settle"
  /\ closed' = closed \cup {handled}
  /\ UNCHANGED <<flags, transport, generation, answers, force, restarts, handled, workers, wires,
                 calls, stops>>

\* stop() may have closed the process object: looking at it raises, which
\* ends the thread.
RecoverTerminate ==
  /\ monitor = "terminate"
  /\ monitor' = IF handled \in closed THEN "exited" ELSE "settle"
  /\ Terminate(handled)
  /\ UNCHANGED <<flags, transport, generation, answers, force, restarts, handled, calls, stops>>

\* Fault: the pending commands are forgotten instead of answered.
DropPending(outcome) ==
  /\ pending' = {}
  /\ UNCHANGED outcomes

\* Every pending command ends with outcome.
FailPending(outcome) ==
  /\ outcomes' = [c \in Commands |-> IF c \in pending THEN outcome ELSE outcomes[c]]
  /\ pending' = {}

\* The restart window lets go of any number of old restarts (as far as the
\* bound on generations allows).
RecoverSettle ==
  /\ monitor = "settle"
  /\ FailPending("crashed")
  /\ transport' = None
  /\ \E recent \in 0 .. restarts :
       /\ generation + RestartLimit - recent <= MaxGeneration
       /\ IF recent >= RestartLimit
          THEN /\ circuitOpen' = TRUE /\ status' = "circuit_open"
               /\ restarts' = recent /\ monitor' = "top"
          ELSE /\ status' = "restarting" /\ UNCHANGED circuitOpen
               /\ restarts' = recent + 1 /\ monitor' = "spawn"
  /\ UNCHANGED <<ready, stopRequested, generation, force, handled, workers, wires, closed, calls, stops>>

-----------------------------------------------------------------------------
(* _request() and cancel().                                                *)

\* The request is refused before anything is sent; a caller that waits for
\* a restart gives up after startup_timeout.
Refuse(c) ==
  /\ call[c] = "new"
  /\ \/ circuitOpen /\ call' = [call EXCEPT ![c] = "circuit"]
     \/ ~circuitOpen /\ (~ready \/ transport = None) /\ call' = [call EXCEPT ![c] = "unavailable"]
     \/ ready /\ transport # None /\ pending # {} /\ call' = [call EXCEPT ![c] = "busy"]
  /\ UNCHANGED <<flags, transport, generation, answers, force, restarts, watch, workers, wires,
                 closed, via, stops>>

Admitted(c) ==
  /\ call[c] = "new"
  /\ ready /\ ~circuitOpen /\ transport # None /\ pending = {}

Request(c) ==
  /\ Admitted(c)
  /\ CanSend(transport)
  /\ Send(transport, [kind |-> "execute", command |-> c])
  /\ pending' = {c}
  /\ status' = "ready"
  /\ call' = [call EXCEPT ![c] = "waiting"]
  /\ via' = [via EXCEPT ![c] = transport]
  /\ UNCHANGED <<ready, circuitOpen, stopRequested, transport, generation, outcomes, force,
                 restarts, watch, workers, outbox, closed, stops>>

RequestUnsent(c) ==
  /\ Admitted(c)
  /\ ~CanSend(transport)
  /\ force' = transport
  /\ status' = "ready"
  /\ call' = [call EXCEPT ![c] = "unsent"]
  /\ UNCHANGED <<ready, circuitOpen, stopRequested, transport, generation, answers, restarts,
                 watch, workers, wires, closed, via, stops>>

\* The outcome is there in time: it is returned or raised.
Collect(c) ==
  /\ call[c] = "waiting"
  /\ outcomes[c] # "none"
  /\ call' = [call EXCEPT ![c] = outcomes[c]]
  /\ outcomes' = [outcomes EXCEPT ![c] = "none"]
  /\ UNCHANGED <<flags, transport, generation, pending, force, restarts, watch, workers, wires,
                 closed, via, stops>>

\* It is not: the worker is asked to cancel.
Deadline(c) ==
  /\ call[c] = "waiting"
  /\ outcomes[c] = "none"
  /\ call' = [call EXCEPT ![c] = "grace"]
  /\ TrySend(via[c], [kind |-> "cancel", command |-> c])
  /\ UNCHANGED <<flags, transport, generation, answers, force, restarts, watch, workers, outbox,
                 closed, via, stops>>

\* Fault: the answer to the cancellation is waited for without a limit.
GiveUpOnAnswer(c) ==
  /\ call[c] = "grace" /\ outcomes[c] # "none"
  /\ call' = [call EXCEPT ![c] = "timeout"]
  /\ outcomes' = [outcomes EXCEPT ![c] = "none"]
  /\ force' = via[c]
  /\ UNCHANGED <<flags, transport, generation, pending, restarts, watch, workers, wires, closed,
                 via, stops>>

\* Fault: a request that timed out does not have its worker restarted.
GiveUpQuietly(c) ==
  /\ call[c] = "grace"
  /\ call' = [call EXCEPT ![c] = "timeout"]
  /\ outcomes' = [outcomes EXCEPT ![c] = "none"]
  /\ pending' = pending \ {c}
  /\ UNCHANGED <<flags, transport, generation, force, restarts, watch, workers, wires, closed, via, stops>>

\* After cancellation_grace, or an outcome: a timeout and a restart anyway.
GiveUp(c) ==
  /\ call[c] = "grace"
  /\ call' = [call EXCEPT ![c] = "timeout"]
  /\ outcomes' = [outcomes EXCEPT ![c] = "none"]
  /\ pending' = pending \ {c}
  /\ force' = via[c]
  /\ UNCHANGED <<flags, transport, generation, restarts, watch, workers, wires, closed, via, stops>>

\* cancel(), once per command (a second CANCEL changes nothing).
Cancel(c) ==
  /\ c \in pending
  /\ ready /\ transport # None
  /\ transport \notin cancelling
  /\ \A i \in 1 .. Len(inbox[transport]) : inbox[transport][i].kind # "cancel"
  /\ TrySend(transport, [kind |-> "cancel", command |-> c])
  /\ force' = IF CanSend(transport) THEN force ELSE transport
  /\ UNCHANGED <<flags, transport, generation, answers, restarts, watch, workers, outbox, closed,
                 calls, stops>>

-----------------------------------------------------------------------------
(* stop().                                                                 *)

\* The record is marked before the transport is looked at, which raises if
\* _recover() has closed it.
StopBegin ==
  /\ stopper = "idle"
  /\ status \notin {"stopped", "absent"}
  /\ stopper' = IF transport \in closed THEN "raised" ELSE "terminating"
  /\ stopping' = transport
  /\ stopRequested' = TRUE
  /\ ready' = FALSE
  /\ status' = "stopping"
  /\ TrySend(transport, [kind |-> "shutdown"])
  /\ UNCHANGED <<circuitOpen, transport, generation, answers, force, restarts, watch, workers,
                 outbox, closed, calls>>

\* The worker has shutdown_timeout to go by itself.
StopTerminate ==
  /\ stopper = "terminating"
  /\ stopper' = IF stopping \in closed THEN "raised" ELSE "joining"
  /\ IF stopping = None THEN UNCHANGED <<workers, wires, closed>> ELSE Terminate(stopping)
  /\ UNCHANGED <<flags, transport, generation, answers, force, restarts, watch, calls, stopping>>

\* The monitor is joined, for shutdown_timeout at most.
StopReturn ==
  /\ stopper = "joining"
  /\ stopper' = "returned"
  /\ FailPending("stopped")
  /\ transport' = None
  /\ status' = "stopped"
  /\ UNCHANGED <<ready, circuitOpen, stopRequested, generation, force, restarts, watch, workers,
                 wires, closed, calls, stopping>>

-----------------------------------------------------------------------------
WorkerStep(g) == Boot(g) \/ Execute(g) \/ ObserveCancel(g) \/ Shutdown(g) \/ Report(g)

MonitorStep ==
  \/ SpawnProcess \/ SpawnRefused \/ Register \/ SpawnReady \/ SpawnFails \/ SpawnAbandoned
  \/ MonitorTop \/ MonitorReceive \/ MonitorQuiet \/ MonitorCheck
  \/ RecoverBegin \/ RecoverTerminate \/ RecoverSettle

RequestStep(c) ==
  Refuse(c) \/ Request(c) \/ RequestUnsent(c) \/ Collect(c) \/ Deadline(c) \/ GiveUp(c)

StopStep == StopTerminate \/ StopReturn

Next ==
  \/ \E g \in Generations : WorkerStep(g) \/ Crash(g)
  \/ MonitorStep
  \/ \E c \in Commands : RequestStep(c) \/ Cancel(c)
  \/ StopBegin \/ StopStep

Spec == Init /\ [][Next]_vars

\* Threads are scheduled and every wait has a timeout.  Worker processes owe
\* nothing: they may hang or die.
Fairness ==
  /\ WF_vars(MonitorStep)
  /\ \A c \in Commands : WF_vars(RequestStep(c))
  /\ WF_vars(StopStep)

FairSpec == Spec /\ Fairness

-----------------------------------------------------------------------------
(* Implementation.                                                         *)

Reports == {"result", "error", "cancelled"}

Has(s, m) == \E i \in 1 .. Len(s) : s[i] = m
Order(c) == [kind |-> "execute", command |-> c]

(* The reports of a command, on their way, in the record or told.          *)
ReportsOf(c) ==
  {kind \in Reports : Has(outbox[via[c]], [kind |-> kind, command |-> c])}
  \cup ({outcomes[c], call[c]} \cap Reports)

(* What has become of a command.                                           *)
Work(c) ==
  IF via[c] = None THEN "none"
  ELSE IF Has(inbox[via[c]], Order(c)) THEN "ordered"
  ELSE IF active[via[c]] = c THEN "working"
  ELSE IF ReportsOf(c) = {} THEN "gone"
  ELSE CHOOSE report \in ReportsOf(c) : TRUE

Told(c) == IF call[c] \in {"new"} \cup Awaiting THEN "pending" ELSE call[c]

Service == INSTANCE CommandService WITH
  work <- [c \in Commands |-> Work(c)],
  told <- [c \in Commands |-> Told(c)]

(* However workers crash, hang and are replaced: a command is worked on    *)
(* once at most and no two at a time; a report that is returned was made;  *)
(* and of what was refused or has crashed nothing goes on (execute).       *)
CommandsAreHonoured == Service!Spec

-----------------------------------------------------------------------------
(* Safety.                                                                 *)

(* At most one process of a worker exists, whatever crashes, restarts and  *)
(* stops overlap: two generations would hold the same GPU and shared       *)
(* memory.                                                                 *)
OneProcess == Cardinality({g \in Generations : Alive(g)}) <= 1

(* Nobody waits for an answer that cannot come: a command is pending or    *)
(* its outcome is there until its caller has it, and what is pending has a *)
(* caller.  Crashes, timeouts and stop() all go through the same two       *)
(* collections.                                                            *)
EveryCallIsAnswerable ==
  \A c \in Commands :
    /\ call[c] \in Awaiting => c \in pending \/ outcomes[c] # "none"
    /\ c \in pending => call[c] \in Awaiting

(* A worker that is still busy with a command its caller gave up is not    *)
(* left alone: it is to be restarted or stopped.  Meanwhile the supervisor *)
(* may admit another command, so a forgotten restart would block it.       *)
AbandonedWorkIsKilled ==
  \A g \in Generations :
    process[g] = "up" /\ active[g] # NoCommand /\ call[active[g]] \notin Awaiting =>
      \/ force # None \/ stopRequested
      \/ handled = g /\ monitor \in {"recover", "terminate"}

(* An open circuit means that no process is left and that none will be     *)
(* spawned.                                                                *)
CircuitIsFinal ==
  circuitOpen => /\ \A g \in Generations : ~Alive(g)
                 /\ monitor \in {"top", "exited"}

(* Processes are limited while the worker is served and after: one at a     *)
(* time, and none once the circuit has opened.                             *)
ProcessesAreLimited == OneProcess /\ CircuitIsFinal

(* stop() means that no process of the worker is left and that it takes no *)
(* more requests.                                                          *)
StoppedIsStopped ==
  stopper = "returned" => ~ready /\ \A g \in Generations : ~Alive(g)

(* A forced restart hits the process it was asked for.                     *)
RestartHitsItsTarget ==
  [][monitor = "top" /\ monitor' = "recover" => force = handled']_vars

(* Liveness.                                                               *)

(* Every request returns or raises, though the worker may hang, crash or   *)
(* never start.                                                            *)
CallsReturn == \A c \in Commands : call[c] = "new" ~> call[c] \in Answers

(* A dead worker is replaced, or the circuit opens, unless it is stopped or *)
(* start() has reported its failure.                                       *)
CrashesAreHandled ==
  (transport # None /\ ~Alive(transport))
    ~> (transport # None /\ Alive(transport)) \/ circuitOpen \/ stopRequested \/ status = "absent"

=============================================================================
