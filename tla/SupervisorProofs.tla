--------------------------- MODULE SupervisorProofs ---------------------------
(***************************************************************************)
(* What holds of a supervised worker for every set of commands, every      *)
(* restart limit and every number of restarts: one process at a time, an   *)
(* open circuit is final, a request always has its answer coming, a worker *)
(* busy with abandoned work is restarted or stopped, and the supervisor    *)
(* with its workers implements the service its callers see                 *)
(* (CommandService.tla).                                                   *)
(***************************************************************************)
EXTENDS WorkerSupervisor, FiniteSetTheorems, TLAPS

\* Where the monitor stands relative to the transport it works on.
MonitorKnowsTransport ==
  /\ transport \in {None, generation}
  /\ monitor = "register" => handled = generation + 1
  /\ monitor \in {"boot", "poll", "check", "recover", "terminate", "settle"} =>
       handled = generation /\ handled # None

NobodyLives == \A g \in Generations : ~Alive(g)

\* Only the last process spawned can be alive, registered or not, and none
\* is when the next one is to be spawned.
OnlyTheLastLives ==
  /\ \A g \in Generations :
       Alive(g) => g = IF monitor = "register" THEN generation + 1 ELSE generation
  /\ monitor \in {"spawn", "broken", "settle"} => NobodyLives

OpenCircuitHasNoTransport == circuitOpen => transport = None

IInv ==
  /\ TypeOK
  /\ MonitorKnowsTransport
  /\ OnlyTheLastLives
  /\ OpenCircuitHasNoTransport
  /\ CircuitIsFinal

-----------------------------------------------------------------------------
\* The record and the processes, without the pipes.
ControlTypeOK ==
  /\ status \in Statuses
  /\ ready \in BOOLEAN /\ circuitOpen \in BOOLEAN /\ stopRequested \in BOOLEAN
  /\ transport \in {None} \cup Generations
  /\ generation \in 0 .. MaxGeneration
  /\ force \in {None} \cup Generations
  /\ restarts \in 0 .. RestartLimit
  /\ monitor \in {"spawn", "register", "boot", "broken", "top", "poll", "check", "recover",
                  "terminate", "settle", "exited"}
  /\ handled \in {None} \cup Generations
  /\ process \in [Generations -> {"none", "booting", "up", "dead"}]
  /\ cancelling \subseteq Generations
  /\ closed \subseteq Generations
  /\ via \in [Commands -> {None} \cup Generations]
  /\ stopper \in {"idle", "terminating", "joining", "returned", "raised"}
  /\ stopping \in {None} \cup Generations

\* What refers to commands.
CommandTypeOK ==
  /\ pending \subseteq Commands
  /\ outcomes \in [Commands -> Outcomes \cup {"none"}]
  /\ active \in [Generations -> Commands \cup {NoCommand}]
  /\ call \in [Commands -> {"new"} \cup Awaiting \cup Answers]

PipesTypeOK ==
  /\ inbox \in [Generations -> Seq(CommandMessages)]
  /\ outbox \in [Generations -> Seq(EventMessages)]

\* The record that start() creates.
LEMMA InvInit == ASSUME Init PROVE IInv
<1>1. <<>> \in Seq(CommandMessages) /\ <<>> \in Seq(EventMessages)
  OBVIOUS
<1>2. ControlTypeOK
  <2>1. generation \in 0 .. MaxGeneration /\ restarts \in 0 .. RestartLimit
    BY SupervisorAssumption DEF Init
  <2>2. /\ process \in [Generations -> {"none", "booting", "up", "dead"}]
        /\ via \in [Commands -> {None} \cup Generations]
    BY DEF Init
  <2>3. /\ transport \in {None} \cup Generations /\ force \in {None} \cup Generations
        /\ handled \in {None} \cup Generations /\ stopping \in {None} \cup Generations
    BY DEF Init
  <2>. QED
    BY <2>1, <2>2, <2>3 DEF Init, ControlTypeOK, Statuses
<1>3. CommandTypeOK /\ PipesTypeOK
  BY <1>1 DEF Init, CommandTypeOK, PipesTypeOK
<1>4. TypeOK
  BY <1>2, <1>3 DEF TypeOK, ControlTypeOK, CommandTypeOK, PipesTypeOK
<1>. QED
  BY <1>4, SupervisorAssumption DEF Init, IInv, MonitorKnowsTransport, OnlyTheLastLives, NobodyLives, Alive,
     OpenCircuitHasNoTransport, CircuitIsFinal, None, Generations

\* What is read from a pipe is one of its messages.
LEMMA EventRead ==
  ASSUME NEW g \in Generations, PipesTypeOK, outbox[g] # <<>>
  PROVE  /\ Head(outbox[g]) \in EventMessages
         /\ Head(outbox[g]).kind \in {"ready", "stopped", "result", "error", "cancelled"}
         /\ Head(outbox[g]).kind \notin {"ready", "stopped"} => Head(outbox[g]).command \in Commands
         /\ Tail(outbox[g]) \in Seq(EventMessages)
<1>1. outbox[g] \in Seq(EventMessages)
  BY DEF PipesTypeOK
<1>2. Head(outbox[g]) \in EventMessages /\ Tail(outbox[g]) \in Seq(EventMessages)
  BY <1>1
<1>. QED
  BY <1>2 DEF EventMessages

\* The same of the pipe to a worker.
LEMMA CommandRead ==
  ASSUME NEW g \in Generations, PipesTypeOK, inbox[g] # <<>>
  PROVE  /\ Head(inbox[g]) \in CommandMessages
         /\ Head(inbox[g]).kind \in {"execute", "cancel"} => Head(inbox[g]).command \in Commands
         /\ Tail(inbox[g]) \in Seq(CommandMessages)
<1>1. inbox[g] \in Seq(CommandMessages)
  BY DEF PipesTypeOK
<1>2. Head(inbox[g]) \in CommandMessages /\ Tail(inbox[g]) \in Seq(CommandMessages)
  BY <1>1
<1>. QED
  BY <1>2 DEF CommandMessages

\* No step takes the record or the processes out of their types: a restart
\* is counted only below the limit.
LEMMA ControlTypeStep == ASSUME IInv, [Next]_vars PROVE ControlTypeOK'
<1>a. ControlTypeOK /\ MonitorKnowsTransport
  BY DEF IInv, TypeOK, ControlTypeOK
<1>. USE <1>a, SupervisorAssumption
     DEF ControlTypeOK, MonitorKnowsTransport, Generations, None, Statuses, Alive, Die,
         Terminate, Answer, Consume, Receive,
         flags, answers, wires, workers, watch, calls, stops, vars
<1>1. ASSUME NEW g \in Generations, Boot(g)
       PROVE ControlTypeOK'
  BY <1>1 DEF Boot
<1>2. ASSUME NEW g \in Generations, Execute(g)
       PROVE ControlTypeOK'
  <2>1. cancelling' \subseteq Generations
    BY <1>2 DEF Execute
  <2>. QED
    BY <1>2, <2>1 DEF Execute
<1>3. ASSUME NEW g \in Generations, ObserveCancel(g)
       PROVE ControlTypeOK'
  BY <1>3 DEF ObserveCancel
<1>4. ASSUME NEW g \in Generations, Shutdown(g)
       PROVE ControlTypeOK'
  BY <1>4 DEF Shutdown
<1>5. ASSUME NEW g \in Generations, Report(g)
       PROVE ControlTypeOK'
  BY <1>5 DEF Report
<1>6. ASSUME NEW g \in Generations, Crash(g)
       PROVE ControlTypeOK'
  BY <1>6 DEF Crash
<1>7. CASE SpawnProcess
  BY <1>7 DEF SpawnProcess
<1>8. CASE SpawnRefused
  BY <1>8 DEF SpawnRefused
<1>9. CASE Register
  <2>1. handled = generation + 1 /\ handled \in {None} \cup Generations
    BY <1>9 DEF Register
  <2>2. generation' \in 0 .. MaxGeneration /\ transport' \in {None} \cup Generations
    BY <1>9, <2>1 DEF Register
  <2>. QED
    BY <1>9, <2>2 DEF Register
<1>10. CASE SpawnReady
  BY <1>10 DEF SpawnReady
<1>11. CASE SpawnFails
  BY <1>11 DEF SpawnFails
<1>12. CASE SpawnAbandoned
  BY <1>12 DEF SpawnAbandoned
<1>13. CASE MonitorTop
  BY <1>13 DEF MonitorTop
<1>14. CASE MonitorReceive
  <2>1. status' \in Statuses /\ ready' \in BOOLEAN /\ monitor' = "check"
    BY <1>14 DEF MonitorReceive
  <2>2. UNCHANGED <<circuitOpen, stopRequested, transport, generation, force, restarts, handled,
                    process, cancelling, closed, via, stopper, stopping>>
    BY <1>14 DEF MonitorReceive
  <2>. QED
    BY <2>1, <2>2
<1>15. CASE MonitorQuiet
  BY <1>15 DEF MonitorQuiet
<1>16. CASE MonitorCheck
  BY <1>16 DEF MonitorCheck
<1>17. CASE RecoverBegin
  <2>1. status' \in Statuses /\ ready' \in BOOLEAN /\ monitor' \in {"top", "terminate"}
    BY <1>17 DEF RecoverBegin
  <2>2. UNCHANGED <<circuitOpen, stopRequested, transport, generation, force, restarts, handled,
                    process, cancelling, closed, via, stopper, stopping>>
    BY <1>17 DEF RecoverBegin
  <2>. QED
    BY <2>1, <2>2
<1>18. CASE RecoverTerminate
  BY <1>18 DEF RecoverTerminate
<1>19. CASE RecoverSettle
  <2>1. PICK recent \in 0 .. restarts :
          \/ recent >= RestartLimit /\ restarts' = recent /\ monitor' = "top"
             /\ circuitOpen' = TRUE /\ status' = "circuit_open"
          \/ ~(recent >= RestartLimit) /\ restarts' = recent + 1 /\ monitor' = "spawn"
             /\ circuitOpen' = circuitOpen /\ status' = "restarting"
    BY <1>19 DEF RecoverSettle
  <2>2. restarts' \in 0 .. RestartLimit
    BY <2>1
  <2>. QED
    BY <1>19, <2>1, <2>2 DEF RecoverSettle
<1>20. ASSUME NEW c \in Commands, Refuse(c)
       PROVE ControlTypeOK'
  BY <1>20 DEF Refuse
<1>21. ASSUME NEW c \in Commands, Request(c)
       PROVE ControlTypeOK'
  BY <1>21 DEF Request
<1>22. ASSUME NEW c \in Commands, RequestUnsent(c)
       PROVE ControlTypeOK'
  BY <1>22 DEF RequestUnsent
<1>23. ASSUME NEW c \in Commands, Collect(c)
       PROVE ControlTypeOK'
  BY <1>23 DEF Collect
<1>24. ASSUME NEW c \in Commands, Deadline(c)
       PROVE ControlTypeOK'
  BY <1>24 DEF Deadline
<1>25. ASSUME NEW c \in Commands, GiveUp(c)
       PROVE ControlTypeOK'
  <2>1. force' \in {None} \cup Generations
    BY <1>25 DEF GiveUp
  <2>. QED
    BY <1>25, <2>1 DEF GiveUp
<1>26. ASSUME NEW c \in Commands, Cancel(c)
       PROVE ControlTypeOK'
  BY <1>26 DEF Cancel
<1>27. CASE StopBegin
  BY <1>27 DEF StopBegin
<1>28. CASE StopTerminate
  <2>1. /\ process' \in [Generations -> {"none", "booting", "up", "dead"}]
        /\ cancelling' \subseteq Generations
        /\ closed' \subseteq Generations
    <3>1. CASE stopping = None
      <4>1. UNCHANGED <<process, cancelling, closed>>
        BY <1>28, <3>1 DEF StopTerminate
      <4>. QED
        BY <4>1
    <3>2. CASE stopping # None
      <4>1. stopping \in Generations
        BY <3>2
      <4>2. /\ process' = [process EXCEPT ![stopping] = "dead"]
            /\ cancelling' = cancelling \ {stopping}
            /\ closed' = closed \cup {stopping}
        BY <1>28, <3>2 DEF StopTerminate
      <4>. QED
        BY <4>1, <4>2
    <3>. QED
      BY <3>1, <3>2
  <2>2. stopper' \in {"joining", "raised"}
    BY <1>28 DEF StopTerminate
  <2>3. UNCHANGED <<status, ready, circuitOpen, stopRequested, transport, generation, force, restarts,
                    monitor, handled, via, stopping>>
    BY <1>28 DEF StopTerminate
  <2>. QED
    BY <2>1, <2>2, <2>3
<1>29. CASE StopReturn
  BY <1>29 DEF StopReturn
<1>30. CASE UNCHANGED vars
  BY <1>30
<1>. QED
  BY <1>1, <1>2, <1>3, <1>4, <1>5, <1>6, <1>7, <1>8, <1>9, <1>10, <1>11, <1>12, <1>13, <1>14,
     <1>15, <1>16, <1>17, <1>18, <1>19, <1>20, <1>21, <1>22, <1>23, <1>24, <1>25, <1>26, <1>27,
     <1>28, <1>29, <1>30
  DEF Next, WorkerStep, MonitorStep, RequestStep, StopStep

\* Commands are remembered where commands belong.
LEMMA CommandTypeStep == ASSUME IInv, [Next]_vars PROVE CommandTypeOK'
<1>. USE SupervisorAssumption
     DEF IInv, TypeOK, CommandTypeOK, PipesTypeOK, MonitorKnowsTransport, Statuses, Outcomes, Answers,
         Awaiting, Die, Terminate, FailPending,
         flags, answers, wires, workers, watch, calls, stops, vars
<1>1. ASSUME NEW g \in Generations, Boot(g)
       PROVE CommandTypeOK'
  BY <1>1 DEF Boot
<1>2. ASSUME NEW g \in Generations, Execute(g)
       PROVE CommandTypeOK'
  BY <1>2, CommandRead DEF Execute
<1>3. ASSUME NEW g \in Generations, ObserveCancel(g)
       PROVE CommandTypeOK'
  BY <1>3 DEF ObserveCancel
<1>4. ASSUME NEW g \in Generations, Shutdown(g)
       PROVE CommandTypeOK'
  BY <1>4 DEF Shutdown
<1>5. ASSUME NEW g \in Generations, Report(g)
       PROVE CommandTypeOK'
  BY <1>5 DEF Report
<1>6. ASSUME NEW g \in Generations, Crash(g)
       PROVE CommandTypeOK'
  BY <1>6 DEF Crash
<1>7. CASE SpawnProcess
  BY <1>7 DEF SpawnProcess
<1>8. CASE SpawnRefused
  BY <1>8 DEF SpawnRefused
<1>9. CASE Register
  BY <1>9 DEF Register
<1>10. CASE SpawnReady
  <2>1. handled \in Generations
    BY <1>10 DEF SpawnReady, None, Generations
  <2>2. Head(outbox[handled]).kind \in {"ready", "stopped", "result", "error", "cancelled"}
    BY <1>10, <2>1, EventRead DEF SpawnReady, Receive
  <2>3. Head(outbox[handled]).kind \notin {"ready", "stopped"} => Head(outbox[handled]).command \in Commands
    BY <1>10, <2>1, EventRead DEF SpawnReady, Receive
  <2>. QED
    BY <1>10, <2>2, <2>3 DEF SpawnReady, Receive, Consume, Answer
<1>11. CASE SpawnFails
  BY <1>11 DEF SpawnFails
<1>12. CASE SpawnAbandoned
  BY <1>12 DEF SpawnAbandoned
<1>13. CASE MonitorTop
  BY <1>13 DEF MonitorTop
<1>14. CASE MonitorReceive
  <2>1. handled \in Generations
    BY <1>14 DEF MonitorReceive, None, Generations
  <2>2. Head(outbox[handled]).kind \in {"ready", "stopped", "result", "error", "cancelled"}
    BY <1>14, <2>1, EventRead DEF MonitorReceive, Receive
  <2>3. Head(outbox[handled]).kind \notin {"ready", "stopped"} => Head(outbox[handled]).command \in Commands
    BY <1>14, <2>1, EventRead DEF MonitorReceive, Receive
  <2>. QED
    BY <1>14, <2>2, <2>3 DEF MonitorReceive, Receive, Consume, Answer
<1>15. CASE MonitorQuiet
  BY <1>15 DEF MonitorQuiet
<1>16. CASE MonitorCheck
  BY <1>16 DEF MonitorCheck
<1>17. CASE RecoverBegin
  BY <1>17 DEF RecoverBegin
<1>18. CASE RecoverTerminate
  BY <1>18 DEF RecoverTerminate
<1>19. CASE RecoverSettle
  BY <1>19 DEF RecoverSettle
<1>20. ASSUME NEW c \in Commands, Refuse(c)
       PROVE CommandTypeOK'
  BY <1>20 DEF Refuse
<1>21. ASSUME NEW c \in Commands, Request(c)
       PROVE CommandTypeOK'
  BY <1>21 DEF Request
<1>22. ASSUME NEW c \in Commands, RequestUnsent(c)
       PROVE CommandTypeOK'
  BY <1>22 DEF RequestUnsent
<1>23. ASSUME NEW c \in Commands, Collect(c)
       PROVE CommandTypeOK'
  BY <1>23 DEF Collect
<1>24. ASSUME NEW c \in Commands, Deadline(c)
       PROVE CommandTypeOK'
  BY <1>24 DEF Deadline
<1>25. ASSUME NEW c \in Commands, GiveUp(c)
       PROVE CommandTypeOK'
  BY <1>25 DEF GiveUp
<1>26. ASSUME NEW c \in Commands, Cancel(c)
       PROVE CommandTypeOK'
  BY <1>26 DEF Cancel
<1>27. CASE StopBegin
  BY <1>27 DEF StopBegin
<1>28. CASE StopTerminate
  BY <1>28 DEF StopTerminate
<1>29. CASE StopReturn
  BY <1>29 DEF StopReturn
<1>30. CASE UNCHANGED vars
  BY <1>30
<1>. QED
  BY <1>1, <1>2, <1>3, <1>4, <1>5, <1>6, <1>7, <1>8, <1>9, <1>10, <1>11, <1>12, <1>13, <1>14,
     <1>15, <1>16, <1>17, <1>18, <1>19, <1>20, <1>21, <1>22, <1>23, <1>24, <1>25, <1>26, <1>27,
     <1>28, <1>29, <1>30
  DEF Next, WorkerStep, MonitorStep, RequestStep, StopStep

\* Everything sent is a message.
LEMMA PipesTypeStep == ASSUME IInv, [Next]_vars PROVE PipesTypeOK'
<1>. USE SupervisorAssumption
     DEF IInv, TypeOK, PipesTypeOK, MonitorKnowsTransport, CommandMessages, EventMessages,
         CanSend, Send, TrySend, Post, Die, Terminate, Receive,
         flags, answers, wires, workers, watch, calls, stops, vars
<1>1. ASSUME NEW g \in Generations, Boot(g)
       PROVE PipesTypeOK'
  BY <1>1 DEF Boot
<1>2. ASSUME NEW g \in Generations, Execute(g)
       PROVE PipesTypeOK'
  <2>1. /\ Tail(inbox[g]) \in Seq(CommandMessages)
        /\ Head(inbox[g]).command \in Commands
    BY <1>2, CommandRead DEF Execute
  <2>2. [kind |-> "error", command |-> Head(inbox[g]).command] \in EventMessages
    BY <2>1
  <2>3. inbox' = [inbox EXCEPT ![g] = Tail(@)]
    BY <1>2 DEF Execute
  <2>4. \/ UNCHANGED outbox
        \/ outbox' = [outbox EXCEPT
                        ![g] = Append(@, [kind |-> "error", command |-> Head(inbox[g]).command])]
    BY <1>2 DEF Execute
  <2>5. inbox' \in [Generations -> Seq(CommandMessages)]
    BY <2>1, <2>3
  <2>6. outbox' \in [Generations -> Seq(EventMessages)]
    <3>1. CASE UNCHANGED outbox
      BY <3>1
    <3>2. CASE outbox' = [outbox EXCEPT ![g] = Append(@, [kind |-> "error", command |-> Head(inbox[g]).command])]
      BY <2>2, <3>2
    <3>. QED
      BY <2>4, <3>1, <3>2
  <2>. QED
    BY <2>5, <2>6
<1>3. ASSUME NEW g \in Generations, ObserveCancel(g)
       PROVE PipesTypeOK'
  BY <1>3 DEF ObserveCancel
<1>4. ASSUME NEW g \in Generations, Shutdown(g)
       PROVE PipesTypeOK'
  BY <1>4 DEF Shutdown
<1>5. ASSUME NEW g \in Generations, Report(g)
       PROVE PipesTypeOK'
  BY <1>5 DEF Report
<1>6. ASSUME NEW g \in Generations, Crash(g)
       PROVE PipesTypeOK'
  BY <1>6 DEF Crash
<1>7. CASE SpawnProcess
  BY <1>7 DEF SpawnProcess
<1>8. CASE SpawnRefused
  BY <1>8 DEF SpawnRefused
<1>9. CASE Register
  BY <1>9 DEF Register
<1>10. CASE SpawnReady
  BY <1>10 DEF SpawnReady
<1>11. CASE SpawnFails
  BY <1>11 DEF SpawnFails
<1>12. CASE SpawnAbandoned
  BY <1>12 DEF SpawnAbandoned
<1>13. CASE MonitorTop
  BY <1>13 DEF MonitorTop
<1>14. CASE MonitorReceive
  BY <1>14 DEF MonitorReceive
<1>15. CASE MonitorQuiet
  BY <1>15 DEF MonitorQuiet
<1>16. CASE MonitorCheck
  BY <1>16 DEF MonitorCheck
<1>17. CASE RecoverBegin
  BY <1>17 DEF RecoverBegin
<1>18. CASE RecoverTerminate
  BY <1>18 DEF RecoverTerminate
<1>19. CASE RecoverSettle
  BY <1>19 DEF RecoverSettle
<1>20. ASSUME NEW c \in Commands, Refuse(c)
       PROVE PipesTypeOK'
  BY <1>20 DEF Refuse
<1>21. ASSUME NEW c \in Commands, Request(c)
       PROVE PipesTypeOK'
  BY <1>21 DEF Request
<1>22. ASSUME NEW c \in Commands, RequestUnsent(c)
       PROVE PipesTypeOK'
  BY <1>22 DEF RequestUnsent
<1>23. ASSUME NEW c \in Commands, Collect(c)
       PROVE PipesTypeOK'
  BY <1>23 DEF Collect
<1>24. ASSUME NEW c \in Commands, Deadline(c)
       PROVE PipesTypeOK'
  <2>1. [kind |-> "cancel", command |-> c] \in CommandMessages
    OBVIOUS
  <2>2. via[c] \in {None} \cup Generations
    BY DEF None
  <2>3. UNCHANGED outbox
    BY <1>24 DEF Deadline
  <2>4. CASE CanSend(via[c])
    <3>1. via[c] \in Generations
      BY <2>2, <2>4
    <3>2. inbox' = [inbox EXCEPT ![via[c]] = Append(@, [kind |-> "cancel", command |-> c])]
      BY <1>24, <2>4 DEF Deadline
    <3>. QED
      BY <2>1, <2>3, <3>1, <3>2
  <2>5. CASE ~CanSend(via[c])
    <3>1. UNCHANGED inbox
      BY <1>24, <2>5 DEF Deadline
    <3>. QED
      BY <2>3, <3>1
  <2>. QED
    BY <2>4, <2>5
<1>25. ASSUME NEW c \in Commands, GiveUp(c)
       PROVE PipesTypeOK'
  BY <1>25 DEF GiveUp
<1>26. ASSUME NEW c \in Commands, Cancel(c)
       PROVE PipesTypeOK'
  <2>1. [kind |-> "cancel", command |-> c] \in CommandMessages
    OBVIOUS
  <2>2. transport \in {None} \cup Generations
    BY DEF None
  <2>3. UNCHANGED outbox
    BY <1>26 DEF Cancel
  <2>4. CASE CanSend(transport)
    <3>1. transport \in Generations
      BY <2>2, <2>4
    <3>2. inbox' = [inbox EXCEPT ![transport] = Append(@, [kind |-> "cancel", command |-> c])]
      BY <1>26, <2>4 DEF Cancel
    <3>. QED
      BY <2>1, <2>3, <3>1, <3>2
  <2>5. CASE ~CanSend(transport)
    <3>1. UNCHANGED inbox
      BY <1>26, <2>5 DEF Cancel
    <3>. QED
      BY <2>3, <3>1
  <2>. QED
    BY <2>4, <2>5
<1>27. CASE StopBegin
  <2>1. [kind |-> "shutdown"] \in CommandMessages
    OBVIOUS
  <2>2. transport \in {None} \cup Generations
    BY DEF None
  <2>3. UNCHANGED outbox
    BY <1>27 DEF StopBegin
  <2>4. CASE CanSend(transport)
    <3>1. transport \in Generations
      BY <2>2, <2>4
    <3>2. inbox' = [inbox EXCEPT ![transport] = Append(@, [kind |-> "shutdown"])]
      BY <1>27, <2>4 DEF StopBegin
    <3>. QED
      BY <2>1, <2>3, <3>1, <3>2
  <2>5. CASE ~CanSend(transport)
    <3>1. UNCHANGED inbox
      BY <1>27, <2>5 DEF StopBegin
    <3>. QED
      BY <2>3, <3>1
  <2>. QED
    BY <2>4, <2>5
<1>28. CASE StopTerminate
  <2>1. CASE stopping = None
    <3>1. UNCHANGED <<inbox, outbox>>
      BY <1>28, <2>1 DEF StopTerminate
    <3>. QED
      BY <3>1
  <2>2. CASE stopping # None
    <3>1. /\ inbox' = [inbox EXCEPT ![stopping] = <<>>]
          /\ outbox' = [outbox EXCEPT ![stopping] = <<>>]
      BY <1>28, <2>2 DEF StopTerminate
    <3>2. <<>> \in Seq(CommandMessages) /\ <<>> \in Seq(EventMessages)
      OBVIOUS
    <3>. QED
      BY <3>1, <3>2
  <2>. QED
    BY <2>1, <2>2
<1>29. CASE StopReturn
  BY <1>29 DEF StopReturn
<1>30. CASE UNCHANGED vars
  BY <1>30
<1>. QED
  BY <1>1, <1>2, <1>3, <1>4, <1>5, <1>6, <1>7, <1>8, <1>9, <1>10, <1>11, <1>12, <1>13, <1>14,
     <1>15, <1>16, <1>17, <1>18, <1>19, <1>20, <1>21, <1>22, <1>23, <1>24, <1>25, <1>26, <1>27,
     <1>28, <1>29, <1>30
  DEF Next, WorkerStep, MonitorStep, RequestStep, StopStep

\* The monitor alone changes the transport for another, and knows it does.
LEMMA MonitorKnowsTransportStep == ASSUME IInv, [Next]_vars PROVE MonitorKnowsTransport'
<1>. USE SupervisorAssumption
     DEF IInv, TypeOK, MonitorKnowsTransport, Generations, None,
         flags, answers, wires, workers, watch, calls, stops, vars
<1>1. ASSUME NEW g \in Generations, Boot(g)
       PROVE MonitorKnowsTransport'
  BY <1>1 DEF Boot
<1>2. ASSUME NEW g \in Generations, Execute(g)
       PROVE MonitorKnowsTransport'
  BY <1>2 DEF Execute
<1>3. ASSUME NEW g \in Generations, ObserveCancel(g)
       PROVE MonitorKnowsTransport'
  BY <1>3 DEF ObserveCancel
<1>4. ASSUME NEW g \in Generations, Shutdown(g)
       PROVE MonitorKnowsTransport'
  BY <1>4 DEF Shutdown
<1>5. ASSUME NEW g \in Generations, Report(g)
       PROVE MonitorKnowsTransport'
  BY <1>5 DEF Report
<1>6. ASSUME NEW g \in Generations, Crash(g)
       PROVE MonitorKnowsTransport'
  BY <1>6 DEF Crash
<1>7. CASE SpawnProcess
  BY <1>7 DEF SpawnProcess
<1>8. CASE SpawnRefused
  BY <1>8 DEF SpawnRefused
<1>9. CASE Register
  BY <1>9 DEF Register
<1>10. CASE SpawnReady
  BY <1>10 DEF SpawnReady
<1>11. CASE SpawnFails
  BY <1>11 DEF SpawnFails
<1>12. CASE SpawnAbandoned
  BY <1>12 DEF SpawnAbandoned
<1>13. CASE MonitorTop
  BY <1>13 DEF MonitorTop
<1>14. CASE MonitorReceive
  BY <1>14 DEF MonitorReceive
<1>15. CASE MonitorQuiet
  BY <1>15 DEF MonitorQuiet
<1>16. CASE MonitorCheck
  BY <1>16 DEF MonitorCheck
<1>17. CASE RecoverBegin
  BY <1>17 DEF RecoverBegin
<1>18. CASE RecoverTerminate
  BY <1>18 DEF RecoverTerminate
<1>19. CASE RecoverSettle
  BY <1>19 DEF RecoverSettle
<1>20. ASSUME NEW c \in Commands, Refuse(c)
       PROVE MonitorKnowsTransport'
  BY <1>20 DEF Refuse
<1>21. ASSUME NEW c \in Commands, Request(c)
       PROVE MonitorKnowsTransport'
  BY <1>21 DEF Request
<1>22. ASSUME NEW c \in Commands, RequestUnsent(c)
       PROVE MonitorKnowsTransport'
  BY <1>22 DEF RequestUnsent
<1>23. ASSUME NEW c \in Commands, Collect(c)
       PROVE MonitorKnowsTransport'
  BY <1>23 DEF Collect
<1>24. ASSUME NEW c \in Commands, Deadline(c)
       PROVE MonitorKnowsTransport'
  BY <1>24 DEF Deadline
<1>25. ASSUME NEW c \in Commands, GiveUp(c)
       PROVE MonitorKnowsTransport'
  BY <1>25 DEF GiveUp
<1>26. ASSUME NEW c \in Commands, Cancel(c)
       PROVE MonitorKnowsTransport'
  BY <1>26 DEF Cancel
<1>27. CASE StopBegin
  BY <1>27 DEF StopBegin
<1>28. CASE StopTerminate
  BY <1>28 DEF StopTerminate
<1>29. CASE StopReturn
  BY <1>29 DEF StopReturn
<1>30. CASE UNCHANGED vars
  BY <1>30
<1>. QED
  BY <1>1, <1>2, <1>3, <1>4, <1>5, <1>6, <1>7, <1>8, <1>9, <1>10, <1>11, <1>12, <1>13, <1>14,
     <1>15, <1>16, <1>17, <1>18, <1>19, <1>20, <1>21, <1>22, <1>23, <1>24, <1>25, <1>26, <1>27,
     <1>28, <1>29, <1>30
  DEF Next, WorkerStep, MonitorStep, RequestStep, StopStep

\* Spawning waits until the last process is dead.
LEMMA OnlyTheLastLivesStep == ASSUME IInv, [Next]_vars PROVE OnlyTheLastLives'
<1>. USE SupervisorAssumption
     DEF IInv, TypeOK, MonitorKnowsTransport, OnlyTheLastLives, NobodyLives, Alive, Generations, None,
         Die, Terminate, flags, answers, wires, workers, watch, calls, stops, vars
<1>1. ASSUME NEW g \in Generations, Boot(g)
       PROVE OnlyTheLastLives'
  BY <1>1 DEF Boot
<1>2. ASSUME NEW g \in Generations, Execute(g)
       PROVE OnlyTheLastLives'
  BY <1>2 DEF Execute
<1>3. ASSUME NEW g \in Generations, ObserveCancel(g)
       PROVE OnlyTheLastLives'
  BY <1>3 DEF ObserveCancel
<1>4. ASSUME NEW g \in Generations, Shutdown(g)
       PROVE OnlyTheLastLives'
  BY <1>4 DEF Shutdown
<1>5. ASSUME NEW g \in Generations, Report(g)
       PROVE OnlyTheLastLives'
  BY <1>5 DEF Report
<1>6. ASSUME NEW g \in Generations, Crash(g)
       PROVE OnlyTheLastLives'
  BY <1>6 DEF Crash
<1>7. CASE SpawnProcess
  BY <1>7 DEF SpawnProcess
<1>8. CASE SpawnRefused
  BY <1>8 DEF SpawnRefused
<1>9. CASE Register
  BY <1>9 DEF Register
<1>10. CASE SpawnReady
  BY <1>10 DEF SpawnReady
<1>11. CASE SpawnFails
  BY <1>11 DEF SpawnFails
<1>12. CASE SpawnAbandoned
  BY <1>12 DEF SpawnAbandoned
<1>13. CASE MonitorTop
  BY <1>13 DEF MonitorTop
<1>14. CASE MonitorReceive
  BY <1>14 DEF MonitorReceive
<1>15. CASE MonitorQuiet
  BY <1>15 DEF MonitorQuiet
<1>16. CASE MonitorCheck
  BY <1>16 DEF MonitorCheck
<1>17. CASE RecoverBegin
  BY <1>17 DEF RecoverBegin
<1>18. CASE RecoverTerminate
  BY <1>18 DEF RecoverTerminate
<1>19. CASE RecoverSettle
  BY <1>19 DEF RecoverSettle
<1>20. ASSUME NEW c \in Commands, Refuse(c)
       PROVE OnlyTheLastLives'
  BY <1>20 DEF Refuse
<1>21. ASSUME NEW c \in Commands, Request(c)
       PROVE OnlyTheLastLives'
  BY <1>21 DEF Request
<1>22. ASSUME NEW c \in Commands, RequestUnsent(c)
       PROVE OnlyTheLastLives'
  BY <1>22 DEF RequestUnsent
<1>23. ASSUME NEW c \in Commands, Collect(c)
       PROVE OnlyTheLastLives'
  BY <1>23 DEF Collect
<1>24. ASSUME NEW c \in Commands, Deadline(c)
       PROVE OnlyTheLastLives'
  BY <1>24 DEF Deadline
<1>25. ASSUME NEW c \in Commands, GiveUp(c)
       PROVE OnlyTheLastLives'
  BY <1>25 DEF GiveUp
<1>26. ASSUME NEW c \in Commands, Cancel(c)
       PROVE OnlyTheLastLives'
  BY <1>26 DEF Cancel
<1>27. CASE StopBegin
  BY <1>27 DEF StopBegin
<1>28. CASE StopTerminate
  <2>1. \A g \in Generations : Alive(g)' => Alive(g)
    <3>1. CASE stopping = None
      BY <1>28, <3>1 DEF StopTerminate
    <3>2. CASE stopping # None
      <4>1. process' = [process EXCEPT ![stopping] = "dead"]
        BY <1>28, <3>2 DEF StopTerminate
      <4>. QED
        BY <4>1
    <3>. QED
      BY <3>1, <3>2
  <2>2. UNCHANGED <<monitor, generation>>
    BY <1>28 DEF StopTerminate
  <2>. QED
    BY <2>1, <2>2
<1>29. CASE StopReturn
  BY <1>29 DEF StopReturn
<1>30. CASE UNCHANGED vars
  BY <1>30
<1>. QED
  BY <1>1, <1>2, <1>3, <1>4, <1>5, <1>6, <1>7, <1>8, <1>9, <1>10, <1>11, <1>12, <1>13, <1>14,
     <1>15, <1>16, <1>17, <1>18, <1>19, <1>20, <1>21, <1>22, <1>23, <1>24, <1>25, <1>26, <1>27,
     <1>28, <1>29, <1>30
  DEF Next, WorkerStep, MonitorStep, RequestStep, StopStep

\* The circuit opens on a dead worker, with the transport dropped.
LEMMA CircuitStep ==
  ASSUME IInv, [Next]_vars PROVE OpenCircuitHasNoTransport' /\ CircuitIsFinal'
<1>. USE SupervisorAssumption
     DEF IInv, TypeOK, MonitorKnowsTransport, OnlyTheLastLives, NobodyLives, OpenCircuitHasNoTransport,
         CircuitIsFinal, Alive, Generations, None,
         Die, Terminate, flags, answers, wires, workers, watch, calls, stops, vars
<1>1. ASSUME NEW g \in Generations, Boot(g)
       PROVE OpenCircuitHasNoTransport' /\ CircuitIsFinal'
  BY <1>1 DEF Boot
<1>2. ASSUME NEW g \in Generations, Execute(g)
       PROVE OpenCircuitHasNoTransport' /\ CircuitIsFinal'
  BY <1>2 DEF Execute
<1>3. ASSUME NEW g \in Generations, ObserveCancel(g)
       PROVE OpenCircuitHasNoTransport' /\ CircuitIsFinal'
  BY <1>3 DEF ObserveCancel
<1>4. ASSUME NEW g \in Generations, Shutdown(g)
       PROVE OpenCircuitHasNoTransport' /\ CircuitIsFinal'
  BY <1>4 DEF Shutdown
<1>5. ASSUME NEW g \in Generations, Report(g)
       PROVE OpenCircuitHasNoTransport' /\ CircuitIsFinal'
  BY <1>5 DEF Report
<1>6. ASSUME NEW g \in Generations, Crash(g)
       PROVE OpenCircuitHasNoTransport' /\ CircuitIsFinal'
  BY <1>6 DEF Crash
<1>7. CASE SpawnProcess
  BY <1>7 DEF SpawnProcess
<1>8. CASE SpawnRefused
  BY <1>8 DEF SpawnRefused
<1>9. CASE Register
  BY <1>9 DEF Register
<1>10. CASE SpawnReady
  BY <1>10 DEF SpawnReady
<1>11. CASE SpawnFails
  BY <1>11 DEF SpawnFails
<1>12. CASE SpawnAbandoned
  BY <1>12 DEF SpawnAbandoned
<1>13. CASE MonitorTop
  BY <1>13 DEF MonitorTop
<1>14. CASE MonitorReceive
  BY <1>14 DEF MonitorReceive
<1>15. CASE MonitorQuiet
  BY <1>15 DEF MonitorQuiet
<1>16. CASE MonitorCheck
  BY <1>16 DEF MonitorCheck
<1>17. CASE RecoverBegin
  BY <1>17 DEF RecoverBegin
<1>18. CASE RecoverTerminate
  BY <1>18 DEF RecoverTerminate
<1>19. CASE RecoverSettle
  BY <1>19 DEF RecoverSettle
<1>20. ASSUME NEW c \in Commands, Refuse(c)
       PROVE OpenCircuitHasNoTransport' /\ CircuitIsFinal'
  BY <1>20 DEF Refuse
<1>21. ASSUME NEW c \in Commands, Request(c)
       PROVE OpenCircuitHasNoTransport' /\ CircuitIsFinal'
  BY <1>21 DEF Request
<1>22. ASSUME NEW c \in Commands, RequestUnsent(c)
       PROVE OpenCircuitHasNoTransport' /\ CircuitIsFinal'
  BY <1>22 DEF RequestUnsent
<1>23. ASSUME NEW c \in Commands, Collect(c)
       PROVE OpenCircuitHasNoTransport' /\ CircuitIsFinal'
  BY <1>23 DEF Collect
<1>24. ASSUME NEW c \in Commands, Deadline(c)
       PROVE OpenCircuitHasNoTransport' /\ CircuitIsFinal'
  BY <1>24 DEF Deadline
<1>25. ASSUME NEW c \in Commands, GiveUp(c)
       PROVE OpenCircuitHasNoTransport' /\ CircuitIsFinal'
  BY <1>25 DEF GiveUp
<1>26. ASSUME NEW c \in Commands, Cancel(c)
       PROVE OpenCircuitHasNoTransport' /\ CircuitIsFinal'
  BY <1>26 DEF Cancel
<1>27. CASE StopBegin
  BY <1>27 DEF StopBegin
<1>28. CASE StopTerminate
  BY <1>28 DEF StopTerminate
<1>29. CASE StopReturn
  BY <1>29 DEF StopReturn
<1>30. CASE UNCHANGED vars
  BY <1>30
<1>. QED
  BY <1>1, <1>2, <1>3, <1>4, <1>5, <1>6, <1>7, <1>8, <1>9, <1>10, <1>11, <1>12, <1>13, <1>14,
     <1>15, <1>16, <1>17, <1>18, <1>19, <1>20, <1>21, <1>22, <1>23, <1>24, <1>25, <1>26, <1>27,
     <1>28, <1>29, <1>30
  DEF Next, WorkerStep, MonitorStep, RequestStep, StopStep

\* Put together: the invariant is inductive.
LEMMA InvStep == ASSUME IInv, [Next]_vars PROVE IInv'
<1>1. TypeOK'
  BY ControlTypeStep, CommandTypeStep, PipesTypeStep
     DEF TypeOK, ControlTypeOK, CommandTypeOK, PipesTypeOK
<1>. QED
  BY <1>1, MonitorKnowsTransportStep, OnlyTheLastLivesStep, CircuitStep DEF IInv

\* The invariant holds for ever.
THEOREM SupervisorInvariant == Spec => []IInv
<1>. QED
  BY InvInit, InvStep, PTL DEF Spec

-----------------------------------------------------------------------------
\* The record stays in its type; the restart budget is never exceeded.
THEOREM SupervisorTypeCorrect == Spec => []TypeOK
<1>1. IInv => TypeOK
  BY DEF IInv
<1>. QED
  BY SupervisorInvariant, <1>1, PTL

\* However crashes, restarts and stop() overlap, a second process of the
\* worker is never alive.
THEOREM AtMostOneProcess == Spec => []OneProcess
<1>1. ASSUME IInv PROVE OneProcess
  <2>. DEFINE Living == {g \in Generations : Alive(g)}
              last == IF monitor = "register" THEN generation + 1 ELSE generation
  <2>1. Living \subseteq {last}
    BY <1>1 DEF IInv, OnlyTheLastLives
  <2>2. IsFiniteSet({last}) /\ Cardinality({last}) = 1
    BY FS_Singleton
  <2>3. Cardinality(Living) <= 1
    BY <2>1, <2>2, FS_Subset
  <2>. QED
    BY <2>3 DEF OneProcess
<1>. QED
  BY SupervisorInvariant, <1>1, PTL

\* Once the circuit is open the worker is gone for good.
THEOREM OpenCircuitIsFinal == Spec => []CircuitIsFinal
<1>1. IInv => CircuitIsFinal
  BY DEF IInv
<1>. QED
  BY SupervisorInvariant, <1>1, PTL

\* Processes are limited, while the worker is served and after.
THEOREM ProcessesStayLimited == Spec => []ProcessesAreLimited
<1>. QED
  BY AtMostOneProcess, OpenCircuitIsFinal, PTL DEF ProcessesAreLimited

-----------------------------------------------------------------------------
CommandsNotOf(c) == {m \in CommandMessages : m.kind # "shutdown" => m.command # c}
EventsNotOf(c) == {e \in EventMessages : e.kind \notin {"ready", "stopped"} => e.command # c}

\* Nobody has heard of a command that has not been requested.
NewIsUnheard ==
  \A c \in Commands : call[c] = "new" =>
    /\ outcomes[c] = "none"
    /\ \A g \in Generations : /\ active[g] # c
                              /\ inbox[g] \in Seq(CommandsNotOf(c))
                              /\ outbox[g] \in Seq(EventsNotOf(c))

\* What is pending has no outcome yet.
PendingHasNoOutcome == \A c \in pending : outcomes[c] = "none"

AnswerInv == IInv /\ EveryCallIsAnswerable /\ NewIsUnheard /\ PendingHasNoOutcome

\* An idle execution thread works on no command.
LEMMA NoCommandIsIdle == \A c \in Commands : NoCommand # c
<1>. QED
  BY SupervisorAssumption

\* A command is heard of only when its request sends it.
LEMMA UnheardStep == ASSUME AnswerInv, [Next]_vars PROVE NewIsUnheard'
<1>. SUFFICES ASSUME NEW d \in Commands, call'[d] = "new"
              PROVE  /\ outcomes'[d] = "none"
                     /\ \A h \in Generations : /\ active'[h] # d
                                               /\ inbox'[h] \in Seq(CommandsNotOf(d))
                                               /\ outbox'[h] \in Seq(EventsNotOf(d))
  BY DEF NewIsUnheard, CommandsNotOf, EventsNotOf, CommandMessages, EventMessages
<1>. USE SupervisorAssumption
     DEF AnswerInv, IInv, TypeOK, MonitorKnowsTransport, Generations, None, CanSend, Send, TrySend, Post, Die,
         Terminate, FailPending, Awaiting,
         flags, answers, wires, workers, watch, calls, stops, vars
<1>a. call[d] = "new" =>
        /\ outcomes[d] = "none"
        /\ \A h \in Generations : /\ active[h] # d
                                  /\ inbox[h] \in Seq(CommandsNotOf(d))
                                  /\ outbox[h] \in Seq(EventsNotOf(d))
  BY DEF NewIsUnheard
<1>b. <<>> \in Seq(CommandsNotOf(d)) /\ <<>> \in Seq(EventsNotOf(d))
  OBVIOUS
<1>1. ASSUME NEW g \in Generations, Boot(g)
       PROVE /\ outcomes'[d] = "none"
             /\ \A h \in Generations : /\ active'[h] # d
                                       /\ inbox'[h] \in Seq(CommandsNotOf(d))
                                       /\ outbox'[h] \in Seq(EventsNotOf(d))
  <2>1. [kind |-> "ready"] \in EventsNotOf(d)
    BY DEF EventsNotOf, EventMessages
  <2>. QED
    BY <1>1, <1>a, <2>1 DEF Boot
<1>2. ASSUME NEW g \in Generations, Execute(g)
       PROVE /\ outcomes'[d] = "none"
             /\ \A h \in Generations : /\ active'[h] # d
                                       /\ inbox'[h] \in Seq(CommandsNotOf(d))
                                       /\ outbox'[h] \in Seq(EventsNotOf(d))
  <2>1. Head(inbox[g]) \in CommandsNotOf(d) /\ Tail(inbox[g]) \in Seq(CommandsNotOf(d))
    BY <1>2, <1>a DEF Execute
  <2>2. Head(inbox[g]).command \in Commands \ {d}
    BY <1>2, <2>1 DEF Execute, CommandsNotOf, CommandMessages
  <2>3. [kind |-> "error", command |-> Head(inbox[g]).command] \in EventsNotOf(d)
    BY <2>2 DEF EventsNotOf, EventMessages
  <2>4. /\ inbox' = [inbox EXCEPT ![g] = Tail(@)]
        /\ UNCHANGED <<call, outcomes>>
    BY <1>2 DEF Execute
  <2>5. \/ UNCHANGED outbox
        \/ outbox' = [outbox EXCEPT
                        ![g] = Append(@, [kind |-> "error", command |-> Head(inbox[g]).command])]
    BY <1>2 DEF Execute
  <2>6. UNCHANGED active \/ active' = [active EXCEPT ![g] = Head(inbox[g]).command]
    BY <1>2 DEF Execute
  <2>7. \A h \in Generations : active'[h] # d
    BY <1>a, <2>2, <2>4, <2>6
  <2>8. \A h \in Generations : inbox'[h] \in Seq(CommandsNotOf(d))
    BY <1>a, <2>1, <2>4
  <2>9. \A h \in Generations : outbox'[h] \in Seq(EventsNotOf(d))
    <3>1. CASE UNCHANGED outbox
      BY <1>a, <2>4, <3>1
    <3>2. CASE outbox' = [outbox EXCEPT ![g] = Append(@, [kind |-> "error", command |-> Head(inbox[g]).command])]
      BY <1>a, <2>3, <2>4, <3>2
    <3>. QED
      BY <2>5, <3>1, <3>2
  <2>. QED
    BY <1>a, <2>4, <2>7, <2>8, <2>9
<1>3. ASSUME NEW g \in Generations, ObserveCancel(g)
       PROVE /\ outcomes'[d] = "none"
             /\ \A h \in Generations : /\ active'[h] # d
                                       /\ inbox'[h] \in Seq(CommandsNotOf(d))
                                       /\ outbox'[h] \in Seq(EventsNotOf(d))
  BY <1>3, <1>a, <1>b, NoCommandIsIdle DEF ObserveCancel
<1>4. ASSUME NEW g \in Generations, Shutdown(g)
       PROVE /\ outcomes'[d] = "none"
             /\ \A h \in Generations : /\ active'[h] # d
                                       /\ inbox'[h] \in Seq(CommandsNotOf(d))
                                       /\ outbox'[h] \in Seq(EventsNotOf(d))
  <2>1. [kind |-> "stopped"] \in EventsNotOf(d)
    BY DEF EventsNotOf, EventMessages
  <2>. QED
    BY <1>4, <1>a, <1>b, <2>1, NoCommandIsIdle DEF Shutdown
<1>5. ASSUME NEW g \in Generations, Report(g)
       PROVE /\ outcomes'[d] = "none"
             /\ \A h \in Generations : /\ active'[h] # d
                                       /\ inbox'[h] \in Seq(CommandsNotOf(d))
                                       /\ outbox'[h] \in Seq(EventsNotOf(d))
  <2>1. PICK kind \in {"result", "error", "cancelled"} :
          outbox' = [outbox EXCEPT ![g] = Append(@, [kind |-> kind, command |-> active[g]])]
    BY <1>5 DEF Report
  <2>2. call[d] = "new"
    BY <1>5 DEF Report
  <2>3. active[g] \in Commands \ {d}
    BY <1>5, <2>2, <1>a DEF Report
  <2>4. [kind |-> kind, command |-> active[g]] \in EventsNotOf(d)
    BY <2>3 DEF EventsNotOf, EventMessages
  <2>5. UNCHANGED <<inbox, outcomes>> /\ active' = [active EXCEPT ![g] = NoCommand]
    BY <1>5 DEF Report
  <2>. QED
    BY <1>a, <2>1, <2>2, <2>4, <2>5, NoCommandIsIdle
<1>6. ASSUME NEW g \in Generations, Crash(g)
       PROVE /\ outcomes'[d] = "none"
             /\ \A h \in Generations : /\ active'[h] # d
                                       /\ inbox'[h] \in Seq(CommandsNotOf(d))
                                       /\ outbox'[h] \in Seq(EventsNotOf(d))
  BY <1>6, <1>a, <1>b, NoCommandIsIdle DEF Crash
<1>7. CASE SpawnProcess
  BY <1>7, <1>a, <1>b, NoCommandIsIdle DEF SpawnProcess
<1>8. CASE SpawnRefused
  BY <1>8, <1>a, <1>b, NoCommandIsIdle DEF SpawnRefused
<1>9. CASE Register
  BY <1>9, <1>a, <1>b, NoCommandIsIdle DEF Register
<1>10. CASE SpawnReady
  <2>1. call[d] = "new" /\ handled \in Generations /\ UNCHANGED <<active, inbox>>
    BY <1>10 DEF SpawnReady
  <2>2. Head(outbox[handled]) \in EventsNotOf(d) /\ Tail(outbox[handled]) \in Seq(EventsNotOf(d))
    BY <1>10, <1>a, <2>1 DEF SpawnReady, Receive
  <2>3. \/ UNCHANGED outcomes
        \/ /\ Head(outbox[handled]).kind \notin {"ready", "stopped"}
           /\ outcomes' = [outcomes EXCEPT ![Head(outbox[handled]).command] = Head(outbox[handled]).kind]
    BY <1>10 DEF SpawnReady, Receive, Consume, Answer
  <2>4. outcomes'[d] = "none"
    BY <1>a, <2>1, <2>2, <2>3 DEF EventsNotOf
  <2>5. outbox' = [outbox EXCEPT ![handled] = Tail(@)]
    BY <1>10 DEF SpawnReady, Receive
  <2>. QED
    BY <1>a, <2>1, <2>2, <2>4, <2>5
<1>11. CASE SpawnFails
  BY <1>11, <1>a, <1>b, NoCommandIsIdle DEF SpawnFails
<1>12. CASE SpawnAbandoned
  BY <1>12, <1>a, <1>b, NoCommandIsIdle DEF SpawnAbandoned
<1>13. CASE MonitorTop
  BY <1>13, <1>a, <1>b, NoCommandIsIdle DEF MonitorTop
<1>14. CASE MonitorReceive
  <2>1. call[d] = "new" /\ handled \in Generations /\ UNCHANGED <<active, inbox>>
    BY <1>14 DEF MonitorReceive
  <2>2. Head(outbox[handled]) \in EventsNotOf(d) /\ Tail(outbox[handled]) \in Seq(EventsNotOf(d))
    BY <1>14, <1>a, <2>1 DEF MonitorReceive, Receive
  <2>3. \/ UNCHANGED outcomes
        \/ /\ Head(outbox[handled]).kind \notin {"ready", "stopped"}
           /\ outcomes' = [outcomes EXCEPT ![Head(outbox[handled]).command] = Head(outbox[handled]).kind]
    BY <1>14 DEF MonitorReceive, Receive, Consume, Answer
  <2>4. outcomes'[d] = "none"
    BY <1>a, <2>1, <2>2, <2>3 DEF EventsNotOf
  <2>5. outbox' = [outbox EXCEPT ![handled] = Tail(@)]
    BY <1>14 DEF MonitorReceive, Receive
  <2>. QED
    BY <1>a, <2>1, <2>2, <2>4, <2>5
<1>15. CASE MonitorQuiet
  BY <1>15, <1>a, <1>b, NoCommandIsIdle DEF MonitorQuiet
<1>16. CASE MonitorCheck
  BY <1>16, <1>a, <1>b, NoCommandIsIdle DEF MonitorCheck
<1>17. CASE RecoverBegin
  BY <1>17, <1>a, <1>b, NoCommandIsIdle DEF RecoverBegin
<1>18. CASE RecoverTerminate
  BY <1>18, <1>a, <1>b, NoCommandIsIdle DEF RecoverTerminate
<1>19. CASE RecoverSettle
  <2>1. call[d] = "new" /\ d \notin pending
    BY <1>19 DEF RecoverSettle, EveryCallIsAnswerable
  <2>. QED
    BY <1>19, <1>a, <2>1 DEF RecoverSettle
<1>20. ASSUME NEW c \in Commands, Refuse(c)
       PROVE /\ outcomes'[d] = "none"
             /\ \A h \in Generations : /\ active'[h] # d
                                       /\ inbox'[h] \in Seq(CommandsNotOf(d))
                                       /\ outbox'[h] \in Seq(EventsNotOf(d))
  BY <1>20, <1>a, <1>b, NoCommandIsIdle DEF Refuse
<1>21. ASSUME NEW c \in Commands, Request(c)
       PROVE /\ outcomes'[d] = "none"
             /\ \A h \in Generations : /\ active'[h] # d
                                       /\ inbox'[h] \in Seq(CommandsNotOf(d))
                                       /\ outbox'[h] \in Seq(EventsNotOf(d))
  <2>1. c # d /\ call[d] = "new" /\ transport \in Generations
    BY <1>21 DEF Request, Admitted
  <2>2. [kind |-> "execute", command |-> c] \in CommandsNotOf(d)
    BY <2>1 DEF CommandsNotOf, CommandMessages
  <2>3. /\ inbox' = [inbox EXCEPT ![transport] = Append(@, [kind |-> "execute", command |-> c])]
        /\ UNCHANGED <<outcomes, active, outbox>>
    BY <1>21 DEF Request
  <2>. QED
    BY <1>a, <2>1, <2>2, <2>3
<1>22. ASSUME NEW c \in Commands, RequestUnsent(c)
       PROVE /\ outcomes'[d] = "none"
             /\ \A h \in Generations : /\ active'[h] # d
                                       /\ inbox'[h] \in Seq(CommandsNotOf(d))
                                       /\ outbox'[h] \in Seq(EventsNotOf(d))
  BY <1>22, <1>a, <1>b, NoCommandIsIdle DEF RequestUnsent
<1>23. ASSUME NEW c \in Commands, Collect(c)
       PROVE /\ outcomes'[d] = "none"
             /\ \A h \in Generations : /\ active'[h] # d
                                       /\ inbox'[h] \in Seq(CommandsNotOf(d))
                                       /\ outbox'[h] \in Seq(EventsNotOf(d))
  BY <1>23, <1>a, <1>b, NoCommandIsIdle DEF Collect, Outcomes
<1>24. ASSUME NEW c \in Commands, Deadline(c)
       PROVE /\ outcomes'[d] = "none"
             /\ \A h \in Generations : /\ active'[h] # d
                                       /\ inbox'[h] \in Seq(CommandsNotOf(d))
                                       /\ outbox'[h] \in Seq(EventsNotOf(d))
  <2>1. c # d /\ call[d] = "new"
    BY <1>24 DEF Deadline
  <2>2. [kind |-> "cancel", command |-> c] \in CommandsNotOf(d)
    BY <2>1 DEF CommandsNotOf, CommandMessages
  <2>3. UNCHANGED <<active, outbox, outcomes>>
    BY <1>24 DEF Deadline
  <2>4. \/ UNCHANGED inbox
        \/ via[c] \in Generations /\ inbox' = [inbox EXCEPT ![via[c]] = Append(@, [kind |-> "cancel", command |-> c])]
    BY <1>24 DEF Deadline
  <2>5. \A h \in Generations : inbox'[h] \in Seq(CommandsNotOf(d))
    <3>1. CASE UNCHANGED inbox
      BY <1>a, <2>1, <3>1
    <3>2. CASE via[c] \in Generations /\ inbox' = [inbox EXCEPT ![via[c]] = Append(@, [kind |-> "cancel", command |-> c])]
      BY <1>a, <2>1, <2>2, <3>2
    <3>. QED
      BY <2>4, <3>1, <3>2
  <2>. QED
    BY <1>a, <2>1, <2>3, <2>5
<1>25. ASSUME NEW c \in Commands, GiveUp(c)
       PROVE /\ outcomes'[d] = "none"
             /\ \A h \in Generations : /\ active'[h] # d
                                       /\ inbox'[h] \in Seq(CommandsNotOf(d))
                                       /\ outbox'[h] \in Seq(EventsNotOf(d))
  BY <1>25, <1>a, <1>b, NoCommandIsIdle DEF GiveUp
<1>26. ASSUME NEW c \in Commands, Cancel(c)
       PROVE /\ outcomes'[d] = "none"
             /\ \A h \in Generations : /\ active'[h] # d
                                       /\ inbox'[h] \in Seq(CommandsNotOf(d))
                                       /\ outbox'[h] \in Seq(EventsNotOf(d))
  <2>1. c # d /\ call[d] = "new"
    BY <1>26 DEF Cancel, EveryCallIsAnswerable
  <2>2. [kind |-> "cancel", command |-> c] \in CommandsNotOf(d)
    BY <2>1 DEF CommandsNotOf, CommandMessages
  <2>3. UNCHANGED <<active, outbox, outcomes>>
    BY <1>26 DEF Cancel
  <2>4. \/ UNCHANGED inbox
        \/ transport \in Generations /\ inbox' = [inbox EXCEPT ![transport] = Append(@, [kind |-> "cancel", command |-> c])]
    BY <1>26 DEF Cancel
  <2>5. \A h \in Generations : inbox'[h] \in Seq(CommandsNotOf(d))
    <3>1. CASE UNCHANGED inbox
      BY <1>a, <2>1, <3>1
    <3>2. CASE transport \in Generations /\ inbox' = [inbox EXCEPT ![transport] = Append(@, [kind |-> "cancel", command |-> c])]
      BY <1>a, <2>1, <2>2, <3>2
    <3>. QED
      BY <2>4, <3>1, <3>2
  <2>. QED
    BY <1>a, <2>1, <2>3, <2>5
<1>27. CASE StopBegin
  <2>1. call[d] = "new"
    BY <1>27 DEF StopBegin
  <2>2. [kind |-> "shutdown"] \in CommandsNotOf(d)
    BY <2>1 DEF CommandsNotOf, CommandMessages
  <2>3. UNCHANGED <<active, outbox, outcomes>>
    BY <1>27 DEF StopBegin
  <2>4. \/ UNCHANGED inbox
        \/ transport \in Generations /\ inbox' = [inbox EXCEPT ![transport] = Append(@, [kind |-> "shutdown"])]
    BY <1>27 DEF StopBegin
  <2>5. \A h \in Generations : inbox'[h] \in Seq(CommandsNotOf(d))
    <3>1. CASE UNCHANGED inbox
      BY <1>a, <2>1, <3>1
    <3>2. CASE transport \in Generations /\ inbox' = [inbox EXCEPT ![transport] = Append(@, [kind |-> "shutdown"])]
      BY <1>a, <2>1, <2>2, <3>2
    <3>. QED
      BY <2>4, <3>1, <3>2
  <2>. QED
    BY <1>a, <2>1, <2>3, <2>5
<1>28. CASE StopTerminate
  <2>1. call[d] = "new" /\ UNCHANGED outcomes
    BY <1>28 DEF StopTerminate
  <2>2. CASE stopping = None
    <3>1. UNCHANGED <<active, inbox, outbox>>
      BY <1>28, <2>2 DEF StopTerminate
    <3>. QED
      BY <1>a, <2>1, <3>1
  <2>3. CASE stopping # None
    <3>1. /\ inbox' = [inbox EXCEPT ![stopping] = <<>>]
          /\ outbox' = [outbox EXCEPT ![stopping] = <<>>]
          /\ active' = [active EXCEPT ![stopping] = NoCommand]
      BY <1>28, <2>3 DEF StopTerminate
    <3>. QED
      BY <1>a, <1>b, <2>1, <3>1, NoCommandIsIdle
  <2>. QED
    BY <2>2, <2>3
<1>29. CASE StopReturn
  <2>1. call[d] = "new" /\ d \notin pending
    BY <1>29 DEF StopReturn, EveryCallIsAnswerable
  <2>. QED
    BY <1>29, <1>a, <2>1 DEF StopReturn
<1>30. CASE UNCHANGED vars
  BY <1>30, <1>a, <1>b, NoCommandIsIdle
<1>. QED
  BY <1>1, <1>2, <1>3, <1>4, <1>5, <1>6, <1>7, <1>8, <1>9, <1>10, <1>11, <1>12, <1>13, <1>14,
     <1>15, <1>16, <1>17, <1>18, <1>19, <1>20, <1>21, <1>22, <1>23, <1>24, <1>25, <1>26, <1>27,
     <1>28, <1>29, <1>30
  DEF Next, WorkerStep, MonitorStep, RequestStep, StopStep

\* No step leaves a caller without an answer to come, or a pending command
\* without a caller.
LEMMA AnswerStep ==
  ASSUME AnswerInv, [Next]_vars PROVE EveryCallIsAnswerable' /\ PendingHasNoOutcome'
<1>. USE DEF AnswerInv, PendingHasNoOutcome, NewIsUnheard, IInv, TypeOK, EveryCallIsAnswerable, Awaiting, Outcomes, Answers, FailPending, Admitted,
         flags, answers, wires, workers, watch, calls, stops, vars
<1>1. ASSUME NEW g \in Generations, Boot(g)
       PROVE EveryCallIsAnswerable' /\ PendingHasNoOutcome'
  BY <1>1 DEF Boot
<1>2. ASSUME NEW g \in Generations, Execute(g)
       PROVE EveryCallIsAnswerable' /\ PendingHasNoOutcome'
  BY <1>2 DEF Execute
<1>3. ASSUME NEW g \in Generations, ObserveCancel(g)
       PROVE EveryCallIsAnswerable' /\ PendingHasNoOutcome'
  BY <1>3 DEF ObserveCancel
<1>4. ASSUME NEW g \in Generations, Shutdown(g)
       PROVE EveryCallIsAnswerable' /\ PendingHasNoOutcome'
  BY <1>4 DEF Shutdown
<1>5. ASSUME NEW g \in Generations, Report(g)
       PROVE EveryCallIsAnswerable' /\ PendingHasNoOutcome'
  BY <1>5 DEF Report
<1>6. ASSUME NEW g \in Generations, Crash(g)
       PROVE EveryCallIsAnswerable' /\ PendingHasNoOutcome'
  BY <1>6 DEF Crash
<1>7. CASE SpawnProcess
  BY <1>7 DEF SpawnProcess
<1>8. CASE SpawnRefused
  BY <1>8 DEF SpawnRefused
<1>9. CASE Register
  BY <1>9 DEF Register
<1>10. CASE SpawnReady
  <2>1. Head(outbox[handled]).kind # "none"
    BY <1>10, SupervisorAssumption, EventRead DEF SpawnReady, Receive, MonitorKnowsTransport,
     PipesTypeOK, None, Generations
  <2>2. UNCHANGED call
    BY <1>10 DEF SpawnReady
  <2>3. \/ UNCHANGED <<pending, outcomes>>
        \/ /\ outcomes' = [outcomes EXCEPT ![Head(outbox[handled]).command] = Head(outbox[handled]).kind]
           /\ pending' = pending \ {Head(outbox[handled]).command}
    BY <1>10 DEF SpawnReady, Receive, Consume, Answer
  <2>. QED
    BY <2>1, <2>2, <2>3
<1>11. CASE SpawnFails
  BY <1>11 DEF SpawnFails
<1>12. CASE SpawnAbandoned
  BY <1>12 DEF SpawnAbandoned
<1>13. CASE MonitorTop
  BY <1>13 DEF MonitorTop
<1>14. CASE MonitorReceive
  <2>1. Head(outbox[handled]).kind # "none"
    BY <1>14, SupervisorAssumption, EventRead DEF MonitorReceive, Receive, MonitorKnowsTransport,
     PipesTypeOK, None, Generations
  <2>2. UNCHANGED call
    BY <1>14 DEF MonitorReceive
  <2>3. \/ UNCHANGED <<pending, outcomes>>
        \/ /\ outcomes' = [outcomes EXCEPT ![Head(outbox[handled]).command] = Head(outbox[handled]).kind]
           /\ pending' = pending \ {Head(outbox[handled]).command}
    BY <1>14 DEF MonitorReceive, Receive, Consume, Answer
  <2>. QED
    BY <2>1, <2>2, <2>3
<1>15. CASE MonitorQuiet
  BY <1>15 DEF MonitorQuiet
<1>16. CASE MonitorCheck
  BY <1>16 DEF MonitorCheck
<1>17. CASE RecoverBegin
  BY <1>17 DEF RecoverBegin
<1>18. CASE RecoverTerminate
  BY <1>18 DEF RecoverTerminate
<1>19. CASE RecoverSettle
  BY <1>19 DEF RecoverSettle
<1>20. ASSUME NEW c \in Commands, Refuse(c)
       PROVE EveryCallIsAnswerable' /\ PendingHasNoOutcome'
  BY <1>20 DEF Refuse
<1>21. ASSUME NEW c \in Commands, Request(c)
       PROVE EveryCallIsAnswerable' /\ PendingHasNoOutcome'
  BY <1>21 DEF Request
<1>22. ASSUME NEW c \in Commands, RequestUnsent(c)
       PROVE EveryCallIsAnswerable' /\ PendingHasNoOutcome'
  BY <1>22 DEF RequestUnsent
<1>23. ASSUME NEW c \in Commands, Collect(c)
       PROVE EveryCallIsAnswerable' /\ PendingHasNoOutcome'
  BY <1>23 DEF Collect
<1>24. ASSUME NEW c \in Commands, Deadline(c)
       PROVE EveryCallIsAnswerable' /\ PendingHasNoOutcome'
  BY <1>24 DEF Deadline
<1>25. ASSUME NEW c \in Commands, GiveUp(c)
       PROVE EveryCallIsAnswerable' /\ PendingHasNoOutcome'
  BY <1>25 DEF GiveUp
<1>26. ASSUME NEW c \in Commands, Cancel(c)
       PROVE EveryCallIsAnswerable' /\ PendingHasNoOutcome'
  BY <1>26 DEF Cancel
<1>27. CASE StopBegin
  BY <1>27 DEF StopBegin
<1>28. CASE StopTerminate
  BY <1>28 DEF StopTerminate
<1>29. CASE StopReturn
  BY <1>29 DEF StopReturn
<1>30. CASE UNCHANGED vars
  BY <1>30
<1>. QED
  BY <1>1, <1>2, <1>3, <1>4, <1>5, <1>6, <1>7, <1>8, <1>9, <1>10, <1>11, <1>12, <1>13, <1>14,
     <1>15, <1>16, <1>17, <1>18, <1>19, <1>20, <1>21, <1>22, <1>23, <1>24, <1>25, <1>26, <1>27,
     <1>28, <1>29, <1>30
  DEF Next, WorkerStep, MonitorStep, RequestStep, StopStep

\* Nobody waits.
LEMMA AnswerInvInit == ASSUME Init PROVE AnswerInv
<1>1. EveryCallIsAnswerable /\ PendingHasNoOutcome
  BY DEF Init, EveryCallIsAnswerable, PendingHasNoOutcome, Awaiting
<1>2. NewIsUnheard
  <2>1. \A c \in Commands : <<>> \in Seq(CommandsNotOf(c)) /\ <<>> \in Seq(EventsNotOf(c))
    OBVIOUS
  <2>. QED
    BY <2>1, SupervisorAssumption DEF Init, NewIsUnheard
<1>. QED
  BY <1>1, <1>2, InvInit DEF AnswerInv

\* The parts of the invariant hold each other up.
LEMMA AnswerInvStep == ASSUME AnswerInv, [Next]_vars PROVE AnswerInv'
<1>. QED
  BY InvStep, AnswerStep, UnheardStep DEF AnswerInv

\* Whoever waits has an answer there or coming, through crashes, timeouts,
\* restarts and stop().
THEOREM CallsStayAnswerable == Spec => []EveryCallIsAnswerable
<1>1. AnswerInv => EveryCallIsAnswerable
  BY DEF AnswerInv
<1>. QED
  BY AnswerInvInit, AnswerInvStep, <1>1, PTL DEF Spec

-----------------------------------------------------------------------------
\* What a sequence holds more than once.
Twice(s, m) == \E i, j \in 1 .. Len(s) : i # j /\ s[i] = m /\ s[j] = m

Reply(c) == [kind : {"result", "error", "cancelled"}, command : {c}]

\* Worker g has command c before it, at work or still in its pipe.
Works(g, c) == Has(inbox[g], Order(c)) \/ active[g] = c
Replied(g, c) == \E m \in Reply(c) : Has(outbox[g], m)

\* A command is ordered once, worked on once and answered once, by the worker
\* it was sent to.
Once(g, c) ==
  /\ ~Twice(inbox[g], Order(c))
  /\ ~(Has(inbox[g], Order(c)) /\ active[g] = c)
  /\ ~(Works(g, c) /\ Replied(g, c))
  /\ Works(g, c) \/ Replied(g, c) => via[c] = g

WorkedOnce == \A g \in Generations, c \in Commands : Once(g, c)

DeadAreIdle == \A g \in Generations : ~Alive(g) => inbox[g] = <<>> /\ active[g] = NoCommand

\* Who waits has sent; a monitor without a transport is about to get one, or
\* there is nothing left to watch.
WhoWaitsHasSent ==
  \A c \in Commands : /\ call[c] = "new" => via[c] = None
                      /\ call[c] \in Awaiting => via[c] # None

NothingToWatch ==
  /\ transport = None => \/ monitor \in {"spawn", "register", "broken", "exited"}
                         \/ circuitOpen \/ stopRequested
  /\ stopper # "idle" => stopRequested

\* Work has an outcome before it is done only if the worker is being stopped.
WorkHasNoOutcome ==
  \A g \in Generations, c \in Commands : Works(g, c) => outcomes[c] = "none" \/ stopRequested

\* The worker is to be restarted or stopped, whatever else happens.
KillComes(g) ==
  \/ force # None \/ stopRequested
  \/ handled = g /\ monitor \in {"recover", "terminate"}

\* AbandonedWorkIsKilled, from the order on: what is in the pipe to a worker
\* counts as work.
WorkIsAwaited ==
  \A g \in Generations, c \in Commands : Works(g, c) => call[c] \in Awaiting \/ KillComes(g)

WorkInv ==
  /\ AnswerInv
  /\ WorkedOnce /\ DeadAreIdle /\ WhoWaitsHasSent /\ NothingToWatch
  /\ WorkHasNoOutcome /\ WorkIsAwaited

\* Nothing is in an empty pipe.
LEMMA EmptyHasNothing == \A m : ~Has(<<>>, m) /\ ~Twice(<<>>, m)
<1>. QED
  BY DEF Has, Twice

\* What is written is in the pipe once more.
LEMMA AppendHas ==
  ASSUME NEW S, NEW s \in Seq(S), NEW x \in S, NEW m
  PROVE  /\ Has(Append(s, x), m) <=> Has(s, m) \/ x = m
         /\ Twice(Append(s, x), m) => Twice(s, m) \/ (x = m /\ Has(s, m))
<1>1. Len(s) \in Nat /\ Len(Append(s, x)) = Len(s) + 1
  OBVIOUS
<1>2. \A i \in 1 .. Len(s) + 1 : Append(s, x)[i] = IF i = Len(s) + 1 THEN x ELSE s[i]
  OBVIOUS
<1>3. Has(Append(s, x), m) <=> Has(s, m) \/ x = m
  <2>1. 1 .. Len(s) \subseteq 1 .. Len(s) + 1 /\ Len(s) + 1 \in 1 .. Len(s) + 1
    BY <1>1
  <2>2. \A i \in 1 .. Len(s) : i # Len(s) + 1
    BY <1>1
  <2>. QED
    BY <1>1, <1>2, <2>1, <2>2 DEF Has
<1>4. ASSUME NEW i \in 1 .. Len(s) + 1, NEW j \in 1 .. Len(s) + 1, i # j,
             Append(s, x)[i] = m, Append(s, x)[j] = m
      PROVE  Twice(s, m) \/ (x = m /\ Has(s, m))
  <2>1. CASE i = Len(s) + 1
    <3>1. x = m /\ j \in 1 .. Len(s) /\ s[j] = m
      BY <1>1, <1>2, <1>4, <2>1
    <3>. QED
      BY <3>1 DEF Has
  <2>2. CASE j = Len(s) + 1
    <3>1. x = m /\ i \in 1 .. Len(s) /\ s[i] = m
      BY <1>1, <1>2, <1>4, <2>2
    <3>. QED
      BY <3>1 DEF Has
  <2>3. CASE i # Len(s) + 1 /\ j # Len(s) + 1
    <3>1. i \in 1 .. Len(s) /\ j \in 1 .. Len(s) /\ s[i] = m /\ s[j] = m
      BY <1>1, <1>2, <1>4, <2>3
    <3>. QED
      BY <1>4, <3>1 DEF Twice
  <2>. QED
    BY <2>1, <2>2, <2>3
<1>. QED
  BY <1>1, <1>3, <1>4 DEF Twice

\* What is read is gone, unless it was in the pipe twice.
LEMMA TailHas ==
  ASSUME NEW S, NEW s \in Seq(S), s # <<>>, NEW m
  PROVE  /\ Has(s, Head(s))
         /\ Has(s, m) <=> m = Head(s) \/ Has(Tail(s), m)
         /\ Twice(Tail(s), m) => Twice(s, m)
         /\ Has(Tail(s), Head(s)) => Twice(s, Head(s))
<1>1. /\ Len(s) \in Nat /\ Len(s) > 0 /\ Len(Tail(s)) = Len(s) - 1
      /\ Head(s) = s[1] /\ \A i \in 1 .. Len(s) - 1 : Tail(s)[i] = s[i + 1]
  OBVIOUS
<1>2. \A i \in 1 .. Len(s) - 1 : i + 1 \in 1 .. Len(s)
  BY <1>1
<1>3. Has(s, Head(s)) /\ (Has(s, m) <=> m = Head(s) \/ Has(Tail(s), m))
  <2>1. 1 \in 1 .. Len(s) /\ \A i \in 1 .. Len(s) : i # 1 => i - 1 \in 1 .. Len(s) - 1 /\ Tail(s)[i - 1] = s[i]
    BY <1>1
  <2>. QED
    BY <1>1, <1>2, <2>1 DEF Has
<1>4. Twice(Tail(s), m) => Twice(s, m)
  <2>. SUFFICES ASSUME NEW i \in 1 .. Len(s) - 1, NEW j \in 1 .. Len(s) - 1, i # j,
                       s[i + 1] = m, s[j + 1] = m
                PROVE  Twice(s, m)
    BY <1>1 DEF Twice
  <2>. QED
    BY <1>1, <1>2 DEF Twice
<1>5. Has(Tail(s), Head(s)) => Twice(s, Head(s))
  <2>. SUFFICES ASSUME NEW i \in 1 .. Len(s) - 1, s[i + 1] = s[1]
                PROVE  Twice(s, s[1])
    BY <1>1 DEF Has
  <2>. QED
    BY <1>1, <1>2 DEF Twice
<1>. QED
  BY <1>3, <1>4, <1>5

\* Only a living worker is written to, and death empties its pipe.
LEMMA DeadAreIdleStep == ASSUME WorkInv, [Next]_vars PROVE DeadAreIdle'
<1>a. /\ process \in [Generations -> {"none", "booting", "up", "dead"}]
      /\ active \in [Generations -> Commands \cup {NoCommand}]
      /\ inbox \in [Generations -> Seq(CommandMessages)]
      /\ handled \in {None} \cup Generations /\ None \notin Generations
  BY DEF WorkInv, AnswerInv, IInv, TypeOK, None, Generations
<1>b. /\ handled = None => monitor \notin {"boot", "terminate"}
      /\ monitor = "spawn" => ~Alive(generation + 1) \/ generation + 1 \notin Generations
  BY DEF WorkInv, AnswerInv, IInv, MonitorKnowsTransport, OnlyTheLastLives, NobodyLives
<1>c. \A g \in Generations : ~Alive(g) => inbox[g] = <<>> /\ active[g] = NoCommand
  BY DEF WorkInv, DeadAreIdle
<1>d. \A g \in Generations : Die(g) => DeadAreIdle'
  BY <1>a, <1>c DEF Die, DeadAreIdle, Alive
<1>e. \A g, m : UNCHANGED <<process, active>> /\ TrySend(g, m) => DeadAreIdle'
  BY <1>a, <1>c DEF TrySend, Send, CanSend, DeadAreIdle, Alive
<1>f. UNCHANGED <<process, active, inbox>> => DeadAreIdle'
  BY <1>c DEF DeadAreIdle, Alive
<1>. USE DEF flags, answers, wires, workers, watch, calls, stops, vars
<1>1. ASSUME NEW g \in Generations, Boot(g)
       PROVE DeadAreIdle'
  BY <1>1, <1>a, <1>c DEF Boot, DeadAreIdle, Alive
<1>2. ASSUME NEW g \in Generations, Execute(g)
       PROVE DeadAreIdle'
  BY <1>2, <1>a, <1>c DEF Execute, DeadAreIdle, Alive
<1>3. ASSUME NEW g \in Generations, ObserveCancel(g)
       PROVE DeadAreIdle'
  BY <1>3, <1>a, <1>c DEF ObserveCancel, DeadAreIdle, Alive
<1>4. ASSUME NEW g \in Generations, Shutdown(g)
       PROVE DeadAreIdle'
  BY <1>4, <1>d DEF Shutdown
<1>5. ASSUME NEW g \in Generations, Report(g)
       PROVE DeadAreIdle'
  BY <1>5, <1>a, <1>c DEF Report, DeadAreIdle, Alive
<1>6. ASSUME NEW g \in Generations, Crash(g)
       PROVE DeadAreIdle'
  BY <1>6, <1>d DEF Crash
<1>7. CASE SpawnProcess
  BY <1>7, <1>a, <1>b, <1>c DEF SpawnProcess, DeadAreIdle, Alive
<1>8. CASE SpawnRefused
  BY <1>8, <1>f DEF SpawnRefused
<1>9. CASE Register
  BY <1>9, <1>f DEF Register
<1>10. CASE SpawnReady
  BY <1>10, <1>f DEF SpawnReady
<1>11. CASE SpawnFails
  BY <1>11, <1>a, <1>b, <1>d DEF SpawnFails, Terminate
<1>12. CASE SpawnAbandoned
  BY <1>12, <1>f DEF SpawnAbandoned
<1>13. CASE MonitorTop
  BY <1>13, <1>f DEF MonitorTop
<1>14. CASE MonitorReceive
  BY <1>14, <1>f DEF MonitorReceive
<1>15. CASE MonitorQuiet
  BY <1>15, <1>f DEF MonitorQuiet
<1>16. CASE MonitorCheck
  BY <1>16, <1>f DEF MonitorCheck
<1>17. CASE RecoverBegin
  BY <1>17, <1>f DEF RecoverBegin
<1>18. CASE RecoverTerminate
  BY <1>18, <1>a, <1>b, <1>d DEF RecoverTerminate, Terminate
<1>19. CASE RecoverSettle
  BY <1>19, <1>f DEF RecoverSettle
<1>20. ASSUME NEW c \in Commands, Refuse(c)
       PROVE DeadAreIdle'
  BY <1>20, <1>f DEF Refuse
<1>21. ASSUME NEW c \in Commands, Request(c)
       PROVE DeadAreIdle'
  BY <1>21, <1>a, <1>c DEF Request, Send, CanSend, DeadAreIdle, Alive
<1>22. ASSUME NEW c \in Commands, RequestUnsent(c)
       PROVE DeadAreIdle'
  BY <1>22, <1>f DEF RequestUnsent
<1>23. ASSUME NEW c \in Commands, Collect(c)
       PROVE DeadAreIdle'
  BY <1>23, <1>f DEF Collect
<1>24. ASSUME NEW c \in Commands, Deadline(c)
       PROVE DeadAreIdle'
  BY <1>24, <1>e DEF Deadline
<1>25. ASSUME NEW c \in Commands, GiveUp(c)
       PROVE DeadAreIdle'
  BY <1>25, <1>f DEF GiveUp
<1>26. ASSUME NEW c \in Commands, Cancel(c)
       PROVE DeadAreIdle'
  BY <1>26, <1>e DEF Cancel
<1>27. CASE StopBegin
  BY <1>27, <1>e DEF StopBegin
<1>28. CASE StopTerminate
  <2>1. stopping \in {None} \cup Generations
    BY DEF WorkInv, AnswerInv, IInv, TypeOK
  <2>. QED
    BY <1>28, <1>d, <1>f, <2>1 DEF StopTerminate, Terminate
<1>29. CASE StopReturn
  BY <1>29, <1>f DEF StopReturn
<1>30. CASE UNCHANGED vars
  BY <1>30, <1>f
<1>. QED
  BY <1>1, <1>2, <1>3, <1>4, <1>5, <1>6, <1>7, <1>8, <1>9, <1>10, <1>11, <1>12, <1>13,
     <1>14, <1>15, <1>16, <1>17, <1>18, <1>19, <1>20, <1>21, <1>22, <1>23, <1>24, <1>25,
     <1>26, <1>27, <1>28, <1>29, <1>30
  DEF Next, WorkerStep, MonitorStep, RequestStep, StopStep

\* The record's part.
LEMMA RecordStep == ASSUME WorkInv, [Next]_vars PROVE WhoWaitsHasSent' /\ NothingToWatch'
<1>a. WhoWaitsHasSent /\ NothingToWatch /\ CircuitIsFinal /\ MonitorKnowsTransport
  BY DEF WorkInv, AnswerInv, IInv
<1>b. /\ call \in [Commands -> {"new"} \cup Awaiting \cup Answers]
      /\ via \in [Commands -> {None} \cup Generations]
      /\ outcomes \in [Commands -> Outcomes \cup {"none"}]
      /\ transport \in {None} \cup Generations
      /\ handled # None => handled \in Generations
  BY DEF WorkInv, AnswerInv, IInv, TypeOK
<1>. USE <1>a, <1>b, SupervisorAssumption
     DEF WhoWaitsHasSent, NothingToWatch, CircuitIsFinal, MonitorKnowsTransport, Awaiting, Answers, Outcomes,
         None, flags, answers, wires, workers, watch, calls, stops, vars
<1>1. ASSUME NEW g \in Generations, Boot(g)
       PROVE WhoWaitsHasSent' /\ NothingToWatch'
  BY <1>1 DEF Boot
<1>2. ASSUME NEW g \in Generations, Execute(g)
       PROVE WhoWaitsHasSent' /\ NothingToWatch'
  BY <1>2 DEF Execute
<1>3. ASSUME NEW g \in Generations, ObserveCancel(g)
       PROVE WhoWaitsHasSent' /\ NothingToWatch'
  BY <1>3 DEF ObserveCancel
<1>4. ASSUME NEW g \in Generations, Shutdown(g)
       PROVE WhoWaitsHasSent' /\ NothingToWatch'
  BY <1>4 DEF Shutdown
<1>5. ASSUME NEW g \in Generations, Report(g)
       PROVE WhoWaitsHasSent' /\ NothingToWatch'
  BY <1>5 DEF Report
<1>6. ASSUME NEW g \in Generations, Crash(g)
       PROVE WhoWaitsHasSent' /\ NothingToWatch'
  BY <1>6 DEF Crash
<1>7. CASE SpawnProcess
  BY <1>7 DEF SpawnProcess
<1>8. CASE SpawnRefused
  BY <1>8 DEF SpawnRefused
<1>9. CASE Register
  <2>1. generation \in Nat /\ transport' = generation + 1
    BY <1>9 DEF Register, WorkInv, AnswerInv, IInv, TypeOK
  <2>. QED
    BY <1>9, <2>1 DEF Register
<1>10. CASE SpawnReady
  BY <1>10 DEF SpawnReady, Receive
<1>11. CASE SpawnFails
  BY <1>11 DEF SpawnFails
<1>12. CASE SpawnAbandoned
  BY <1>12 DEF SpawnAbandoned
<1>13. CASE MonitorTop
  BY <1>13 DEF MonitorTop
<1>14. CASE MonitorReceive
  BY <1>14 DEF MonitorReceive, Receive
<1>15. CASE MonitorQuiet
  BY <1>15 DEF MonitorQuiet
<1>16. CASE MonitorCheck
  BY <1>16 DEF MonitorCheck
<1>17. CASE RecoverBegin
  BY <1>17 DEF RecoverBegin
<1>18. CASE RecoverTerminate
  BY <1>18 DEF RecoverTerminate
<1>19. CASE RecoverSettle
  BY <1>19 DEF RecoverSettle
<1>20. ASSUME NEW c \in Commands, Refuse(c)
       PROVE WhoWaitsHasSent' /\ NothingToWatch'
  BY <1>20 DEF Refuse
<1>21. ASSUME NEW c \in Commands, Request(c)
       PROVE WhoWaitsHasSent' /\ NothingToWatch'
  BY <1>21 DEF Request, Admitted, CanSend
<1>22. ASSUME NEW c \in Commands, RequestUnsent(c)
       PROVE WhoWaitsHasSent' /\ NothingToWatch'
  BY <1>22 DEF RequestUnsent, Admitted
<1>23. ASSUME NEW c \in Commands, Collect(c)
       PROVE WhoWaitsHasSent' /\ NothingToWatch'
  BY <1>23 DEF Collect
<1>24. ASSUME NEW c \in Commands, Deadline(c)
       PROVE WhoWaitsHasSent' /\ NothingToWatch'
  BY <1>24 DEF Deadline
<1>25. ASSUME NEW c \in Commands, GiveUp(c)
       PROVE WhoWaitsHasSent' /\ NothingToWatch'
  BY <1>25 DEF GiveUp
<1>26. ASSUME NEW c \in Commands, Cancel(c)
       PROVE WhoWaitsHasSent' /\ NothingToWatch'
  BY <1>26 DEF Cancel
<1>27. CASE StopBegin
  BY <1>27 DEF StopBegin
<1>28. CASE StopTerminate
  BY <1>28 DEF StopTerminate
<1>29. CASE StopReturn
  BY <1>29 DEF StopReturn
<1>30. CASE UNCHANGED vars
  BY <1>30
<1>. QED
  BY <1>1, <1>2, <1>3, <1>4, <1>5, <1>6, <1>7, <1>8, <1>9, <1>10, <1>11, <1>12, <1>13,
     <1>14, <1>15, <1>16, <1>17, <1>18, <1>19, <1>20, <1>21, <1>22, <1>23, <1>24, <1>25,
     <1>26, <1>27, <1>28, <1>29, <1>30
  DEF Next, WorkerStep, MonitorStep, RequestStep, StopStep

\* A message written to a worker is ordered once more, if it is an order.
LEMMA Sent ==
  ASSUME PipesTypeOK, NEW g \in Generations, NEW m \in CommandMessages, Send(g, m),
         NEW h \in Generations, NEW d \in Commands
  PROVE  /\ Has(inbox'[h], Order(d)) <=> Has(inbox[h], Order(d)) \/ (h = g /\ m = Order(d))
         /\ Twice(inbox'[h], Order(d)) =>
              Twice(inbox[h], Order(d)) \/ (h = g /\ m = Order(d) /\ Has(inbox[h], Order(d)))
<1>1. inbox \in [Generations -> Seq(CommandMessages)] /\ inbox[g] \in Seq(CommandMessages)
  BY DEF PipesTypeOK
<1>2. inbox'[h] = IF h = g THEN Append(inbox[g], m) ELSE inbox[h]
  BY <1>1 DEF Send
<1>3. CASE h = g
  BY <1>1, <1>2, <1>3, AppendHas
<1>4. CASE h # g
  BY <1>2, <1>4
<1>. QED
  BY <1>3, <1>4

\* A message taken by a worker is ordered once less.
LEMMA Taken ==
  ASSUME PipesTypeOK, NEW g \in Generations, inbox[g] # <<>>,
         inbox' = [inbox EXCEPT ![g] = Tail(@)],
         NEW h \in Generations, NEW d \in Commands
  PROVE  /\ Has(inbox[h], Order(d)) <=>
              Has(inbox'[h], Order(d)) \/ (h = g /\ Head(inbox[g]) = Order(d))
         /\ Twice(inbox'[h], Order(d)) => Twice(inbox[h], Order(d))
         /\ Has(inbox[g], Head(inbox[g]))
         /\ Has(inbox'[g], Head(inbox[g])) => Twice(inbox[g], Head(inbox[g]))
<1>1. inbox \in [Generations -> Seq(CommandMessages)] /\ inbox[g] \in Seq(CommandMessages)
  BY DEF PipesTypeOK
<1>2. inbox'[h] = (IF h = g THEN Tail(inbox[g]) ELSE inbox[h]) /\ inbox'[g] = Tail(inbox[g])
  BY <1>1
<1>3. /\ Has(inbox[g], Head(inbox[g]))
      /\ Has(inbox'[g], Head(inbox[g])) => Twice(inbox[g], Head(inbox[g]))
  BY <1>1, <1>2, TailHas
<1>4. CASE h = g
  BY <1>1, <1>2, <1>3, <1>4, TailHas
<1>5. CASE h # g
  BY <1>2, <1>3, <1>5
<1>. QED
  BY <1>4, <1>5

\* Only the reply that is written is a new reply.
LEMMA Posted ==
  ASSUME PipesTypeOK, NEW g \in Generations, NEW e \in EventMessages, Post(g, e),
         NEW h \in Generations, NEW d \in Commands
  PROVE  Replied(h, d)' => Replied(h, d) \/ (h = g /\ e \in Reply(d))
<1>1. outbox \in [Generations -> Seq(EventMessages)] /\ outbox[g] \in Seq(EventMessages)
  BY DEF PipesTypeOK
<1>2. outbox'[h] = IF h = g THEN Append(outbox[g], e) ELSE outbox[h]
  BY <1>1 DEF Post
<1>3. SUFFICES ASSUME NEW m \in Reply(d), Has(outbox'[h], m)
               PROVE  Has(outbox[h], m) \/ (h = g /\ e = m)
  BY DEF Replied, Reply
<1>4. CASE h = g
  BY <1>1, <1>2, <1>3, <1>4, AppendHas
<1>5. CASE h # g
  BY <1>2, <1>3, <1>5
<1>. QED
  BY <1>4, <1>5

\* Reading and emptying a pipe adds no reply; what is read was one.
LEMMA Heard ==
  ASSUME PipesTypeOK, NEW g \in Generations, outbox[g] # <<>>,
         outbox' = [outbox EXCEPT ![g] = Tail(@)],
         NEW h \in Generations, NEW d \in Commands
  PROVE  /\ Replied(h, d)' => Replied(h, d)
         /\ Head(outbox[g]) \in Reply(d) => Replied(g, d)
<1>1. outbox \in [Generations -> Seq(EventMessages)] /\ outbox[g] \in Seq(EventMessages)
  BY DEF PipesTypeOK
<1>2. outbox'[h] = IF h = g THEN Tail(outbox[g]) ELSE outbox[h]
  BY <1>1
<1>3. Has(outbox[g], Head(outbox[g]))
  BY <1>1, TailHas
<1>4. ASSUME NEW m \in Reply(d), Has(outbox'[h], m)
      PROVE  Has(outbox[h], m)
  <2>1. CASE h = g
    BY <1>1, <1>2, <1>4, <2>1, TailHas
  <2>2. CASE h # g
    BY <1>2, <1>4, <2>2
  <2>. QED
    BY <2>1, <2>2
<1>. QED
  BY <1>3, <1>4 DEF Replied, Reply

\* A worker that ends leaves no order, and no reply that was not there.
LEMMA Emptied ==
  ASSUME PipesTypeOK, NEW g \in Generations, Die(g),
         UNCHANGED outbox \/ outbox' = [outbox EXCEPT ![g] = <<>>],
         NEW h \in Generations, NEW d \in Commands
  PROVE  /\ Has(inbox'[h], Order(d)) => Has(inbox[h], Order(d))
         /\ Twice(inbox'[h], Order(d)) => Twice(inbox[h], Order(d))
         /\ Replied(h, d)' => Replied(h, d)
<1>1. /\ inbox \in [Generations -> Seq(CommandMessages)]
      /\ outbox \in [Generations -> Seq(EventMessages)]
  BY DEF PipesTypeOK
<1>2. inbox'[h] \in {<<>>, inbox[h]} /\ outbox'[h] \in {<<>>, outbox[h]}
  BY <1>1 DEF Die
<1>. QED
  BY <1>2, EmptyHasNothing DEF Replied, Reply

\* An order becomes work and work becomes a reply; nothing is ordered again.
LEMMA WorkStep ==
  ASSUME WorkInv, [Next]_vars, NEW h \in Generations, NEW d \in Commands
  PROVE  Once(h, d)' /\ (Works(h, d)' => Works(h, d) \/ Request(d))
<1>. DEFINE Goal == Once(h, d)' /\ (Works(h, d)' => Works(h, d) \/ Request(d))
<1>a. /\ PipesTypeOK /\ WorkedOnce /\ Once(h, d)
      /\ active \in [Generations -> Commands \cup {NoCommand}] /\ NoCommand # d
      /\ via \in [Commands -> {None} \cup Generations]
      /\ transport \in {None} \cup Generations /\ stopping \in {None} \cup Generations
      /\ monitor \in {"boot", "poll", "check", "recover", "terminate", "settle"} => handled \in Generations
      /\ \A c \in Commands : call[c] = "new" => via[c] = None
      /\ None \notin Generations
  BY NoCommandIsIdle
  DEF WorkInv, AnswerInv, IInv, TypeOK, PipesTypeOK, MonitorKnowsTransport, WorkedOnce, WhoWaitsHasSent, None,
      Generations
<1>k. ASSUME /\ Has(inbox'[h], Order(d)) => Has(inbox[h], Order(d))
             /\ Twice(inbox'[h], Order(d)) => Twice(inbox[h], Order(d))
             /\ active'[h] = d => active[h] = d
             /\ Replied(h, d)' => Replied(h, d)
             /\ UNCHANGED via
      PROVE  Goal
  BY <1>a, <1>k, Zenon DEF Once, Works
<1>u. UNCHANGED outbox => (Replied(h, d)' => Replied(h, d))
  BY DEF Replied
<1>s. ASSUME NEW g \in Generations, NEW c \in Commands,
             TrySend(g, [kind |-> "cancel", command |-> c]) \/ TrySend(g, [kind |-> "shutdown"])
      PROVE  /\ Has(inbox'[h], Order(d)) => Has(inbox[h], Order(d))
             /\ Twice(inbox'[h], Order(d)) => Twice(inbox[h], Order(d))
  <2>1. /\ [kind |-> "cancel", command |-> c] \in CommandMessages /\ [kind |-> "cancel", command |-> c] # Order(d)
        /\ [kind |-> "shutdown"] \in CommandMessages /\ [kind |-> "shutdown"] # Order(d)
    BY DEF CommandMessages, Order
  <2>2. CASE UNCHANGED inbox
    BY <2>2
  <2>3. CASE Send(g, [kind |-> "cancel", command |-> c])
    BY <1>a, <2>1, <2>3, Sent
  <2>4. CASE Send(g, [kind |-> "shutdown"])
    BY <1>a, <2>1, <2>4, Sent
  <2>. QED
    BY <1>s, <2>2, <2>3, <2>4 DEF TrySend
<1>. USE DEF flags, answers, wires, workers, watch, calls, stops, vars
<1>1. ASSUME NEW g \in Generations, Boot(g)
       PROVE Goal
  <2>1. [kind |-> "ready"] \in EventMessages \ Reply(d)
    BY DEF EventMessages, Reply
  <2>2. Post(g, [kind |-> "ready"]) /\ UNCHANGED <<inbox, active, via>>
    BY <1>1 DEF Boot
  <2>. QED
    BY <1>a, <1>k, <2>1, <2>2, Posted
<1>2. ASSUME NEW g \in Generations, Execute(g)
       PROVE Goal
  <2>. DEFINE c == Head(inbox[g]).command
  <2>1. /\ inbox[g] # <<>> /\ inbox' = [inbox EXCEPT ![g] = Tail(@)] /\ UNCHANGED via
        /\ Head(inbox[g]).kind = "execute"
    BY <1>2 DEF Execute
  <2>2. c \in Commands /\ Head(inbox[g]) = Order(c)
    BY <1>a, <2>1, CommandRead DEF CommandMessages, Order
  <2>3. /\ Has(inbox'[h], Order(d)) => Has(inbox[h], Order(d))
        /\ Twice(inbox'[h], Order(d)) => Twice(inbox[h], Order(d))
        /\ Has(inbox[g], Order(c)) /\ (Has(inbox'[g], Order(c)) => Twice(inbox[g], Order(c)))
    <3>1. /\ Has(inbox'[h], Order(d)) => Has(inbox[h], Order(d))
          /\ Twice(inbox'[h], Order(d)) => Twice(inbox[h], Order(d))
          /\ Has(inbox[g], Head(inbox[g]))
          /\ Has(inbox'[g], Head(inbox[g])) => Twice(inbox[g], Head(inbox[g]))
      BY <1>a, <2>1, Taken
    <3>. QED
      BY <2>2, <3>1, Zenon
  <2>4. Has(inbox[g], Order(c)) /\ ~Has(inbox'[g], Order(c))
    BY <1>a, <2>2, <2>3 DEF WorkedOnce, Once
  <2>5. active[g] # c /\ ~Replied(g, c) /\ via[c] = g
    BY <1>a, <2>2, <2>4 DEF WorkedOnce, Once, Works
  <2>6. CASE active[g] # NoCommand
    <3>1. Post(g, [kind |-> "error", command |-> c]) /\ UNCHANGED active
      BY <1>2, <2>6 DEF Execute
    <3>2. /\ [kind |-> "error", command |-> c] \in EventMessages
          /\ [kind |-> "error", command |-> c] \in Reply(d) => c = d
      BY <2>2 DEF EventMessages, Reply
    <3>3. Replied(h, d)' => Replied(h, d) \/ (h = g /\ c = d)
      BY <1>a, <3>1, <3>2, Posted
    <3>4. CASE h = g /\ c = d
      BY <1>a, <2>1, <2>3, <2>4, <2>5, <3>1, <3>4, Zenon DEF Once, Works
    <3>5. CASE ~(h = g /\ c = d)
      BY <1>k, <2>1, <2>3, <3>1, <3>3, <3>5, Zenon
    <3>. QED
      BY <3>4, <3>5
  <2>7. CASE active[g] = NoCommand
    <3>1. active' = [active EXCEPT ![g] = c] /\ UNCHANGED outbox
      BY <1>2, <2>7 DEF Execute
    <3>2. CASE h = g /\ c = d
      <4>1. active'[h] = d /\ ~Replied(h, d)' /\ via'[d] = h
        BY <1>a, <1>u, <2>1, <2>5, <3>1, <3>2
      <4>. QED
        BY <1>a, <2>3, <2>4, <3>2, <4>1, Zenon DEF Once, Works
    <3>3. CASE ~(h = g /\ c = d)
      <4>1. active'[h] = d => active[h] = d
        BY <1>a, <3>1, <3>3
      <4>. QED
        BY <1>k, <1>u, <2>1, <2>3, <3>1, <4>1, Zenon
    <3>. QED
      BY <3>2, <3>3
  <2>. QED
    BY <2>6, <2>7
<1>3. ASSUME NEW g \in Generations, ObserveCancel(g)
       PROVE Goal
  <2>1. /\ inbox[g] # <<>> /\ inbox' = [inbox EXCEPT ![g] = Tail(@)]
        /\ UNCHANGED <<active, outbox, via>>
    BY <1>3 DEF ObserveCancel
  <2>. QED
    BY <1>a, <1>k, <1>u, <2>1, Taken
<1>4. ASSUME NEW g \in Generations, Shutdown(g)
       PROVE Goal
  <2>1. Die(g) /\ Post(g, [kind |-> "stopped"]) /\ UNCHANGED via
    BY <1>4 DEF Shutdown
  <2>2. [kind |-> "stopped"] \in EventMessages \ Reply(d)
    BY DEF EventMessages, Reply
  <2>3. Replied(h, d)' => Replied(h, d)
    BY <1>a, <2>1, <2>2, Posted
  <2>4. inbox'[h] \in {<<>>, inbox[h]} /\ active'[h] \in {NoCommand, active[h]}
    BY <1>a, <2>1 DEF Die, PipesTypeOK
  <2>. QED
    BY <1>a, <1>k, <2>1, <2>3, <2>4, EmptyHasNothing
<1>5. ASSUME NEW g \in Generations, Report(g)
       PROVE Goal
  <2>1. PICK k \in {"result", "error", "cancelled"} : Post(g, [kind |-> k, command |-> active[g]])
    BY <1>5 DEF Report
  <2>2. /\ active[g] \in Commands /\ active' = [active EXCEPT ![g] = NoCommand]
        /\ UNCHANGED <<inbox, via>>
    BY <1>5, <1>a DEF Report
  <2>3. /\ [kind |-> k, command |-> active[g]] \in EventMessages
        /\ [kind |-> k, command |-> active[g]] \in Reply(d) => active[g] = d
    BY <2>2 DEF EventMessages, Reply
  <2>4. Replied(h, d)' => Replied(h, d) \/ (h = g /\ active[g] = d)
    BY <1>a, <2>1, <2>3, Posted
  <2>5. active'[h] = (IF h = g THEN NoCommand ELSE active[h])
    BY <1>a, <2>2
  <2>6. CASE h = g /\ active[g] = d
    <3>1. active'[h] # d /\ via'[d] = h /\ ~Has(inbox'[h], Order(d)) /\ ~Twice(inbox'[h], Order(d))
      BY <1>a, <2>2, <2>5, <2>6 DEF Once, Works
    <3>. QED
      BY <3>1, Zenon DEF Once, Works
  <2>7. CASE ~(h = g /\ active[g] = d)
    BY <1>a, <1>k, <2>2, <2>4, <2>5, <2>7
  <2>. QED
    BY <2>6, <2>7
<1>6. ASSUME NEW g \in Generations, Crash(g)
       PROVE Goal
  <2>1. Die(g) /\ (UNCHANGED outbox \/ outbox' = [outbox EXCEPT ![g] = <<>>]) /\ UNCHANGED via
        /\ g \in Generations
    BY <1>6, <1>a DEF Crash, Terminate
  <2>2. active'[h] \in {NoCommand, active[h]}
    BY <1>a, <2>1 DEF Die
  <2>. QED
    BY <1>a, <1>k, <2>1, <2>2, Emptied
<1>7. CASE SpawnProcess
  BY <1>7, <1>k, <1>u DEF SpawnProcess
<1>8. CASE SpawnRefused
  BY <1>8, <1>k, <1>u DEF SpawnRefused
<1>9. CASE Register
  BY <1>9, <1>k, <1>u DEF Register
<1>10. CASE SpawnReady
  <2>1. /\ handled \in Generations /\ outbox[handled] # <<>>
        /\ outbox' = [outbox EXCEPT ![handled] = Tail(@)] /\ UNCHANGED <<inbox, active, via>>
    BY <1>10, <1>a DEF SpawnReady, Receive
  <2>2. Replied(h, d)' => Replied(h, d)
    BY <1>a, <2>1, Heard
  <2>. QED
    BY <1>k, <2>1, <2>2
<1>11. CASE SpawnFails
  <2>1. Die(handled) /\ (UNCHANGED outbox \/ outbox' = [outbox EXCEPT ![handled] = <<>>]) /\ UNCHANGED via
        /\ handled \in Generations
    BY <1>11, <1>a DEF SpawnFails, Terminate
  <2>2. active'[h] \in {NoCommand, active[h]}
    BY <1>a, <2>1 DEF Die
  <2>. QED
    BY <1>a, <1>k, <2>1, <2>2, Emptied
<1>12. CASE SpawnAbandoned
  BY <1>12, <1>k, <1>u DEF SpawnAbandoned
<1>13. CASE MonitorTop
  BY <1>13, <1>k, <1>u DEF MonitorTop
<1>14. CASE MonitorReceive
  <2>1. /\ handled \in Generations /\ outbox[handled] # <<>>
        /\ outbox' = [outbox EXCEPT ![handled] = Tail(@)] /\ UNCHANGED <<inbox, active, via>>
    BY <1>14, <1>a DEF MonitorReceive, Receive
  <2>2. Replied(h, d)' => Replied(h, d)
    BY <1>a, <2>1, Heard
  <2>. QED
    BY <1>k, <2>1, <2>2
<1>15. CASE MonitorQuiet
  BY <1>15, <1>k, <1>u DEF MonitorQuiet
<1>16. CASE MonitorCheck
  BY <1>16, <1>k, <1>u DEF MonitorCheck
<1>17. CASE RecoverBegin
  BY <1>17, <1>k, <1>u DEF RecoverBegin
<1>18. CASE RecoverTerminate
  <2>1. Die(handled) /\ (UNCHANGED outbox \/ outbox' = [outbox EXCEPT ![handled] = <<>>]) /\ UNCHANGED via
        /\ handled \in Generations
    BY <1>18, <1>a DEF RecoverTerminate, Terminate
  <2>2. active'[h] \in {NoCommand, active[h]}
    BY <1>a, <2>1 DEF Die
  <2>. QED
    BY <1>a, <1>k, <2>1, <2>2, Emptied
<1>19. CASE RecoverSettle
  BY <1>19, <1>k, <1>u DEF RecoverSettle
<1>20. ASSUME NEW c \in Commands, Refuse(c)
       PROVE Goal
  BY <1>20, <1>k, <1>u DEF Refuse
<1>21. ASSUME NEW c \in Commands, Request(c)
       PROVE Goal
  <2>1. /\ transport \in Generations /\ Send(transport, Order(c)) /\ call[c] = "new"
        /\ via' = [via EXCEPT ![c] = transport] /\ UNCHANGED <<outbox, active>>
    BY <1>21, <1>a DEF Request, Admitted, CanSend, Order
  <2>2. Order(c) \in CommandMessages /\ (Order(c) = Order(d) => c = d)
    BY DEF CommandMessages, Order
  <2>3. /\ Has(inbox'[h], Order(d)) => Has(inbox[h], Order(d)) \/ (h = transport /\ c = d)
        /\ Twice(inbox'[h], Order(d)) =>
             Twice(inbox[h], Order(d)) \/ (h = transport /\ c = d /\ Has(inbox[h], Order(d)))
    BY <1>a, <2>1, <2>2, Sent
  <2>4. c = d => ~Works(h, d) /\ ~Replied(h, d) /\ via'[d] = transport
    BY <1>a, <2>1 DEF Once
  <2>5. CASE c = d
    <3>1. ~Replied(h, d)' /\ active'[h] # d /\ ~Has(inbox[h], Order(d)) /\ via'[d] = transport
      BY <1>u, <2>1, <2>4, <2>5 DEF Works
    <3>. QED
      BY <1>a, <1>21, <2>3, <2>5, <3>1, Zenon DEF Once, Works
  <2>6. CASE c # d
    <3>1. Replied(h, d)' => Replied(h, d)
      BY <1>u, <2>1
    <3>2. via'[d] = via[d]
      BY <1>a, <2>1, <2>6
    <3>. QED
      BY <1>a, <2>1, <2>3, <2>6, <3>1, <3>2, Zenon DEF Once, Works
  <2>. QED
    BY <2>5, <2>6
<1>22. ASSUME NEW c \in Commands, RequestUnsent(c)
       PROVE Goal
  BY <1>22, <1>k, <1>u DEF RequestUnsent
<1>23. ASSUME NEW c \in Commands, Collect(c)
       PROVE Goal
  BY <1>23, <1>k, <1>u DEF Collect
<1>24. ASSUME NEW c \in Commands, Deadline(c)
       PROVE Goal
  <2>1. CASE via[c] = None
    <3>1. UNCHANGED inbox
      BY <1>24, <2>1 DEF Deadline, TrySend, CanSend
    <3>. QED
      BY <1>24, <1>k, <1>u, <3>1 DEF Deadline
  <2>2. CASE via[c] # None
    BY <1>24, <1>a, <1>k, <1>s, <1>u, <2>2 DEF Deadline
  <2>. QED
    BY <2>1, <2>2
<1>25. ASSUME NEW c \in Commands, GiveUp(c)
       PROVE Goal
  BY <1>25, <1>k, <1>u DEF GiveUp
<1>26. ASSUME NEW c \in Commands, Cancel(c)
       PROVE Goal
  <2>1. CASE transport = None
    <3>1. UNCHANGED inbox
      BY <1>26, <2>1 DEF Cancel, TrySend, CanSend
    <3>. QED
      BY <1>26, <1>k, <1>u, <3>1 DEF Cancel
  <2>2. CASE transport # None
    BY <1>26, <1>a, <1>k, <1>s, <1>u, <2>2 DEF Cancel
  <2>. QED
    BY <2>1, <2>2
<1>27. CASE StopBegin
  <2>1. CASE transport = None
    <3>1. UNCHANGED inbox
      BY <1>27, <2>1 DEF StopBegin, TrySend, CanSend
    <3>. QED
      BY <1>27, <1>k, <1>u, <3>1 DEF StopBegin
  <2>2. CASE transport # None
    BY <1>27, <1>a, <1>k, <1>s, <1>u, <2>2 DEF StopBegin
  <2>. QED
    BY <2>1, <2>2
<1>28. CASE StopTerminate
  <2>0. CASE stopping = None
    BY <1>28, <1>k, <1>u, <2>0 DEF StopTerminate
  <2>1. CASE stopping # None
    <3>1. /\ Die(stopping) /\ outbox' = [outbox EXCEPT ![stopping] = <<>>] /\ UNCHANGED via
          /\ stopping \in Generations
      BY <1>28, <1>a, <2>1 DEF StopTerminate, Terminate
    <3>2. active'[h] \in {NoCommand, active[h]}
      BY <1>a, <3>1 DEF Die
    <3>. QED
      BY <1>a, <1>k, <3>1, <3>2, Emptied
  <2>. QED
    BY <2>0, <2>1
<1>29. CASE StopReturn
  BY <1>29, <1>k, <1>u DEF StopReturn
<1>30. CASE UNCHANGED vars
  BY <1>30, <1>k, <1>u
<1>. QED
  BY <1>1, <1>2, <1>3, <1>4, <1>5, <1>6, <1>7, <1>8, <1>9, <1>10, <1>11, <1>12, <1>13,
     <1>14, <1>15, <1>16, <1>17, <1>18, <1>19, <1>20, <1>21, <1>22, <1>23, <1>24, <1>25,
     <1>26, <1>27, <1>28, <1>29, <1>30
  DEF Next, WorkerStep, MonitorStep, RequestStep, StopStep

\* Abandoned work is not forgotten: whoever gives it up asks for a restart,
\* and the monitor forgets what it was asked only on its way to the kill.
LEMMA KillStep == ASSUME WorkInv, [Next]_vars PROVE WorkHasNoOutcome' /\ WorkIsAwaited'
<1>. SUFFICES ASSUME NEW h \in Generations, NEW d \in Commands, Works(h, d)'
              PROVE  /\ outcomes'[d] = "none" \/ stopRequested'
                     /\ call'[d] \in Awaiting \/ KillComes(h)'
  BY DEF WorkHasNoOutcome, WorkIsAwaited
<1>. DEFINE Goal == /\ outcomes'[d] = "none" \/ stopRequested'
                    /\ call'[d] \in Awaiting \/ KillComes(h)'
<1>a. /\ PipesTypeOK /\ WorkedOnce
      /\ call \in [Commands -> {"new"} \cup Awaiting \cup Answers]
      /\ outcomes \in [Commands -> Outcomes \cup {"none"}]
      /\ transport \in {None, generation} /\ None \notin Generations
      /\ monitor \in {"boot", "poll", "check", "recover", "terminate", "settle"} =>
           handled = generation /\ handled \in Generations
      /\ WhoWaitsHasSent /\ NothingToWatch /\ NewIsUnheard
  BY DEF WorkInv, AnswerInv, IInv, TypeOK, PipesTypeOK, MonitorKnowsTransport, None, Generations
<1>b. Works(h, d) \/ Request(d)
  BY WorkStep
<1>r. Request(d) => call[d] = "new" /\ call'[d] = "waiting"
  BY <1>a DEF Request, Admitted
<1>c. Works(h, d) => /\ outcomes[d] = "none" \/ stopRequested
                     /\ call[d] \in Awaiting \/ KillComes(h)
                     /\ via[d] = h /\ ~Replied(h, d)
  BY DEF WorkInv, WorkHasNoOutcome, WorkIsAwaited, WorkedOnce, Once
<1>d. Works(h, d) => /\ Alive(h) /\ ~circuitOpen
                     /\ monitor \notin {"spawn", "broken", "settle"}
                     /\ monitor # "register" => h = generation
  BY NoCommandIsIdle, EmptyHasNothing, Zenon
  DEF WorkInv, AnswerInv, IInv, DeadAreIdle, OnlyTheLastLives, NobodyLives, CircuitIsFinal, Works
<1>e. Alive(h)'
  <2>1. DeadAreIdle'
    BY DeadAreIdleStep
  <2>2. ~(inbox'[h] = <<>> /\ active'[h] = NoCommand)
    BY NoCommandIsIdle, EmptyHasNothing, Zenon DEF Works
  <2>. QED
    BY <2>1, <2>2 DEF DeadAreIdle
<1>. USE DEF flags, answers, wires, workers, watch, calls, stops, vars
<1>1. ASSUME NEW g \in Generations, Boot(g)
       PROVE Goal
  <2>1. Works(h, d)
    BY <1>1, <1>b, <1>r DEF Boot
  <2>2. UNCHANGED <<outcomes, call, stopRequested, force, handled, monitor>>
    BY <1>1 DEF Boot
  <2>. QED
    BY <1>c, <2>1, <2>2 DEF KillComes
<1>2. ASSUME NEW g \in Generations, Execute(g)
       PROVE Goal
  <2>1. Works(h, d)
    BY <1>2, <1>b, <1>r DEF Execute
  <2>2. UNCHANGED <<outcomes, call, stopRequested, force, handled, monitor>>
    BY <1>2 DEF Execute
  <2>. QED
    BY <1>c, <2>1, <2>2 DEF KillComes
<1>3. ASSUME NEW g \in Generations, ObserveCancel(g)
       PROVE Goal
  <2>1. Works(h, d)
    BY <1>3, <1>b, <1>r DEF ObserveCancel
  <2>2. UNCHANGED <<outcomes, call, stopRequested, force, handled, monitor>>
    BY <1>3 DEF ObserveCancel
  <2>. QED
    BY <1>c, <2>1, <2>2 DEF KillComes
<1>4. ASSUME NEW g \in Generations, Shutdown(g)
       PROVE Goal
  <2>1. Works(h, d)
    BY <1>4, <1>b, <1>r DEF Shutdown
  <2>2. UNCHANGED <<outcomes, call, stopRequested, force, handled, monitor>>
    BY <1>4 DEF Shutdown
  <2>. QED
    BY <1>c, <2>1, <2>2 DEF KillComes
<1>5. ASSUME NEW g \in Generations, Report(g)
       PROVE Goal
  <2>1. Works(h, d)
    BY <1>5, <1>b, <1>r DEF Report
  <2>2. UNCHANGED <<outcomes, call, stopRequested, force, handled, monitor>>
    BY <1>5 DEF Report
  <2>. QED
    BY <1>c, <2>1, <2>2 DEF KillComes
<1>6. ASSUME NEW g \in Generations, Crash(g)
       PROVE Goal
  <2>1. Works(h, d)
    BY <1>6, <1>b, <1>r DEF Crash
  <2>2. UNCHANGED <<outcomes, call, stopRequested, force, handled, monitor>>
    BY <1>6 DEF Crash
  <2>. QED
    BY <1>c, <2>1, <2>2 DEF KillComes
<1>7. CASE SpawnProcess
  <2>1. Works(h, d)
    BY <1>7, <1>b, <1>r DEF SpawnProcess
  <2>. QED
    BY <1>7, <1>a, <1>c, <1>d, <2>1 DEF SpawnProcess, KillComes
<1>8. CASE SpawnRefused
  <2>1. Works(h, d)
    BY <1>8, <1>b, <1>r DEF SpawnRefused
  <2>. QED
    BY <1>8, <1>a, <1>c, <1>d, <2>1 DEF SpawnRefused, KillComes
<1>9. CASE Register
  <2>1. Works(h, d)
    BY <1>9, <1>b, <1>r DEF Register
  <2>. QED
    BY <1>9, <1>a, <1>c, <1>d, <2>1 DEF Register, KillComes
<1>10. CASE SpawnReady
  <2>. DEFINE e == Head(outbox[handled])
  <2>1. /\ handled \in Generations /\ outbox[handled] # <<>>
        /\ outbox' = [outbox EXCEPT ![handled] = Tail(@)]
        /\ UNCHANGED <<call, stopRequested, force, handled>>
        /\ monitor \notin {"recover", "terminate"} /\ monitor' \notin {"recover", "terminate"}
    BY <1>10, <1>a DEF SpawnReady, Receive
  <2>2. Works(h, d)
    BY <1>10, <1>b, <1>r DEF SpawnReady
  <2>3. \/ UNCHANGED outcomes
        \/ /\ e.kind \notin {"ready", "stopped"}
           /\ outcomes' = [outcomes EXCEPT ![e.command] = e.kind]
    BY <1>10 DEF SpawnReady, Receive, Consume, Answer
  <2>4. e.kind \notin {"ready", "stopped"} => e.command # d
    <3>. SUFFICES ASSUME e.kind \notin {"ready", "stopped"}, e.command = d
                  PROVE  FALSE
      OBVIOUS
    <3>1. e \in Reply(d)
      BY <1>a, <2>1, EventRead DEF EventMessages, Reply
    <3>2. Replied(handled, d)
      BY <1>a, <2>1, <3>1, Heard
    <3>3. h = handled
      BY <1>a, <1>c, <2>1, <2>2, <3>2 DEF WorkedOnce, Once
    <3>. QED
      BY <1>c, <2>2, <3>2, <3>3
  <2>5. outcomes'[d] = outcomes[d]
    BY <1>a, <2>3, <2>4
  <2>. QED
    BY <1>c, <2>1, <2>2, <2>5 DEF KillComes
<1>11. CASE SpawnFails
  <2>1. Works(h, d)
    BY <1>11, <1>b, <1>r DEF SpawnFails
  <2>. QED
    BY <1>11, <1>a, <1>c, <1>d, <2>1 DEF SpawnFails, KillComes
<1>12. CASE SpawnAbandoned
  <2>1. Works(h, d)
    BY <1>12, <1>b, <1>r DEF SpawnAbandoned
  <2>. QED
    BY <1>12, <1>a, <1>c, <1>d, <2>1 DEF SpawnAbandoned, KillComes
<1>13. CASE MonitorTop
  <2>1. Works(h, d) /\ UNCHANGED <<outcomes, call, stopRequested>>
    BY <1>13, <1>b, <1>r DEF MonitorTop
  <2>2. stopRequested \/ transport = h
    BY <1>13, <1>a, <1>d, <2>1 DEF MonitorTop, NothingToWatch
  <2>. QED
    BY <1>13, <1>c, <2>1, <2>2, <1>a DEF MonitorTop, KillComes
<1>14. CASE MonitorReceive
  <2>. DEFINE e == Head(outbox[handled])
  <2>1. /\ handled \in Generations /\ outbox[handled] # <<>>
        /\ outbox' = [outbox EXCEPT ![handled] = Tail(@)]
        /\ UNCHANGED <<call, stopRequested, force, handled>>
        /\ monitor \notin {"recover", "terminate"} /\ monitor' \notin {"recover", "terminate"}
    BY <1>14, <1>a DEF MonitorReceive, Receive
  <2>2. Works(h, d)
    BY <1>14, <1>b, <1>r DEF MonitorReceive
  <2>3. \/ UNCHANGED outcomes
        \/ /\ e.kind \notin {"ready", "stopped"}
           /\ outcomes' = [outcomes EXCEPT ![e.command] = e.kind]
    BY <1>14 DEF MonitorReceive, Receive, Consume, Answer
  <2>4. e.kind \notin {"ready", "stopped"} => e.command # d
    <3>. SUFFICES ASSUME e.kind \notin {"ready", "stopped"}, e.command = d
                  PROVE  FALSE
      OBVIOUS
    <3>1. e \in Reply(d)
      BY <1>a, <2>1, EventRead DEF EventMessages, Reply
    <3>2. Replied(handled, d)
      BY <1>a, <2>1, <3>1, Heard
    <3>3. h = handled
      BY <1>a, <1>c, <2>1, <2>2, <3>2 DEF WorkedOnce, Once
    <3>. QED
      BY <1>c, <2>2, <3>2, <3>3
  <2>5. outcomes'[d] = outcomes[d]
    BY <1>a, <2>3, <2>4
  <2>. QED
    BY <1>c, <2>1, <2>2, <2>5 DEF KillComes
<1>15. CASE MonitorQuiet
  <2>1. Works(h, d)
    BY <1>15, <1>b, <1>r DEF MonitorQuiet
  <2>. QED
    BY <1>15, <1>a, <1>c, <1>d, <2>1 DEF MonitorQuiet, KillComes
<1>16. CASE MonitorCheck
  <2>1. Works(h, d)
    BY <1>16, <1>b, <1>r DEF MonitorCheck
  <2>. QED
    BY <1>16, <1>a, <1>c, <1>d, <2>1 DEF MonitorCheck, KillComes
<1>17. CASE RecoverBegin
  <2>1. Works(h, d) /\ UNCHANGED <<outcomes, call, stopRequested, force, handled>>
    BY <1>17, <1>b, <1>r DEF RecoverBegin
  <2>2. stopRequested \/ transport = handled
    BY <1>17, <1>a, <1>d, <2>1 DEF RecoverBegin, NothingToWatch
  <2>. QED
    BY <1>17, <1>c, <2>1, <2>2 DEF RecoverBegin, KillComes
<1>18. CASE RecoverTerminate
  <2>1. Works(h, d) /\ h = handled
    BY <1>18, <1>a, <1>b, <1>d, <1>r DEF RecoverTerminate
  <2>2. process'[h] = "dead"
    BY <1>18, <1>a, <2>1 DEF RecoverTerminate, Terminate, Die, WorkInv, AnswerInv, IInv, TypeOK
  <2>. QED
    BY <1>e, <2>2 DEF Alive
<1>19. CASE RecoverSettle
  <2>1. Works(h, d)
    BY <1>19, <1>b, <1>r DEF RecoverSettle
  <2>. QED
    BY <1>19, <1>a, <1>c, <1>d, <2>1 DEF RecoverSettle, KillComes
<1>20. ASSUME NEW c \in Commands, Refuse(c)
       PROVE Goal
  <2>1. Works(h, d)
    BY <1>20, <1>a, <1>b, <1>r DEF Refuse, Outcomes
  <2>2. d = c => call[d] # "new"
    BY <1>a, <1>c, <2>1 DEF WhoWaitsHasSent
  <2>. QED
    BY <1>20, <1>a, <1>c, <2>1, <2>2 DEF Refuse, KillComes, WhoWaitsHasSent, Awaiting, Admitted
<1>21. ASSUME NEW c \in Commands, Request(c)
       PROVE Goal
  <2>1. CASE c = d
    <3>1. outcomes[d] = "none"
      BY <1>21, <1>a, <2>1 DEF Request, Admitted, NewIsUnheard
    <3>. QED
      BY <1>21, <1>a, <2>1, <3>1 DEF Request, Awaiting
  <2>2. CASE c # d
    <3>1. call'[d] = call[d]
      BY <1>21, <1>a, <2>2 DEF Request
    <3>2. UNCHANGED <<outcomes, stopRequested, force, handled, monitor>>
      BY <1>21 DEF Request
    <3>3. Works(h, d)
      BY <1>b, <1>r, <3>1
    <3>. QED
      BY <1>c, <3>1, <3>2, <3>3 DEF KillComes
  <2>. QED
    BY <2>1, <2>2
<1>22. ASSUME NEW c \in Commands, RequestUnsent(c)
       PROVE Goal
  <2>1. Works(h, d)
    BY <1>22, <1>a, <1>b, <1>r DEF RequestUnsent, Outcomes
  <2>2. d = c => call[d] # "new"
    BY <1>a, <1>c, <2>1 DEF WhoWaitsHasSent
  <2>. QED
    BY <1>22, <1>a, <1>c, <2>1, <2>2 DEF RequestUnsent, KillComes, WhoWaitsHasSent, Awaiting, Admitted
<1>23. ASSUME NEW c \in Commands, Collect(c)
       PROVE Goal
  <2>1. Works(h, d)
    BY <1>23, <1>a, <1>b, <1>r DEF Collect, Outcomes
  <2>2. d = c => call[d] # "new"
    BY <1>a, <1>c, <2>1 DEF WhoWaitsHasSent
  <2>. QED
    BY <1>23, <1>a, <1>c, <2>1, <2>2 DEF Collect, KillComes, WhoWaitsHasSent, Awaiting, Admitted
<1>24. ASSUME NEW c \in Commands, Deadline(c)
       PROVE Goal
  <2>1. Works(h, d)
    BY <1>24, <1>a, <1>b, <1>r DEF Deadline, Outcomes
  <2>2. d = c => call[d] # "new"
    BY <1>a, <1>c, <2>1 DEF WhoWaitsHasSent
  <2>. QED
    BY <1>24, <1>a, <1>c, <2>1, <2>2 DEF Deadline, KillComes, WhoWaitsHasSent, Awaiting, Admitted
<1>25. ASSUME NEW c \in Commands, GiveUp(c)
       PROVE Goal
  <2>1. Works(h, d)
    BY <1>25, <1>a, <1>b, <1>r DEF GiveUp, Outcomes
  <2>2. d = c => call[d] # "new"
    BY <1>a, <1>c, <2>1 DEF WhoWaitsHasSent
  <2>. QED
    BY <1>25, <1>a, <1>c, <2>1, <2>2 DEF GiveUp, KillComes, WhoWaitsHasSent, Awaiting, Admitted
<1>26. ASSUME NEW c \in Commands, Cancel(c)
       PROVE Goal
  <2>1. Works(h, d)
    BY <1>26, <1>b, <1>r DEF Cancel
  <2>. QED
    BY <1>26, <1>c, <2>1 DEF Cancel, KillComes
<1>27. CASE StopBegin
  BY <1>27 DEF StopBegin, KillComes
<1>28. CASE StopTerminate
  <2>1. Works(h, d)
    BY <1>28, <1>b, <1>r DEF StopTerminate
  <2>2. UNCHANGED <<outcomes, call, stopRequested, force, handled, monitor>>
    BY <1>28 DEF StopTerminate
  <2>. QED
    BY <1>c, <2>1, <2>2 DEF KillComes
<1>29. CASE StopReturn
  BY <1>29, <1>a DEF StopReturn, KillComes, NothingToWatch
<1>30. CASE UNCHANGED vars
  <2>1. Works(h, d)
    BY <1>30, <1>b, <1>r
  <2>. QED
    BY <1>30, <1>c, <2>1 DEF KillComes
<1>. QED
  BY <1>1, <1>2, <1>3, <1>4, <1>5, <1>6, <1>7, <1>8, <1>9, <1>10, <1>11, <1>12, <1>13,
     <1>14, <1>15, <1>16, <1>17, <1>18, <1>19, <1>20, <1>21, <1>22, <1>23, <1>24, <1>25,
     <1>26, <1>27, <1>28, <1>29, <1>30
  DEF Next, WorkerStep, MonitorStep, RequestStep, StopStep

\* Nothing has been sent.
LEMMA WorkInvInit == ASSUME Init, AnswerInv PROVE WorkInv
<1>1. \A g \in Generations, c \in Commands : ~Works(g, c) /\ ~Replied(g, c)
  BY NoCommandIsIdle, EmptyHasNothing DEF Init, Works, Replied
<1>2. WorkedOnce /\ DeadAreIdle
  BY <1>1, EmptyHasNothing DEF Init, WorkedOnce, Once, DeadAreIdle
<1>. QED
  BY <1>1, <1>2
  DEF Init, WorkInv, WhoWaitsHasSent, NothingToWatch, WorkHasNoOutcome, WorkIsAwaited, Awaiting

LEMMA WorkInvStep == ASSUME WorkInv, [Next]_vars PROVE WorkInv'
<1>1. AnswerInv'
  BY AnswerInvStep DEF WorkInv
<1>2. WorkedOnce'
  BY WorkStep DEF WorkedOnce
<1>. QED
  BY <1>1, <1>2, DeadAreIdleStep, RecordStep, KillStep DEF WorkInv

\* A worker busy with a command its caller gave up is restarted or stopped
\* before anything else is asked of it.
THEOREM AbandonedWorkIsAlwaysKilled == Spec => []AbandonedWorkIsKilled
<1>1. ASSUME Init PROVE WorkInv
  BY <1>1, AnswerInvInit, WorkInvInit
<1>2. ASSUME WorkInv PROVE AbandonedWorkIsKilled
  <2>. SUFFICES ASSUME NEW g \in Generations, active[g] # NoCommand, call[active[g]] \notin Awaiting
                PROVE  KillComes(g)
    BY DEF AbandonedWorkIsKilled, KillComes
  <2>1. active[g] \in Commands
    BY <1>2 DEF WorkInv, AnswerInv, IInv, TypeOK
  <2>. QED
    BY <1>2, <2>1 DEF WorkInv, WorkIsAwaited, Works
<1>. QED
  BY <1>1, <1>2, WorkInvStep, PTL DEF Spec

-----------------------------------------------------------------------------
\* The last process spawned, registered or not.
LastSpawned == IF monitor = "register" THEN generation + 1 ELSE generation

\* A pipe has been emptied when its worker was given up.
PastIsSilent ==
  /\ \A g \in Generations : outbox[g] # <<>> => g = LastSpawned
  /\ monitor \in {"spawn", "broken", "settle"} => \A g \in Generations : outbox[g] = <<>>

\* At most one place of a sequence is in R.
AtMostOne(s, R) == \A i, j \in 1 .. Len(s) : s[i] \in R /\ s[j] \in R => i = j

RepliedOnce == \A g \in Generations, c \in Commands : AtMostOne(outbox[g], Reply(c))

Final == Reports \cup {"crashed"}

\* Whose outcome is a report or a crash is not worked on.
Over(c) == call[c] \in Final \/ outcomes[c] \in Final

OverIsOver ==
  \A c \in Commands :
    /\ Over(c) => \A g \in Generations : ~Works(g, c) /\ ~Replied(g, c)
    /\ outcomes[c] # "none" => call[c] \notin Final

ServeInv == WorkInv /\ PastIsSilent /\ RepliedOnce /\ OverIsOver

\* A pipe that holds one reply at most has it no more once it is read.
LEMMA TailOne ==
  ASSUME NEW S, NEW s \in Seq(S), s # <<>>, NEW R, AtMostOne(s, R)
  PROVE  /\ AtMostOne(Tail(s), R)
         /\ Head(s) \in R => \A m \in R : ~Has(Tail(s), m)
<1>1. /\ Len(s) \in Nat /\ Len(s) > 0 /\ Len(Tail(s)) = Len(s) - 1
      /\ Head(s) = s[1] /\ \A i \in 1 .. Len(s) - 1 : Tail(s)[i] = s[i + 1]
  OBVIOUS
<1>2. 1 \in 1 .. Len(s) /\ \A i \in 1 .. Len(s) - 1 : i + 1 \in 1 .. Len(s) /\ i + 1 # 1
  BY <1>1
<1>3. AtMostOne(Tail(s), R)
  <2>. SUFFICES ASSUME NEW i \in 1 .. Len(s) - 1, NEW j \in 1 .. Len(s) - 1,
                       s[i + 1] \in R, s[j + 1] \in R
                PROVE  i = j
    BY <1>1 DEF AtMostOne
  <2>1. i + 1 = j + 1
    BY <1>2 DEF AtMostOne
  <2>. QED
    BY <2>1
<1>4. ASSUME s[1] \in R, NEW m \in R, Has(Tail(s), m) PROVE FALSE
  <2>1. PICK i \in 1 .. Len(s) - 1 : s[i + 1] = m
    BY <1>1, <1>4 DEF Has
  <2>. QED
    BY <1>2, <1>4, <2>1 DEF AtMostOne
<1>. QED
  BY <1>1, <1>3, <1>4

\* What is written is the one reply if there was none.
LEMMA AppendOne ==
  ASSUME NEW S, NEW s \in Seq(S), NEW x \in S, NEW R, AtMostOne(s, R),
         x \in R => \A m \in R : ~Has(s, m)
  PROVE  AtMostOne(Append(s, x), R)
<1>1. /\ Len(s) \in Nat /\ Len(Append(s, x)) = Len(s) + 1
      /\ \A i \in 1 .. Len(s) + 1 : Append(s, x)[i] = IF i = Len(s) + 1 THEN x ELSE s[i]
  OBVIOUS
<1>2. x \in R => \A i \in 1 .. Len(s) : s[i] \notin R
  BY DEF Has
<1>. SUFFICES ASSUME NEW i \in 1 .. Len(s) + 1, NEW j \in 1 .. Len(s) + 1,
                     Append(s, x)[i] \in R, Append(s, x)[j] \in R
              PROVE  i = j
  BY <1>1 DEF AtMostOne
<1>3. /\ i # Len(s) + 1 => i \in 1 .. Len(s) /\ s[i] \in R
      /\ j # Len(s) + 1 => j \in 1 .. Len(s) /\ s[j] \in R
  BY <1>1
<1>4. (i = Len(s) + 1 => x \in R) /\ (j = Len(s) + 1 => x \in R)
  BY <1>1
<1>5. CASE x \in R
  BY <1>2, <1>3, <1>5
<1>6. CASE x \notin R
  BY <1>3, <1>4, <1>6 DEF AtMostOne
<1>. QED
  BY <1>5, <1>6

\* The replies to a command are one.
LEMMA OneHas ==
  ASSUME NEW s, NEW R, AtMostOne(s, R), NEW m \in R, NEW n \in R, Has(s, m), Has(s, n)
  PROVE  m = n
<1>. QED
  BY DEF AtMostOne, Has

\* What a step does to a pipe from a worker: nothing, empty it, read it, or
\* write an event of a living worker, which replies only to its own work.
LEMMA OutboxStep ==
  ASSUME WorkInv, [Next]_vars, NEW h \in Generations
  PROVE  \/ outbox'[h] \in {outbox[h], <<>>}
         \/ outbox[h] # <<>> /\ outbox'[h] = Tail(outbox[h])
         \/ \E e \in EventMessages :
              /\ outbox'[h] = Append(outbox[h], e) /\ Alive(h)
              /\ \A d \in Commands : e \in Reply(d) => Works(h, d)
<1>. DEFINE Written(e) == /\ outbox'[h] = Append(outbox[h], e) /\ Alive(h)
                          /\ \A d \in Commands : e \in Reply(d) => Works(h, d)
            Goal == \/ outbox'[h] \in {outbox[h], <<>>}
                    \/ outbox[h] # <<>> /\ outbox'[h] = Tail(outbox[h])
                    \/ \E e \in EventMessages : Written(e)
<1>. SUFFICES Goal
  OBVIOUS
<1>a. /\ outbox \in [Generations -> Seq(EventMessages)]
      /\ inbox \in [Generations -> Seq(CommandMessages)]
      /\ active \in [Generations -> Commands \cup {NoCommand}]
      /\ PipesTypeOK
  BY DEF WorkInv, AnswerInv, IInv, TypeOK, PipesTypeOK
<1>u. ASSUME UNCHANGED outbox PROVE Goal
  BY <1>u
<1>p. ASSUME NEW g \in Generations, NEW e \in EventMessages, Post(g, e), Alive(g),
             \A d \in Commands : e \in Reply(d) => Works(g, d)
      PROVE  Goal
  <2>1. CASE h = g
    <3>1. outbox'[h] = Append(outbox[h], e)
      BY <1>a, <1>p, <2>1 DEF Post
    <3>2. Written(e)
      BY <1>p, <2>1, <3>1
    <3>. QED
      BY <3>2
  <2>2. CASE h # g
    BY <1>a, <1>p, <2>2 DEF Post
  <2>. QED
    BY <2>1, <2>2
<1>t. ASSUME NEW g, Terminate(g) PROVE Goal
  BY <1>a, <1>t DEF Terminate
<1>r. ASSUME Receive PROVE Goal
  BY <1>a, <1>r DEF Receive
<1>. HIDE DEF Goal
<1>. USE DEF flags, answers, wires, workers, watch, calls, stops, vars
<1>1. ASSUME NEW g \in Generations, Boot(g) PROVE Goal
  <2>1. [kind |-> "ready"] \in EventMessages /\ \A d \in Commands : [kind |-> "ready"] \notin Reply(d)
    BY DEF EventMessages, Reply
  <2>2. Post(g, [kind |-> "ready"]) /\ Alive(g)
    BY <1>1 DEF Boot, Alive
  <2>. QED
    BY <1>p, <2>1, <2>2
<1>2. ASSUME NEW g \in Generations, Execute(g) PROVE Goal
  <2>. DEFINE c == Head(inbox[g]).command
              e == [kind |-> "error", command |-> c]
  <2>1. Head(inbox[g]) \in CommandMessages /\ Has(inbox[g], Head(inbox[g])) /\ Alive(g)
    BY <1>2, <1>a, CommandRead, TailHas DEF Execute, Alive
  <2>2. c \in Commands /\ Head(inbox[g]) = Order(c)
    BY <1>2, <2>1 DEF CommandMessages, Order, Execute
  <2>3. e \in EventMessages /\ \A d \in Commands : e \in Reply(d) => Works(g, d)
    BY <2>1, <2>2 DEF EventMessages, Reply, Works
  <2>4. Post(g, e) \/ UNCHANGED outbox
    BY <1>2 DEF Execute
  <2>. HIDE DEF e
  <2>. QED
    BY <1>p, <1>u, <2>1, <2>3, <2>4
<1>3. ASSUME NEW g \in Generations, ObserveCancel(g) PROVE Goal
  BY <1>3, <1>u DEF ObserveCancel
<1>4. ASSUME NEW g \in Generations, Shutdown(g) PROVE Goal
  <2>1. [kind |-> "stopped"] \in EventMessages /\ \A d \in Commands : [kind |-> "stopped"] \notin Reply(d)
    BY DEF EventMessages, Reply
  <2>2. Post(g, [kind |-> "stopped"]) /\ Alive(g)
    BY <1>4 DEF Shutdown, Alive
  <2>. QED
    BY <1>p, <2>1, <2>2
<1>5. ASSUME NEW g \in Generations, Report(g) PROVE Goal
  <2>1. PICK k \in {"result", "error", "cancelled"} : Post(g, [kind |-> k, command |-> active[g]])
    BY <1>5 DEF Report
  <2>2. active[g] \in Commands /\ Alive(g)
    BY <1>5, <1>a DEF Report, Alive
  <2>3. /\ [kind |-> k, command |-> active[g]] \in EventMessages
        /\ \A d \in Commands : [kind |-> k, command |-> active[g]] \in Reply(d) => Works(g, d)
    BY <2>2 DEF EventMessages, Reply, Works
  <2>. QED
    BY <1>p, <2>1, <2>2, <2>3
<1>6. ASSUME NEW g \in Generations, Crash(g) PROVE Goal
  BY <1>6, <1>u DEF Crash
<1>7. CASE SpawnProcess
  BY <1>7, <1>u DEF SpawnProcess
<1>8. CASE SpawnRefused
  BY <1>8, <1>u DEF SpawnRefused
<1>9. CASE Register
  BY <1>9, <1>u DEF Register
<1>10. CASE SpawnReady
  BY <1>10, <1>r DEF SpawnReady
<1>11. CASE SpawnFails
  BY <1>11, <1>t DEF SpawnFails
<1>12. CASE SpawnAbandoned
  BY <1>12, <1>u DEF SpawnAbandoned
<1>13. CASE MonitorTop
  BY <1>13, <1>u DEF MonitorTop
<1>14. CASE MonitorReceive
  BY <1>14, <1>r DEF MonitorReceive
<1>15. CASE MonitorQuiet
  BY <1>15, <1>u DEF MonitorQuiet
<1>16. CASE MonitorCheck
  BY <1>16, <1>u DEF MonitorCheck
<1>17. CASE RecoverBegin
  BY <1>17, <1>u DEF RecoverBegin
<1>18. CASE RecoverTerminate
  BY <1>18, <1>t DEF RecoverTerminate
<1>19. CASE RecoverSettle
  BY <1>19, <1>u DEF RecoverSettle
<1>20. ASSUME NEW c \in Commands, RequestStep(c) \/ Cancel(c) PROVE Goal
  BY <1>20, <1>u
  DEF RequestStep, Refuse, Request, RequestUnsent, Collect, Deadline, GiveUp, Cancel
<1>21. CASE StopBegin
  BY <1>21, <1>u DEF StopBegin
<1>22. CASE StopTerminate
  BY <1>22, <1>u, <1>t DEF StopTerminate
<1>23. CASE StopReturn
  BY <1>23, <1>u DEF StopReturn
<1>24. CASE UNCHANGED vars
  BY <1>24, <1>u
<1>. QED
  BY <1>1, <1>2, <1>3, <1>4, <1>5, <1>6, <1>7, <1>8, <1>9, <1>10, <1>11, <1>12, <1>13, <1>14,
     <1>15, <1>16, <1>17, <1>18, <1>19, <1>20, <1>21, <1>22, <1>23, <1>24
  DEF Next, WorkerStep, MonitorStep, StopStep

\* Only work is replied to, and once.
LEMMA ReplyStep ==
  ASSUME WorkInv, RepliedOnce, [Next]_vars, NEW h \in Generations, NEW d \in Commands
  PROVE  /\ AtMostOne(outbox'[h], Reply(d))
         /\ Replied(h, d)' => Replied(h, d) \/ Works(h, d)
<1>1. outbox[h] \in Seq(EventMessages) /\ AtMostOne(outbox[h], Reply(d)) /\ Once(h, d)
  BY DEF WorkInv, AnswerInv, IInv, TypeOK, RepliedOnce, WorkedOnce
<1>2. CASE outbox'[h] = outbox[h]
  BY <1>1, <1>2 DEF Replied, Reply
<1>3. CASE outbox'[h] = <<>>
  <2>1. AtMostOne(<<>>, Reply(d))
    BY DEF AtMostOne
  <2>2. ~Replied(h, d)'
    BY <1>3, EmptyHasNothing DEF Replied
  <2>. QED
    BY <1>3, <2>1, <2>2
<1>4. CASE outbox[h] # <<>> /\ outbox'[h] = Tail(outbox[h])
  <2>1. AtMostOne(Tail(outbox[h]), Reply(d))
    BY <1>1, <1>4, TailOne
  <2>2. \A m : Has(Tail(outbox[h]), m) => Has(outbox[h], m)
    BY <1>1, <1>4, TailHas
  <2>. QED
    BY <1>4, <2>1, <2>2 DEF Replied, Reply
<1>5. ASSUME NEW e \in EventMessages, outbox'[h] = Append(outbox[h], e), e \in Reply(d) => Works(h, d)
      PROVE  AtMostOne(outbox'[h], Reply(d)) /\ (Replied(h, d)' => Replied(h, d) \/ Works(h, d))
  <2>1. \A m : Has(Append(outbox[h], e), m) <=> Has(outbox[h], m) \/ e = m
    BY <1>1, AppendHas
  <2>2. e \in Reply(d) => \A m \in Reply(d) : ~Has(outbox[h], m)
    BY <1>1, <1>5 DEF Once, Replied
  <2>3. AtMostOne(Append(outbox[h], e), Reply(d))
    BY <1>1, <2>2, AppendOne
  <2>4. Replied(h, d)' => Replied(h, d) \/ e \in Reply(d)
    BY <1>5, <2>1 DEF Replied, Reply
  <2>. QED
    BY <1>5, <2>3, <2>4
<1>. QED
  BY <1>2, <1>3, <1>4, <1>5, OutboxStep

\* A worker is given up with its pipes, and before another is spawned.
LEMMA PastIsSilentStep == ASSUME WorkInv, PastIsSilent, [Next]_vars PROVE PastIsSilent'
<1>. USE DEF flags, answers, wires, workers, watch, calls, stops, vars
<1>1. ASSUME NEW h \in Generations, outbox'[h] # <<>> PROVE outbox[h] # <<>> \/ Alive(h)
  BY <1>1, OutboxStep
<1>2. /\ \A h \in Generations : Alive(h) => h = LastSpawned
      /\ monitor \in {"spawn", "broken", "settle"} => NobodyLives
  BY DEF WorkInv, AnswerInv, IInv, OnlyTheLastLives, LastSpawned
<1>3. LastSpawned' = LastSpawned \/ monitor = "spawn"
  <2>1. CASE MonitorStep
    BY <2>1
    DEF MonitorStep, SpawnProcess, SpawnRefused, Register, SpawnReady, SpawnFails, SpawnAbandoned,
        MonitorTop, MonitorReceive, MonitorQuiet, MonitorCheck, RecoverBegin, RecoverTerminate,
        RecoverSettle, LastSpawned
  <2>2. CASE UNCHANGED <<monitor, generation>>
    BY <2>2 DEF LastSpawned
  <2>. QED
    BY <2>1, <2>2
    DEF Next, WorkerStep, Boot, Execute, ObserveCancel, Shutdown, Report, Crash, RequestStep, Refuse,
        Request, RequestUnsent, Collect, Deadline, GiveUp, Cancel, StopBegin, StopStep,
        StopTerminate, StopReturn
<1>4. \A h \in Generations : outbox'[h] # <<>> => h = LastSpawned'
  <2>. SUFFICES ASSUME NEW h \in Generations, outbox'[h] # <<>> PROVE h = LastSpawned'
    OBVIOUS
  <2>1. monitor # "spawn" /\ h = LastSpawned
    BY <1>1, <1>2 DEF PastIsSilent, NobodyLives
  <2>. QED
    BY <1>3, <2>1
<1>5. ASSUME monitor' \in {"spawn", "broken", "settle"}, NEW h \in Generations
      PROVE  outbox'[h] = <<>>
  <2>1. CASE monitor \in {"spawn", "broken", "settle"}
    BY <1>1, <1>2, <2>1 DEF PastIsSilent, NobodyLives
  <2>2. CASE monitor \notin {"spawn", "broken", "settle"}
    <3>1. SpawnFails \/ RecoverTerminate
      BY <1>5, <2>2
      DEF Next, MonitorStep, SpawnProcess, SpawnRefused, Register, SpawnReady, SpawnAbandoned,
          MonitorTop, MonitorReceive, MonitorQuiet, MonitorCheck, RecoverBegin, RecoverSettle,
          WorkerStep, Boot, Execute, ObserveCancel, Shutdown, Report, Crash, RequestStep, Refuse,
          Request, RequestUnsent, Collect, Deadline, GiveUp, Cancel, StopBegin, StopStep,
          StopTerminate, StopReturn
    <3>2. outbox' = [outbox EXCEPT ![handled] = <<>>] /\ handled = LastSpawned
      BY <3>1
      DEF SpawnFails, RecoverTerminate, Terminate, WorkInv, AnswerInv, IInv, MonitorKnowsTransport,
          LastSpawned
    <3>3. outbox \in [Generations -> Seq(EventMessages)]
      BY DEF WorkInv, AnswerInv, IInv, TypeOK
    <3>. QED
      BY <3>2, <3>3 DEF PastIsSilent
  <2>. QED
    BY <2>1, <2>2
<1>. QED
  BY <1>4, <1>5 DEF PastIsSilent

\* What a step does to the record of a request.
LEMMA RecordOf ==
  ASSUME WorkInv, [Next]_vars, NEW d \in Commands
  PROVE  \/ call'[d] = call[d] /\ outcomes'[d] = outcomes[d]
         \/ call'[d] \notin Final /\ outcomes'[d] \in {outcomes[d], "none"}
         \/ call'[d] = outcomes[d] /\ outcomes'[d] = "none"
         \/ d \in pending /\ call'[d] = call[d] /\ outcomes'[d] = "stopped"
         \/ /\ d \in pending /\ call'[d] = call[d] /\ outcomes'[d] = "crashed"
            /\ monitor = "settle" /\ UNCHANGED <<inbox, active, outbox>>
         \/ \E h \in Generations :
              /\ outbox[h] # <<>> /\ Head(outbox[h]) \in Reply(d)
              /\ outbox' = [outbox EXCEPT ![h] = Tail(@)]
              /\ call'[d] = call[d] /\ outcomes'[d] = Head(outbox[h]).kind
<1>. DEFINE Read(h) == /\ outbox[h] # <<>> /\ Head(outbox[h]) \in Reply(d)
                       /\ outbox' = [outbox EXCEPT ![h] = Tail(@)]
                       /\ call'[d] = call[d] /\ outcomes'[d] = Head(outbox[h]).kind
            Settled == /\ d \in pending /\ call'[d] = call[d] /\ outcomes'[d] = "crashed"
                       /\ monitor = "settle" /\ UNCHANGED <<inbox, active, outbox>>
            Goal == \/ call'[d] = call[d] /\ outcomes'[d] = outcomes[d]
                    \/ call'[d] \notin Final /\ outcomes'[d] \in {outcomes[d], "none"}
                    \/ call'[d] = outcomes[d] /\ outcomes'[d] = "none"
                    \/ d \in pending /\ call'[d] = call[d] /\ outcomes'[d] = "stopped"
                    \/ Settled
                    \/ \E h \in Generations : Read(h)
<1>. SUFFICES Goal
  OBVIOUS
<1>a. /\ outbox \in [Generations -> Seq(EventMessages)]
      /\ outcomes \in [Commands -> Outcomes \cup {"none"}]
      /\ call \in [Commands -> {"new"} \cup Awaiting \cup Answers]
      /\ monitor \in {"boot", "poll"} => handled \in Generations
  BY DEF WorkInv, AnswerInv, IInv, TypeOK, MonitorKnowsTransport
<1>. USE DEF flags, answers, wires, workers, watch, calls, stops, vars
<1>1. CASE UNCHANGED <<call, outcomes>>
  BY <1>1
<1>2. ASSUME NEW h \in Generations, outbox[h] # <<>>, Consume(Head(outbox[h])), UNCHANGED call,
             outbox' = [outbox EXCEPT ![h] = Tail(@)]
      PROVE  Goal
  <2>. DEFINE e == Head(outbox[h])
  <2>1. e \in EventMessages
    BY <1>2, <1>a, EventRead
  <2>2. CASE e.kind \in {"ready", "stopped"}
    BY <1>2, <2>2 DEF Consume
  <2>3. CASE e.kind \notin {"ready", "stopped"}
    <3>1. e \in [kind : {"result", "error", "cancelled"}, command : Commands]
      BY <2>1, <2>3 DEF EventMessages
    <3>2. outcomes' = [outcomes EXCEPT ![e.command] = e.kind] /\ e.command \in Commands
      BY <1>2, <2>3, <3>1 DEF Consume, Answer
    <3>3. CASE e.command = d
      <4>1. e \in Reply(d)
        BY <3>1, <3>3 DEF Reply
      <4>2. Read(h)
        BY <1>2, <1>a, <3>2, <3>3, <4>1
      <4>. QED
        BY <4>2
    <3>4. CASE e.command # d
      BY <1>2, <1>a, <3>2, <3>4
    <3>. QED
      BY <3>3, <3>4
  <2>. QED
    BY <2>2, <2>3
<1>3. CASE SpawnReady \/ MonitorReceive
  BY <1>2, <1>3, <1>a DEF SpawnReady, MonitorReceive, Receive
<1>4. CASE RecoverSettle
  BY <1>4, <1>a DEF RecoverSettle, FailPending
<1>5. CASE StopReturn
  BY <1>5, <1>a DEF StopReturn, FailPending
<1>6. ASSUME NEW c \in Commands, Collect(c) PROVE Goal
  BY <1>6, <1>a DEF Collect
<1>7. ASSUME NEW c \in Commands,
             Refuse(c) \/ Request(c) \/ RequestUnsent(c) \/ Deadline(c) \/ GiveUp(c)
      PROVE  Goal
  <2>1. \E x : call' = [call EXCEPT ![c] = x] /\ x \notin Final
    BY <1>7 DEF Refuse, Request, RequestUnsent, Deadline, GiveUp, Final, Reports
  <2>2. outcomes'[d] = outcomes[d] \/ (c = d /\ outcomes'[d] = "none")
    BY <1>7, <1>a DEF Refuse, Request, RequestUnsent, Deadline, GiveUp
  <2>3. CASE c = d
    <3>1. call'[d] \notin Final
      BY <1>a, <2>1, <2>3
    <3>. QED
      BY <2>2, <3>1
  <2>4. CASE c # d
    BY <1>a, <2>1, <2>2, <2>4
  <2>. QED
    BY <2>3, <2>4
<1>8. CASE MonitorStep
  BY <1>8, <1>1, <1>3, <1>4
  DEF MonitorStep, SpawnProcess, SpawnRefused, Register, SpawnFails, SpawnAbandoned, MonitorTop,
      MonitorQuiet, MonitorCheck, RecoverBegin, RecoverTerminate
<1>9. ASSUME NEW c \in Commands, RequestStep(c) \/ Cancel(c) PROVE Goal
  BY <1>9, <1>1, <1>6, <1>7 DEF RequestStep, Cancel
<1>10. CASE StopBegin \/ StopStep
  BY <1>10, <1>1, <1>5 DEF StopBegin, StopStep, StopTerminate
<1>11. ASSUME NEW g \in Generations, WorkerStep(g) \/ Crash(g) PROVE Goal
  BY <1>11, <1>1 DEF WorkerStep, Boot, Execute, ObserveCancel, Shutdown, Report, Crash
<1>12. CASE UNCHANGED vars
  BY <1>12, <1>1
<1>. HIDE DEF Goal
<1>. QED
  BY <1>8, <1>9, <1>10, <1>11, <1>12 DEF Next

\* A report that is read was the only one, and a crash leaves nothing.
LEMMA OverIsOverStep == ASSUME ServeInv, [Next]_vars PROVE OverIsOver'
<1>. SUFFICES ASSUME NEW d \in Commands
              PROVE  /\ Over(d)' => \A g \in Generations : ~Works(g, d)' /\ ~Replied(g, d)'
                     /\ outcomes'[d] # "none" => call'[d] \notin Final
  BY DEF OverIsOver
<1>a. /\ WorkInv /\ PastIsSilent /\ RepliedOnce
      /\ \A g \in Generations : Once(g, d)
      /\ Over(d) => \A g \in Generations : ~Works(g, d) /\ ~Replied(g, d)
      /\ outcomes[d] # "none" => call[d] \notin Final
      /\ d \in pending => call[d] \notin Final
      /\ outbox \in [Generations -> Seq(EventMessages)]
      /\ call \in [Commands -> {"new"} \cup Awaiting \cup Answers]
  BY DEF ServeInv, OverIsOver, WorkInv, AnswerInv, IInv, TypeOK, WorkedOnce, EveryCallIsAnswerable, Final,
         Reports, Awaiting
<1>b. \A g \in Generations : Works(g, d)' => Works(g, d) \/ Request(d)
  BY <1>a, WorkStep
<1>c. \A g \in Generations : Replied(g, d)' => Replied(g, d) \/ Works(g, d)
  BY <1>a, ReplyStep
<1>d. Request(d) => ~Over(d) /\ call'[d] = "waiting" /\ call[d] = "new" /\ outcomes[d] = "none" /\ UNCHANGED outcomes
  BY <1>a DEF Request, Admitted, Over, Final, Reports, WorkInv, AnswerInv, NewIsUnheard
<1>o. Over(d) => \A g \in Generations : ~Works(g, d)' /\ ~Replied(g, d)'
  BY <1>a, <1>b, <1>c, <1>d
<1>f. "none" \notin Final /\ "stopped" \notin Final
  BY DEF Final, Reports
<1>1. CASE call'[d] = call[d] /\ outcomes'[d] = outcomes[d]
  BY <1>1, <1>a, <1>o DEF Over
<1>2. CASE call'[d] \notin Final /\ outcomes'[d] \in {outcomes[d], "none"}
  BY <1>2, <1>o, <1>f DEF Over
<1>3. CASE call'[d] = outcomes[d] /\ outcomes'[d] = "none"
  BY <1>3, <1>o, <1>f DEF Over
<1>4. CASE d \in pending /\ call'[d] = call[d] /\ outcomes'[d] = "stopped"
  BY <1>4, <1>a, <1>f DEF Over
<1>5. CASE /\ d \in pending /\ call'[d] = call[d] /\ outcomes'[d] = "crashed"
           /\ monitor = "settle" /\ UNCHANGED <<inbox, active, outbox>>
  <2>1. \A g \in Generations : outbox[g] = <<>> /\ inbox[g] = <<>> /\ active[g] = NoCommand
    BY <1>5, <1>a DEF WorkInv, AnswerInv, IInv, OnlyTheLastLives, NobodyLives, DeadAreIdle, PastIsSilent
  <2>2. \A g \in Generations : ~Works(g, d)' /\ ~Replied(g, d)'
    BY <1>5, <2>1, EmptyHasNothing, NoCommandIsIdle DEF Works, Replied
  <2>. QED
    BY <1>5, <1>a, <2>2
<1>6. ASSUME NEW h \in Generations, outbox[h] # <<>>, Head(outbox[h]) \in Reply(d),
             outbox' = [outbox EXCEPT ![h] = Tail(@)], call'[d] = call[d]
      PROVE  /\ \A g \in Generations : ~Works(g, d)' /\ ~Replied(g, d)'
             /\ call'[d] \notin Final
  <2>1. Replied(h, d)
    BY <1>6, <1>a, TailHas DEF Replied
  <2>2. \A g \in Generations : ~Works(g, d) /\ (Replied(g, d) => g = h)
    BY <1>a, <2>1 DEF Once
  <2>3. ~Replied(h, d)'
    <3>1. AtMostOne(outbox[h], Reply(d)) /\ outbox'[h] = Tail(outbox[h])
      BY <1>6, <1>a DEF RepliedOnce
    <3>. QED
      BY <1>6, <1>a, <3>1, TailOne DEF Replied, Reply
  <2>4. ~Request(d) /\ call[d] \notin Final
    BY <1>6, <1>a, <1>d, <2>1 DEF Over
  <2>. QED
    BY <1>6, <1>b, <1>c, <2>2, <2>3, <2>4
<1>. QED
  BY <1>a, <1>1, <1>2, <1>3, <1>4, <1>5, <1>6, RecordOf

\* Nothing has been asked, worked on or answered.
LEMMA ServeInvInit == ASSUME Init, WorkInv PROVE ServeInv
<1>1. \A g \in Generations, c \in Commands : ~Works(g, c) /\ ~Replied(g, c)
  BY NoCommandIsIdle, EmptyHasNothing DEF Init, Works, Replied
<1>2. PastIsSilent /\ RepliedOnce
  BY DEF Init, PastIsSilent, RepliedOnce, AtMostOne
<1>3. OverIsOver
  BY <1>1 DEF Init, OverIsOver
<1>. QED
  BY <1>2, <1>3 DEF ServeInv

LEMMA ServeInvStep == ASSUME ServeInv, [Next]_vars PROVE ServeInv'
<1>1. WorkInv /\ PastIsSilent /\ RepliedOnce
  BY DEF ServeInv
<1>2. RepliedOnce'
  BY <1>1, ReplyStep DEF RepliedOnce, Reply
<1>. QED
  BY <1>1, <1>2, WorkInvStep, PastIsSilentStep, OverIsOverStep DEF ServeInv

ReportOf(c, kind) == [kind |-> kind, command |-> c]

\* What has become of a command is one thing, and one report at most.
WorkIsClear ==
  \A d \in Commands :
    /\ via[d] = None => Work(d) = "none"
    /\ via[d] # None =>
         /\ Has(inbox[via[d]], Order(d)) => Work(d) = "ordered"
         /\ active[via[d]] = d => Work(d) = "working" /\ ~Has(inbox[via[d]], Order(d))
         /\ Works(via[d], d) => ReportsOf(d) = {}
         /\ ~Works(via[d], d) =>
              /\ ReportsOf(d) = {} => Work(d) = "gone"
              /\ \A kind \in ReportsOf(d) : Work(d) = kind /\ ReportsOf(d) = {kind}

LEMMA WorkOf == ServeInv => WorkIsClear
<1>. SUFFICES ASSUME ServeInv, NEW d \in Commands, via[d] # None
              PROVE  /\ active[via[d]] = d => ~Has(inbox[via[d]], Order(d))
                     /\ Works(via[d], d) => ReportsOf(d) = {}
                     /\ \A kind \in ReportsOf(d) : ReportsOf(d) = {kind}
  <2>1. \A kind : (CHOOSE report \in {kind} : TRUE) = kind
    OBVIOUS
  <2>. QED
    BY <2>1 DEF WorkIsClear, Work, Works
<1>1. /\ via[d] \in Generations /\ Once(via[d], d)
      /\ Over(d) => ~Works(via[d], d) /\ ~Replied(via[d], d)
      /\ outcomes[d] # "none" => call[d] \notin Final
      /\ AtMostOne(outbox[via[d]], Reply(d))
  BY DEF ServeInv, OverIsOver, RepliedOnce, WorkInv, AnswerInv, IInv, TypeOK, WorkedOnce
<1>2. \A kind \in Reports : ReportOf(d, kind) \in Reply(d)
  BY DEF Reports, ReportOf, Reply
<1>3. ASSUME NEW kind \in ReportsOf(d)
      PROVE  \/ kind \in Reports /\ Has(outbox[via[d]], ReportOf(d, kind)) /\ Replied(via[d], d) /\ ~Over(d)
             \/ kind \in Reports /\ kind \in {outcomes[d], call[d]} /\ Over(d) /\ ~Replied(via[d], d)
  BY <1>1, <1>2, <1>3 DEF ReportsOf, ReportOf, Replied, Over, Final
<1>4. Works(via[d], d) => ReportsOf(d) = {}
  BY <1>1, <1>3 DEF Once
<1>5. ASSUME NEW kind \in ReportsOf(d), NEW other \in ReportsOf(d) PROVE kind = other
  <2>1. CASE Over(d)
    <3>1. kind \in {outcomes[d], call[d]} /\ other \in {outcomes[d], call[d]} /\ kind \in Reports /\ other \in Reports
      BY <1>3, <1>5, <2>1
    <3>. QED
      BY <1>1, <3>1 DEF Final, Reports
  <2>2. CASE ~Over(d)
    <3>1. /\ Has(outbox[via[d]], ReportOf(d, kind)) /\ kind \in Reports
          /\ Has(outbox[via[d]], ReportOf(d, other)) /\ other \in Reports
      BY <1>3, <1>5, <2>2
    <3>2. ReportOf(d, kind) = ReportOf(d, other)
      BY <1>1, <1>2, <3>1, OneHas
    <3>. QED
      BY <3>2 DEF ReportOf
  <2>. QED
    BY <2>1, <2>2
<1>. QED
  BY <1>1, <1>4, <1>5 DEF Once

\* A command whose messages, work and answers are left alone stays what it is.
LEMMA SameWork ==
  ASSUME NEW d \in Commands, via'[d] = via[d],
         via[d] # None =>
           /\ Has(inbox'[via[d]], Order(d)) <=> Has(inbox[via[d]], Order(d))
           /\ active'[via[d]] = d <=> active[via[d]] = d
           /\ \A kind \in Reports :
                Has(outbox'[via[d]], ReportOf(d, kind)) <=> Has(outbox[via[d]], ReportOf(d, kind)),
         {outcomes'[d], call'[d]} \cap Reports = {outcomes[d], call[d]} \cap Reports
  PROVE  Work(d)' = Work(d)
<1>1. CASE via[d] = None
  BY <1>1 DEF Work
<1>2. CASE via[d] # None
  <2>1. ReportsOf(d)' = ReportsOf(d)
    BY <1>2 DEF ReportsOf, ReportOf
  <2>. DEFINE r == ReportsOf(d)
              before == Has(inbox[via[d]], Order(d))
              after == Has(inbox'[via[d]], Order(d))
  <2>2. Work(d)' = IF after THEN "ordered"
                   ELSE IF active'[via[d]] = d THEN "working"
                   ELSE IF r = {} THEN "gone"
                   ELSE CHOOSE report \in r : TRUE
    BY <1>2, <2>1 DEF Work
  <2>3. Work(d) = IF before THEN "ordered"
                  ELSE IF active[via[d]] = d THEN "working"
                  ELSE IF r = {} THEN "gone"
                  ELSE CHOOSE report \in r : TRUE
    BY <1>2 DEF Work
  <2>4. (after <=> before) /\ (active'[via[d]] = d <=> active[via[d]] = d)
    BY <1>2
  <2>. HIDE DEF r, before, after
  <2>. QED
    BY <2>2, <2>3, <2>4
<1>. QED
  BY <1>1, <1>2

\* What is written to and read from a worker's pipe, message by message.
LEMMA PostedExactly ==
  ASSUME PipesTypeOK, NEW g \in Generations, NEW e \in EventMessages, Post(g, e),
         NEW h \in Generations, NEW m
  PROVE  Has(outbox'[h], m) <=> Has(outbox[h], m) \/ (h = g /\ e = m)
<1>1. /\ outbox \in [Generations -> Seq(EventMessages)] /\ outbox[g] \in Seq(EventMessages)
      /\ outbox'[h] = IF h = g THEN Append(outbox[g], e) ELSE outbox[h]
  BY DEF PipesTypeOK, Post
<1>2. Has(Append(outbox[g], e), m) <=> Has(outbox[g], m) \/ e = m
  BY <1>1, AppendHas
<1>. QED
  BY <1>1, <1>2

LEMMA HeardExactly ==
  ASSUME PipesTypeOK, NEW g \in Generations, outbox[g] # <<>>,
         outbox' = [outbox EXCEPT ![g] = Tail(@)],
         NEW h \in Generations, NEW m
  PROVE  Has(outbox[h], m) <=> Has(outbox'[h], m) \/ (h = g /\ m = Head(outbox[g]))
<1>1. /\ outbox \in [Generations -> Seq(EventMessages)] /\ outbox[g] \in Seq(EventMessages)
      /\ outbox'[h] = IF h = g THEN Tail(outbox[g]) ELSE outbox[h]
  BY DEF PipesTypeOK
<1>2. Has(outbox[g], m) <=> m = Head(outbox[g]) \/ Has(Tail(outbox[g]), m)
  BY <1>1, TailHas
<1>. QED
  BY <1>1, <1>2

\* Only one command moves.
LEMMA Moves ==
  ASSUME NEW c \in Commands,
         \A d \in Commands : d # c => Work(d)' = Work(d) /\ Told(d)' = Told(d)
  PROVE  /\ [d \in Commands |-> Work(d)]' = [[d \in Commands |-> Work(d)] EXCEPT ![c] = Work(c)']
         /\ [d \in Commands |-> Told(d)]' = [[d \in Commands |-> Told(d)] EXCEPT ![c] = Told(c)']
         /\ Work(c)' = Work(c) => UNCHANGED [d \in Commands |-> Work(d)]
         /\ Told(c)' = Told(c) => UNCHANGED [d \in Commands |-> Told(d)]
<1>. QED
  OBVIOUS

\* A worker that dies loses what it has not answered, whether or not its pipe
\* is emptied.
LEMMA DeathLoses ==
  ASSUME ServeInv, ServeInv', NEW g \in Generations, Die(g), UNCHANGED <<call, outcomes, via>>,
         \A h \in Generations, d \in Commands, kind \in Reports :
           /\ Has(outbox'[h], ReportOf(d, kind)) => Has(outbox[h], ReportOf(d, kind))
           /\ h # g => (Has(outbox[h], ReportOf(d, kind)) => Has(outbox'[h], ReportOf(d, kind)))
  PROVE  Service!Next
<1>a. WorkIsClear
  BY WorkOf
<1>b. WorkIsClear'
  BY WorkOf, PTL
<1>c. /\ via \in [Commands -> {None} \cup Generations]
      /\ inbox \in [Generations -> Seq(CommandMessages)]
      /\ active \in [Generations -> Commands \cup {NoCommand}]
      /\ call \in [Commands -> {"new"} \cup Awaiting \cup Answers]
  BY DEF ServeInv, WorkInv, AnswerInv, IInv, TypeOK
<1>d. /\ inbox'[g] = <<>> /\ active'[g] = NoCommand
      /\ \A h \in Generations : h # g => inbox'[h] = inbox[h] /\ active'[h] = active[h]
  BY <1>c DEF Die
<1>1. ASSUME NEW d \in Commands
      PROVE  \/ Work(d)' = Work(d)
             \/ Work(d)' = "gone" /\ Work(d) \notin {"none", "gone", Told(d)}
  <2>1. CASE via[d] = None
    BY <2>1, <1>a, <1>b DEF WorkIsClear
  <2>2. CASE via[d] \notin {None, g}
    <3>1. via[d] \in Generations
      BY <1>c, <2>2
    <3>. QED
      BY <1>d, <2>2, <3>1, SameWork
  <2>3. CASE via[d] = g
    <3>1. g # None /\ via'[d] = g
      BY <2>3 DEF Generations, None
    <3>2. ~Works(g, d)'
      BY <1>d, EmptyHasNothing, NoCommandIsIdle DEF Works
    <3>3. ReportsOf(d)' \subseteq ReportsOf(d)
      BY <2>3, <3>1 DEF ReportsOf, ReportOf
    <3>4. ReportsOf(d)' = {} => Work(d)' = "gone"
      BY <1>b, <3>1, <3>2 DEF WorkIsClear
    <3>5. Told(d) \notin {"ordered", "working", "none", "gone"}
      BY <1>c DEF Told, Awaiting, Answers, Outcomes
    <3>6. CASE Works(g, d)
      <4>1. ReportsOf(d) = {} /\ Work(d) \in {"ordered", "working"}
        BY <1>a, <2>3, <3>1, <3>6 DEF WorkIsClear, Works
      <4>. QED
        BY <3>3, <3>4, <3>5, <4>1
    <3>7. CASE ~Works(g, d) /\ ReportsOf(d) = {}
      <4>1. Work(d) = "gone" /\ Work(d)' = "gone"
        BY <1>a, <2>3, <3>1, <3>3, <3>4, <3>7 DEF WorkIsClear
      <4>. QED
        BY <4>1
    <3>8. ASSUME ~Works(g, d), NEW kind \in ReportsOf(d)
          PROVE  \/ Work(d)' = Work(d)
                 \/ Work(d)' = "gone" /\ Work(d) \notin {"none", "gone", Told(d)}
      <4>1. Work(d) = kind /\ ReportsOf(d) = {kind} /\ kind \in Reports
        BY <1>a, <2>3, <3>1, <3>8 DEF WorkIsClear, ReportsOf
      <4>2. CASE kind \in ReportsOf(d)'
        <5>1. Work(d)' = kind
          BY <1>b, <3>1, <3>2, <4>2 DEF WorkIsClear
        <5>. QED
          BY <4>1, <5>1
      <4>3. CASE kind \notin ReportsOf(d)'
        <5>1. kind # call[d]
          BY <4>1, <4>3 DEF ReportsOf
        <5>2. kind # Told(d) /\ kind \notin {"none", "gone"}
          BY <4>1, <5>1 DEF Told, Reports
        <5>. QED
          BY <3>3, <3>4, <4>1, <4>3, <5>2
      <4>. QED
        BY <4>2, <4>3
    <3>. QED
      BY <3>6, <3>7, <3>8
  <2>. QED
    BY <2>1, <2>2, <2>3
<1>2. \A d \in Commands : Told(d)' = Told(d)
  BY DEF Told
<1>. DEFINE lost == {d \in Commands : Work(d)' # Work(d)}
<1>3. /\ lost \in SUBSET {d \in Commands : Work(d) \notin {"none", "gone", Told(d)}}
      /\ [d \in Commands |-> Work(d)]' = [d \in Commands |-> IF d \in lost THEN "gone" ELSE Work(d)]
  BY <1>1
<1>4. Service!Lose
  BY <1>2, <1>3 DEF Service!Lose
<1>. QED
  BY <1>4 DEF Service!Next

\* A worker starts what it is ordered, or refuses it while it is busy.
LEMMA ExecuteServes ==
  ASSUME ServeInv, ServeInv', NEW g \in Generations, Execute(g)
  PROVE  Service!Next
<1>a. /\ WorkIsClear /\ PipesTypeOK /\ g # None
      /\ via \in [Commands -> {None} \cup Generations]
      /\ inbox \in [Generations -> Seq(CommandMessages)]
      /\ active \in [Generations -> Commands \cup {NoCommand}]
      /\ UNCHANGED <<call, outcomes, via>>
      /\ inbox[g] # <<>> /\ inbox' = [inbox EXCEPT ![g] = Tail(@)]
  BY WorkOf
  DEF ServeInv, WorkInv, AnswerInv, IInv, TypeOK, PipesTypeOK, Execute, calls, answers, Generations, None
<1>b. WorkIsClear'
  BY WorkOf, PTL
<1>c. PICK c \in Commands : Head(inbox[g]) = Order(c)
  BY <1>a, CommandRead DEF CommandMessages, Order, Execute
<1>. DEFINE e == ReportOf(c, "error")
<1>d. Has(inbox[g], Order(c))
  BY <1>a, <1>c, TailHas
<1>e. \A d \in Commands : Order(d) = Order(c) => d = c
  BY DEF Order
<1>1. \A h \in Generations, d \in Commands :
        Has(inbox[h], Order(d)) <=> Has(inbox'[h], Order(d)) \/ (h = g /\ Order(c) = Order(d))
  BY <1>a, <1>c, Taken
<1>2. /\ via[c] = g /\ via'[c] = g /\ active[g] # c /\ Work(c) = "ordered"
      /\ ReportsOf(c) = {} /\ ~Has(inbox'[g], Order(c))
  <2>1. via[c] = g /\ active[g] # c
    BY <1>c, <1>d DEF ServeInv, WorkInv, WorkedOnce, Once, Works
  <2>2. Work(c) = "ordered" /\ ReportsOf(c) = {}
    BY <1>a, <1>c, <1>d, <2>1 DEF WorkIsClear, Works
  <2>3. ~Has(inbox'[g], Order(c))
    <3>1. /\ Has(inbox'[g], Head(inbox[g])) => Twice(inbox[g], Head(inbox[g]))
      BY <1>a, <1>c, Taken
    <3>2. ~Twice(inbox[g], Order(c))
      BY <1>c DEF ServeInv, WorkInv, WorkedOnce, Once
    <3>. QED
      BY <1>c, <3>1, <3>2
  <2>. QED
    BY <1>a, <2>1, <2>2, <2>3
<1>3. \A d \in Commands : Told(d)' = Told(d)
  BY <1>a DEF Told
<1>4. CASE active[g] # NoCommand
  <2>1. Post(g, e) /\ UNCHANGED active
    BY <1>4, <1>c DEF Execute, Order, ReportOf
  <2>2. /\ e \in EventMessages /\ e = ReportOf(c, "error") /\ "error" \in Reports
        /\ \A d \in Commands, kind \in Reports : e = ReportOf(d, kind) => d = c
    BY <1>c DEF EventMessages, ReportOf, Reports
  <2>. HIDE DEF e
  <2>p. \A h \in Generations : \A m : Has(outbox'[h], m) <=> Has(outbox[h], m) \/ (h = g /\ e = m)
    <3>1. PipesTypeOK /\ e \in EventMessages
      BY <1>a, <2>2
    <3>. QED
      BY <2>1, <3>1, PostedExactly
  <2>3. ASSUME NEW d \in Commands, d # c PROVE Work(d)' = Work(d)
    <3>1. \A h \in Generations, kind \in Reports :
            Has(outbox'[h], ReportOf(d, kind)) <=> Has(outbox[h], ReportOf(d, kind))
      BY <2>2, <2>3, <2>p
    <3>2. via[d] # None => via[d] \in Generations
      BY <1>a
    <3>. QED
      BY <1>a, <1>1, <1>e, <2>1, <2>3, <3>1, <3>2, SameWork
  <2>4. Has(outbox'[g], ReportOf(c, "error"))
    BY <2>2, <2>p
  <2>5. Work(c)' = "error"
    <3>1. "error" \in ReportsOf(c)'
      BY <1>2, <2>2, <2>4 DEF ReportsOf, ReportOf
    <3>. QED
      BY <1>a, <1>b, <1>2, <1>c, <2>1, <3>1 DEF WorkIsClear, Works
  <2>6. Service!Finish(c)
    BY <1>2, <1>3, <1>c, <2>2, <2>3, <2>5, Moves DEF Service!Finish, Service!Reports
  <2>. QED
    BY <1>c, <2>6 DEF Service!Next
<1>5. CASE active[g] = NoCommand
  <2>1. active' = [active EXCEPT ![g] = c] /\ UNCHANGED outbox
    BY <1>5, <1>c DEF Execute, Order
  <2>2. ASSUME NEW d \in Commands, d # c PROVE Work(d)' = Work(d)
    <3>1. via[d] # None => via[d] \in Generations
      BY <1>a
    <3>2. \A h \in Generations : active'[h] = d <=> active[h] = d
      BY <1>a, <1>5, <2>1, <2>2, NoCommandIsIdle
    <3>. QED
      BY <1>a, <1>1, <1>e, <2>1, <2>2, <3>1, <3>2, SameWork
  <2>3. Work(c)' = "working"
    BY <1>a, <1>b, <1>2, <1>c, <2>1 DEF WorkIsClear
  <2>4. ASSUME NEW d \in Commands PROVE Work(d) # "working"
    <3>1. via[d] # None => active[via[d]] # d
      <4>1. CASE via[d] = g
        BY <1>5, <4>1, NoCommandIsIdle
      <4>2. CASE via[d] \in Generations /\ via[d] # g
        <5>1. Alive(g)
          BY DEF Execute, Alive
        <5>2. ~Alive(via[d])
          BY <4>2, <5>1 DEF ServeInv, WorkInv, AnswerInv, IInv, OnlyTheLastLives
        <5>. QED
          BY <4>2, <5>2, NoCommandIsIdle DEF ServeInv, WorkInv, DeadAreIdle
      <4>. QED
        BY <1>a, <4>1, <4>2
    <3>2. CASE via[d] = None
      BY <1>a, <3>2 DEF WorkIsClear
    <3>3. CASE via[d] # None
      <4>1. Work(d) \in {"ordered", "gone"} \cup ReportsOf(d)
        BY <1>a, <3>1, <3>3 DEF WorkIsClear, Works
      <4>. QED
        BY <4>1 DEF ReportsOf, Reports
    <3>. QED
      BY <3>2, <3>3
  <2>5. Service!Start(c)
    BY <1>2, <1>3, <1>c, <2>2, <2>3, <2>4, Moves DEF Service!Start
  <2>. QED
    BY <1>c, <2>5 DEF Service!Next
<1>. QED
  BY <1>4, <1>5

\* A worker reports what it worked on.
LEMMA ReportServes ==
  ASSUME ServeInv, ServeInv', NEW g \in Generations, Report(g)
  PROVE  Service!Next
<1>a. /\ WorkIsClear /\ PipesTypeOK /\ g # None
      /\ via \in [Commands -> {None} \cup Generations]
      /\ active \in [Generations -> Commands \cup {NoCommand}]
  <2>1. WorkIsClear
    BY WorkOf
  <2>. QED
    BY <2>1 DEF ServeInv, WorkInv, AnswerInv, IInv, TypeOK, PipesTypeOK, Generations, None
<1>d. /\ active[g] \in Commands /\ active' = [active EXCEPT ![g] = NoCommand]
      /\ UNCHANGED <<call, outcomes, via, inbox>>
  BY <1>a DEF Report, calls, answers
<1>b. WorkIsClear'
  BY WorkOf, PTL
<1>c. PICK c \in Commands : c = active[g]
  BY <1>a, <1>d
<1>1. PICK kind \in Reports : Post(g, ReportOf(c, kind))
  BY <1>c DEF Report, Reports, ReportOf
<1>2. /\ ReportOf(c, kind) \in EventMessages
      /\ \A d \in Commands, other \in Reports : ReportOf(c, kind) = ReportOf(d, other) => d = c
  BY <1>a, <1>d DEF EventMessages, ReportOf, Reports
<1>3. via[c] = g /\ ~Has(inbox[g], Order(c)) /\ Work(c) = "working"
  <2>1. via[c] = g
    BY <1>a, <1>d, <1>c DEF ServeInv, WorkInv, WorkedOnce, Once, Works
  <2>. QED
    BY <1>a, <1>d, <1>c, <2>1 DEF WorkIsClear
<1>4. \A d \in Commands : Told(d)' = Told(d)
  BY <1>a, <1>d DEF Told
<1>5. ASSUME NEW d \in Commands, d # c PROVE Work(d)' = Work(d)
  <2>1. \A h \in Generations, other \in Reports :
          Has(outbox'[h], ReportOf(d, other)) <=> Has(outbox[h], ReportOf(d, other))
    BY <1>a, <1>d, <1>1, <1>2, <1>5, PostedExactly
  <2>2. via[d] # None => via[d] \in Generations
    BY <1>a, <1>d
  <2>3. \A h \in Generations : active'[h] = d <=> active[h] = d
    BY <1>a, <1>d, <1>c, <1>5, NoCommandIsIdle
  <2>. QED
    BY <1>a, <1>d, <2>1, <2>2, <2>3, SameWork
<1>6. Work(c)' = kind
  <2>1. Has(outbox'[g], ReportOf(c, kind))
    BY <1>a, <1>d, <1>1, <1>2, PostedExactly
  <2>2. kind \in ReportsOf(c)'
    BY <1>a, <1>d, <1>3, <2>1 DEF ReportsOf, ReportOf
  <2>3. ~Works(g, c)'
    BY <1>a, <1>d, <1>3, NoCommandIsIdle DEF Works
  <2>. QED
    BY <1>a, <1>d, <1>b, <1>3, <2>2, <2>3 DEF WorkIsClear
<1>7. Service!Finish(c)
  BY <1>a, <1>d, <1>3, <1>4, <1>5, <1>6, Moves DEF Service!Finish, Service!Reports, Reports
<1>. QED
  BY <1>a, <1>d, <1>7 DEF Service!Next

\* Who has been sent a command has not been given nothing.
LEMMA SentIsSomething ==
  ASSUME ServeInv, NEW c \in Commands, via[c] # None PROVE Work(c) # "none"
<1>1. WorkIsClear
  BY WorkOf
<1>2. Work(c) \in {"ordered", "working", "gone"} \cup ReportsOf(c)
  BY <1>1 DEF WorkIsClear, Works
<1>. QED
  BY <1>2 DEF ReportsOf, Reports

\* The monitor moves a report from the pipe into the record.
LEMMA ReceiveServes ==
  ASSUME ServeInv, ServeInv', NEW g \in Generations, outbox[g] # <<>>, Consume(Head(outbox[g])),
         outbox' = [outbox EXCEPT ![g] = Tail(@)], UNCHANGED <<inbox, active, via, call>>,
         NEW d \in Commands
  PROVE  Work(d)' = Work(d) /\ Told(d)' = Told(d)
<1>a. /\ PipesTypeOK /\ g # None /\ WorkedOnce
      /\ via \in [Commands -> {None} \cup Generations]
      /\ outcomes \in [Commands -> Outcomes \cup {"none"}]
      /\ outbox[g] \in Seq(EventMessages)
  BY DEF ServeInv, WorkInv, AnswerInv, IInv, TypeOK, PipesTypeOK, Generations, None
<1>b. WorkIsClear
  BY WorkOf
<1>c. WorkIsClear'
  BY WorkOf, PTL
<1>d. Told(d)' = Told(d)
  BY DEF Told
<1>e. PICK e \in EventMessages : e = Head(outbox[g])
  BY <1>a, EventRead
<1>f. \A h \in Generations : \A m : Has(outbox[h], m) <=> Has(outbox'[h], m) \/ (h = g /\ m = e)
  BY <1>a, <1>e, HeardExactly
<1>g. via[d] # None => via[d] \in Generations
  BY <1>a
<1>1. ASSUME NEW kind \in Reports, e = ReportOf(d, kind) PROVE Work(d)' = Work(d)
  <2>1. outcomes'[d] = kind
    <3>1. e.kind = kind /\ e.command = d /\ e.kind \notin {"ready", "stopped"}
      BY <1>1 DEF ReportOf, Reports
    <3>2. outcomes' = [outcomes EXCEPT ![d] = kind]
      BY <1>e, <3>1 DEF Consume, Answer
    <3>. QED
      BY <1>a, <3>2
  <2>2. Has(outbox[g], ReportOf(d, kind)) /\ ReportOf(d, kind) \in Reply(d)
    BY <1>1, <1>f DEF ReportOf, Reply, Reports
  <2>3. via[d] = g /\ ~Works(g, d)
    BY <1>a, <2>2 DEF WorkedOnce, Once, Replied
  <2>4. ~Works(g, d)' /\ via'[d] = g
    BY <2>3 DEF Works
  <2>5. kind \in ReportsOf(d) /\ kind \in ReportsOf(d)'
    BY <1>1, <2>1, <2>2, <2>3 DEF ReportsOf, ReportOf
  <2>6. Work(d) = kind
    BY <1>a, <1>b, <2>3, <2>5 DEF WorkIsClear
  <2>7. Work(d)' = kind
    BY <1>a, <1>c, <2>4, <2>5 DEF WorkIsClear
  <2>. QED
    BY <2>6, <2>7
<1>2. ASSUME \A kind \in Reports : e # ReportOf(d, kind) PROVE Work(d)' = Work(d)
  <2>1. outcomes'[d] = outcomes[d]
    <3>1. CASE e.kind \in {"ready", "stopped"}
      BY <1>e, <3>1 DEF Consume, answers
    <3>2. CASE e.kind \notin {"ready", "stopped"}
      <4>1. e \in [kind : Reports, command : Commands]
        BY <3>2 DEF EventMessages, Reports
      <4>2. e.command # d
        BY <1>2, <4>1 DEF ReportOf
      <4>3. outcomes' = [outcomes EXCEPT ![e.command] = e.kind]
        BY <1>e, <3>2 DEF Consume, Answer
      <4>. QED
        BY <1>a, <4>2, <4>3
    <3>. QED
      BY <3>1, <3>2
  <2>2. \A h \in Generations, kind \in Reports :
          Has(outbox'[h], ReportOf(d, kind)) <=> Has(outbox[h], ReportOf(d, kind))
    BY <1>f, <1>2
  <2>. QED
    BY <1>g, <2>1, <2>2, SameWork
<1>. QED
  BY <1>d, <1>1, <1>2

\* What is written to a worker besides an order changes no work.
LEMMA SendServes ==
  ASSUME ServeInv, NEW g \in {None} \cup Generations, NEW m \in CommandMessages, TrySend(g, m),
         \A c \in Commands : m # Order(c), UNCHANGED <<outbox, active, via, outcomes>>,
         NEW d \in Commands, {call'[d]} \cap Reports = {call[d]} \cap Reports
  PROVE  Work(d)' = Work(d)
<1>1. PipesTypeOK /\ via \in [Commands -> {None} \cup Generations]
  BY DEF ServeInv, WorkInv, AnswerInv, IInv, TypeOK, PipesTypeOK
<1>2. \A h \in Generations : Has(inbox'[h], Order(d)) <=> Has(inbox[h], Order(d))
  <2>1. CASE UNCHANGED inbox
    BY <2>1
  <2>2. CASE g \in Generations /\ Send(g, m)
    BY <1>1, <2>2, Sent
  <2>. QED
    BY <2>1, <2>2 DEF TrySend, CanSend
<1>3. via[d] # None => via[d] \in Generations
  BY <1>1
<1>. QED
  BY <1>2, <1>3, SameWork

\* A request orders its command.
LEMMA RequestServes ==
  ASSUME ServeInv, ServeInv', NEW c \in Commands, Request(c)
  PROVE  Service!Next
<1>a. /\ PipesTypeOK /\ transport \in Generations /\ transport # None
      /\ via \in [Commands -> {None} \cup Generations] /\ via[c] = None
      /\ call \in [Commands -> {"new"} \cup Awaiting \cup Answers] /\ call[c] = "new"
      /\ Send(transport, Order(c)) /\ UNCHANGED <<outbox, active, outcomes>>
      /\ via' = [via EXCEPT ![c] = transport] /\ call' = [call EXCEPT ![c] = "waiting"]
  <2>1. /\ PipesTypeOK /\ transport \in {None} \cup Generations
        /\ via \in [Commands -> {None} \cup Generations]
        /\ call \in [Commands -> {"new"} \cup Awaiting \cup Answers]
        /\ call[c] = "new" => via[c] = None
    BY DEF ServeInv, WorkInv, AnswerInv, IInv, TypeOK, PipesTypeOK, WhoWaitsHasSent
  <2>2. /\ call[c] = "new" /\ transport # None /\ Send(transport, Order(c))
        /\ UNCHANGED <<outbox, active, outcomes>>
        /\ via' = [via EXCEPT ![c] = transport] /\ call' = [call EXCEPT ![c] = "waiting"]
    BY DEF Request, Admitted, CanSend, Order, workers
  <2>. QED
    BY <2>1, <2>2
<1>b. WorkIsClear'
  BY WorkOf, PTL
<1>c. Work(c) = "none" /\ Told(c) = "pending" /\ Told(c)' = "pending"
  BY <1>a DEF Work, Told, Awaiting
<1>1. Order(c) \in CommandMessages /\ \A d \in Commands : Order(c) = Order(d) => c = d
  BY DEF CommandMessages, Order
<1>2. \A h \in Generations, d \in Commands :
        Has(inbox'[h], Order(d)) <=> Has(inbox[h], Order(d)) \/ (h = transport /\ Order(c) = Order(d))
  <2>1. PipesTypeOK /\ Order(c) \in CommandMessages /\ Send(transport, Order(c)) /\ transport \in Generations
    BY <1>a, <1>1
  <2>. QED
    BY <2>1, Sent
<1>3. Work(c)' = "ordered"
  <2>1. Has(inbox'[transport], Order(c)) /\ via'[c] = transport
    BY <1>a, <1>2
  <2>. QED
    BY <1>a, <1>b, <2>1 DEF WorkIsClear
<1>4. ASSUME NEW d \in Commands, d # c PROVE Work(d)' = Work(d) /\ Told(d)' = Told(d)
  <2>1. via'[d] = via[d] /\ call'[d] = call[d] /\ (via[d] # None => via[d] \in Generations)
    BY <1>a, <1>4
  <2>2. Work(d)' = Work(d)
    BY <1>a, <1>1, <1>2, <1>4, <2>1, SameWork
  <2>. QED
    BY <2>1, <2>2 DEF Told
<1>5. Service!Order(c)
  BY <1>c, <1>3, <1>4, Moves DEF Service!Order
<1>. QED
  BY <1>5 DEF Service!Next

\* A caller that is told of a report is told the one that was made.
LEMMA CollectServes ==
  ASSUME ServeInv, NEW c \in Commands, Collect(c)
  PROVE  Service!Next
<1>a. /\ via[c] # None /\ call[c] = "waiting" /\ outcomes[c] \in Outcomes
      /\ outcomes[c] \in Final => ~Works(via[c], c) /\ ~Replied(via[c], c)
      /\ call \in [Commands -> {"new"} \cup Awaiting \cup Answers]
      /\ outcomes \in [Commands -> Outcomes \cup {"none"}]
      /\ via[c] \in {None} \cup Generations
  BY DEF ServeInv, WorkInv, AnswerInv, IInv, TypeOK, WhoWaitsHasSent, Awaiting, Collect, OverIsOver, Over,
         Generations, None
<1>b. /\ call' = [call EXCEPT ![c] = outcomes[c]] /\ outcomes' = [outcomes EXCEPT ![c] = "none"]
      /\ UNCHANGED <<inbox, active, outbox, via>>
  BY DEF Collect, wires, workers
<1>c. WorkIsClear
  BY WorkOf
<1>1. ASSUME NEW d \in Commands PROVE Work(d)' = Work(d)
  <2>1. {outcomes'[d], call'[d]} \cap Reports = {outcomes[d], call[d]} \cap Reports
    BY <1>a, <1>b DEF Reports
  <2>. QED
    BY <1>b, <2>1, SameWork
<1>2. \A d \in Commands : d # c => Told(d)' = Told(d)
  BY <1>a, <1>b DEF Told
<1>3. Told(c) = "pending" /\ Told(c)' = outcomes[c]
  BY <1>a, <1>b DEF Told, Awaiting, Outcomes
<1>4. Work(c) # "none"
  BY <1>a, SentIsSomething
<1>5. outcomes[c] \in Reports => Work(c) = outcomes[c]
  BY <1>a, <1>c DEF WorkIsClear, ReportsOf, Final
<1>6. outcomes[c] = "crashed" => Work(c) = "gone"
  <2>. SUFFICES ASSUME outcomes[c] = "crashed" PROVE Work(c) = "gone"
    OBVIOUS
  <2>1. ~Works(via[c], c) /\ ~Replied(via[c], c)
    BY <1>a DEF Final
  <2>2. ReportsOf(c) = {}
    BY <1>a, <2>1 DEF ReportsOf, Reports, Replied, Reply
  <2>. QED
    BY <1>a, <1>c, <2>1, <2>2 DEF WorkIsClear
<1>7. Service!Tell(c)
  <2>1. outcomes[c] \in Service!Reports \cup Service!Breaches
    BY <1>a DEF Outcomes, Service!Reports, Service!Breaches
  <2>2. Service!Reports = Reports
    BY DEF Service!Reports, Reports
  <2>. QED
    BY <1>1, <1>2, <1>3, <1>4, <1>5, <1>6, <2>1, <2>2, Moves DEF Service!Tell
<1>. QED
  BY <1>7 DEF Service!Next

\* A caller that gives up is told of a timeout, and a late report is dropped.
LEMMA GiveUpServes ==
  ASSUME ServeInv, ServeInv', NEW c \in Commands, GiveUp(c)
  PROVE  Service!Next
<1>a. /\ via[c] # None /\ call[c] = "grace"
      /\ outcomes[c] \in Final => ~Works(via[c], c) /\ ~Replied(via[c], c)
      /\ call \in [Commands -> {"new"} \cup Awaiting \cup Answers]
      /\ outcomes \in [Commands -> Outcomes \cup {"none"}]
      /\ via[c] \in {None} \cup Generations
  BY DEF ServeInv, WorkInv, AnswerInv, IInv, TypeOK, WhoWaitsHasSent, Awaiting, GiveUp, OverIsOver, Over,
         Generations, None
<1>b. /\ call' = [call EXCEPT ![c] = "timeout"] /\ outcomes' = [outcomes EXCEPT ![c] = "none"]
      /\ UNCHANGED <<inbox, active, outbox, via>>
  BY DEF GiveUp, wires, workers
<1>c. WorkIsClear
  BY WorkOf
<1>d. WorkIsClear'
  BY WorkOf, PTL
<1>1. ASSUME NEW d \in Commands, d # c \/ outcomes[d] \notin Reports PROVE Work(d)' = Work(d)
  <2>1. {outcomes'[d], call'[d]} \cap Reports = {outcomes[d], call[d]} \cap Reports
    BY <1>a, <1>b, <1>1 DEF Reports
  <2>. QED
    BY <1>b, <2>1, SameWork
<1>2. \A d \in Commands : d # c => Told(d)' = Told(d)
  BY <1>a, <1>b DEF Told
<1>3. Told(c) = "pending" /\ Told(c)' = "timeout"
  BY <1>a, <1>b DEF Told, Awaiting
<1>4. Work(c) # "none"
  BY <1>a, SentIsSomething
<1>5. CASE outcomes[c] \in Reports
  <2>1. Work(c) = outcomes[c]
    BY <1>5, <1>a, <1>c DEF WorkIsClear, ReportsOf, Final
  <2>2. ~Works(via[c], c)' /\ ReportsOf(c)' = {} /\ via'[c] = via[c]
    BY <1>5, <1>a, <1>b DEF Works, ReportsOf, Reports, Replied, Reply, Final
  <2>3. Work(c)' = "gone"
    BY <1>a, <1>d, <2>2 DEF WorkIsClear, Works
  <2>4. Service!TellLate(c)
    BY <1>1, <1>2, <1>3, <1>5, <2>1, <2>3, Moves DEF Service!TellLate, Service!Reports, Reports
  <2>. QED
    BY <2>4 DEF Service!Next
<1>6. CASE outcomes[c] \notin Reports
  <2>1. Service!Tell(c)
    BY <1>1, <1>2, <1>3, <1>4, <1>6, Moves DEF Service!Tell, Service!Reports, Service!Breaches
  <2>. QED
    BY <2>1 DEF Service!Next
<1>. QED
  BY <1>5, <1>6

\* Nothing has been sent of a request that is refused.
LEMMA RefusalServes ==
  ASSUME ServeInv, NEW c \in Commands, Refuse(c) \/ RequestUnsent(c)
  PROVE  Service!Next
<1>a. /\ via[c] = None /\ call[c] = "new" /\ UNCHANGED <<inbox, active, outbox, via, outcomes>>
      /\ call \in [Commands -> {"new"} \cup Awaiting \cup Answers]
  <2>1. call[c] = "new" /\ UNCHANGED <<inbox, active, outbox, via, outcomes>>
    BY DEF Refuse, RequestUnsent, Admitted, wires, workers, calls, answers
  <2>. QED
    BY <2>1 DEF ServeInv, WorkInv, AnswerInv, IInv, TypeOK, WhoWaitsHasSent
<1>1. PICK answer \in Service!Refusals : call' = [call EXCEPT ![c] = answer]
  BY DEF Refuse, RequestUnsent, Service!Refusals
<1>2. answer \in {"unavailable", "circuit", "busy", "unsent"}
  BY DEF Service!Refusals
<1>3. ASSUME NEW d \in Commands PROVE Work(d)' = Work(d)
  <2>1. {outcomes'[d], call'[d]} \cap Reports = {outcomes[d], call[d]} \cap Reports
    BY <1>a, <1>1, <1>2 DEF Reports
  <2>. QED
    BY <1>a, <2>1, SameWork
<1>4. \A d \in Commands : d # c => Told(d)' = Told(d)
  BY <1>a, <1>1 DEF Told
<1>5. Told(c) = "pending" /\ Told(c)' = answer /\ Work(c) = "none"
  BY <1>a, <1>1, <1>2 DEF Told, Awaiting, Work
<1>6. Service!Refuse(c)
  BY <1>3, <1>4, <1>5, Moves DEF Service!Refuse
<1>. QED
  BY <1>6 DEF Service!Next

LEMMA ServiceInit == ASSUME Init PROVE Service!Init
<1>1. \A c \in Commands : Work(c) = "none" /\ Told(c) = "pending"
  BY DEF Init, Work, Told
<1>. QED
  BY <1>1 DEF Service!Init

\* Each step of the supervisor, of a worker or of a caller is a step of the
\* service, or none.
LEMMA ServiceStep ==
  ASSUME ServeInv, ServeInv', [Next]_vars PROVE [Service!Next]_(Service!vars)
<1>. DEFINE Goal == [Service!Next]_(Service!vars)
<1>. SUFFICES Goal
  OBVIOUS
<1>a. /\ PipesTypeOK /\ IInv /\ AnswerInv /\ PastIsSilent
      /\ call \in [Commands -> {"new"} \cup Awaiting \cup Answers]
      /\ outcomes \in [Commands -> Outcomes \cup {"none"}]
      /\ outbox \in [Generations -> Seq(EventMessages)]
      /\ via \in [Commands -> {None} \cup Generations]
      /\ transport \in {None} \cup Generations
      /\ stopping \in {None} \cup Generations
      /\ monitor \in {"boot", "poll", "terminate"} => handled \in Generations
  BY DEF ServeInv, WorkInv, AnswerInv, IInv, TypeOK, PipesTypeOK, MonitorKnowsTransport, Generations, None
<1>n. Service!Next => Goal
  OBVIOUS
<1>s. ASSUME \A d \in Commands : Work(d)' = Work(d) /\ Told(d)' = Told(d)
      PROVE  Goal
  BY <1>s DEF Service!vars
<1>. HIDE DEF Goal
<1>u. ASSUME UNCHANGED <<inbox, active, outbox, via, call>>,
             \A d \in Commands : {outcomes'[d]} \cap Reports = {outcomes[d]} \cap Reports
      PROVE  Goal
  <2>1. ASSUME NEW d \in Commands PROVE Work(d)' = Work(d) /\ Told(d)' = Told(d)
    <3>1. {outcomes'[d], call'[d]} \cap Reports = {outcomes[d], call[d]} \cap Reports
      BY <1>u
    <3>. QED
      BY <1>u, <3>1, SameWork DEF Told
  <2>. QED
    BY <1>s, <2>1
<1>c. \A c, d \in Commands : /\ [kind |-> "cancel", command |-> c] \in CommandMessages
                             /\ [kind |-> "cancel", command |-> c] # Order(d)
  BY DEF CommandMessages, Order
<1>d. [kind |-> "shutdown"] \in CommandMessages /\ \A d \in Commands : [kind |-> "shutdown"] # Order(d)
  BY DEF CommandMessages, Order
<1>t. ASSUME NEW g \in Generations, Terminate(g), UNCHANGED <<call, outcomes, via>> PROVE Goal
  <2>1. \A h \in Generations : outbox'[h] = IF h = g THEN <<>> ELSE outbox[h]
    BY <1>a, <1>t DEF Terminate
  <2>2. Die(g)
    BY <1>t DEF Terminate
  <2>. QED
    BY <1>n, <1>t, <2>1, <2>2, DeathLoses, EmptyHasNothing
<1>r. ASSUME NEW g \in Generations, outbox[g] # <<>>, Consume(Head(outbox[g])),
             outbox' = [outbox EXCEPT ![g] = Tail(@)], UNCHANGED <<inbox, active, via, call>>
      PROVE  Goal
  BY <1>r, <1>s, ReceiveServes
<1>. USE DEF flags, answers, wires, workers, watch, calls, stops, vars
<1>1. ASSUME NEW g \in Generations, Boot(g) PROVE Goal
  <2>1. Post(g, [kind |-> "ready"]) /\ [kind |-> "ready"] \in EventMessages
    BY <1>1 DEF Boot, EventMessages
  <2>2. \A d \in Commands, kind \in Reports : [kind |-> "ready"] # ReportOf(d, kind)
    BY DEF ReportOf, Reports
  <2>3. \A h \in Generations, d \in Commands, kind \in Reports :
          Has(outbox'[h], ReportOf(d, kind)) <=> Has(outbox[h], ReportOf(d, kind))
    BY <1>a, <2>1, <2>2, PostedExactly
  <2>4. UNCHANGED <<inbox, active, via, call, outcomes>>
    BY <1>1 DEF Boot
  <2>5. \A d \in Commands : Work(d)' = Work(d)
    BY <1>a, <2>3, <2>4, SameWork
  <2>. QED
    BY <1>s, <2>4, <2>5 DEF Told
<1>2. ASSUME NEW g \in Generations, Execute(g) PROVE Goal
  BY <1>2, <1>n, ExecuteServes
<1>3. ASSUME NEW g \in Generations, ObserveCancel(g) PROVE Goal
  <2>1. /\ inbox[g] # <<>> /\ inbox' = [inbox EXCEPT ![g] = Tail(@)] /\ Head(inbox[g]).kind = "cancel"
        /\ UNCHANGED <<outbox, active, via, call, outcomes>>
    BY <1>3 DEF ObserveCancel
  <2>2. \A d \in Commands : Head(inbox[g]) # Order(d)
    BY <2>1 DEF Order
  <2>3. \A h \in Generations, d \in Commands : Has(inbox'[h], Order(d)) <=> Has(inbox[h], Order(d))
    BY <1>a, <2>1, <2>2, Taken
  <2>4. \A d \in Commands : Work(d)' = Work(d)
    BY <1>a, <2>1, <2>3, SameWork
  <2>. QED
    BY <1>s, <2>1, <2>4 DEF Told
<1>4. ASSUME NEW g \in Generations, Shutdown(g) PROVE Goal
  <2>1. /\ Die(g) /\ Post(g, [kind |-> "stopped"]) /\ [kind |-> "stopped"] \in EventMessages
        /\ UNCHANGED <<via, call, outcomes>>
    BY <1>4 DEF Shutdown, EventMessages
  <2>2. \A d \in Commands, kind \in Reports : [kind |-> "stopped"] # ReportOf(d, kind)
    BY DEF ReportOf, Reports
  <2>3. \A h \in Generations, d \in Commands, kind \in Reports :
          Has(outbox'[h], ReportOf(d, kind)) <=> Has(outbox[h], ReportOf(d, kind))
    BY <1>a, <2>1, <2>2, PostedExactly
  <2>. QED
    BY <1>n, <2>1, <2>3, DeathLoses
<1>5. ASSUME NEW g \in Generations, Report(g) PROVE Goal
  BY <1>5, <1>n, ReportServes
<1>6. ASSUME NEW g \in Generations, Crash(g) PROVE Goal
  <2>1. Die(g) /\ UNCHANGED <<outbox, via, call, outcomes>>
    BY <1>6 DEF Crash
  <2>. QED
    BY <1>n, <2>1, DeathLoses
<1>7. CASE SpawnReady
  BY <1>7, <1>a, <1>r DEF SpawnReady, Receive
<1>8. CASE MonitorReceive
  BY <1>8, <1>a, <1>r DEF MonitorReceive, Receive
<1>9. CASE SpawnFails
  BY <1>9, <1>a, <1>t DEF SpawnFails
<1>10. CASE RecoverTerminate
  BY <1>10, <1>a, <1>t DEF RecoverTerminate
<1>11. ASSUME NEW outcome \in {"crashed", "stopped"}, FailPending(outcome),
              UNCHANGED <<inbox, active, outbox, via, call>>
       PROVE  Goal
  <2>1. ASSUME NEW d \in Commands PROVE {outcomes'[d]} \cap Reports = {outcomes[d]} \cap Reports
    <3>1. CASE d \in pending
      BY <1>11, <1>a, <3>1 DEF FailPending, AnswerInv, PendingHasNoOutcome, Reports
    <3>2. CASE d \notin pending
      BY <1>11, <1>a, <3>2 DEF FailPending
    <3>. QED
      BY <3>1, <3>2
  <2>. QED
    BY <1>11, <1>u, <2>1
<1>12. CASE RecoverSettle
  BY <1>12, <1>11 DEF RecoverSettle
<1>13. CASE SpawnProcess \/ SpawnRefused \/ Register \/ SpawnAbandoned
  BY <1>13, <1>u DEF SpawnProcess, SpawnRefused, Register, SpawnAbandoned
<1>14. CASE MonitorTop \/ MonitorQuiet \/ MonitorCheck \/ RecoverBegin
  BY <1>14, <1>u DEF MonitorTop, MonitorQuiet, MonitorCheck, RecoverBegin
<1>15. ASSUME NEW c \in Commands, Refuse(c) \/ RequestUnsent(c) PROVE Goal
  BY <1>15, <1>n, RefusalServes
<1>16. ASSUME NEW c \in Commands, Request(c) PROVE Goal
  BY <1>16, <1>n, RequestServes
<1>17. ASSUME NEW c \in Commands, Collect(c) PROVE Goal
  BY <1>17, <1>n, CollectServes
<1>18. ASSUME NEW c \in Commands, GiveUp(c) PROVE Goal
  BY <1>18, <1>n, GiveUpServes
<1>19. ASSUME NEW c \in Commands, Deadline(c) PROVE Goal
  <2>1. /\ TrySend(via[c], [kind |-> "cancel", command |-> c]) /\ call[c] = "waiting"
        /\ call' = [call EXCEPT ![c] = "grace"] /\ UNCHANGED <<outbox, active, via, outcomes>>
    BY <1>19 DEF Deadline
  <2>2. \A d \in Commands : {call'[d]} \cap Reports = {call[d]} \cap Reports /\ Told(d)' = Told(d)
    BY <1>a, <2>1 DEF Reports, Told, Awaiting
  <2>3. \A d \in Commands : Work(d)' = Work(d)
    BY <1>a, <1>c, <2>1, <2>2, SendServes
  <2>. QED
    BY <1>s, <2>2, <2>3
<1>20. ASSUME NEW c \in Commands, Cancel(c) PROVE Goal
  <2>1. /\ TrySend(transport, [kind |-> "cancel", command |-> c])
        /\ UNCHANGED <<outbox, active, via, outcomes, call>>
    BY <1>20 DEF Cancel
  <2>. DEFINE m == [kind |-> "cancel", command |-> c]
  <2>2. /\ m \in CommandMessages /\ \A d \in Commands : m # Order(d)
        /\ transport \in {None} \cup Generations
    BY <1>a, <1>c
  <2>. HIDE DEF m
  <2>3. \A d \in Commands : Work(d)' = Work(d)
    BY <2>1, <2>2, SendServes DEF m
  <2>. QED
    BY <1>s, <2>1, <2>3 DEF Told
<1>21. CASE StopBegin
  <2>1. /\ TrySend(transport, [kind |-> "shutdown"])
        /\ UNCHANGED <<outbox, active, via, outcomes, call>>
    BY <1>21 DEF StopBegin
  <2>2. \A d \in Commands : Work(d)' = Work(d)
    BY <1>a, <1>d, <2>1, SendServes
  <2>. QED
    BY <1>s, <2>1, <2>2 DEF Told
<1>22. CASE StopTerminate
  <2>1. CASE stopping = None
    BY <1>22, <1>u, <2>1 DEF StopTerminate
  <2>2. CASE stopping # None
    BY <1>22, <1>a, <1>t, <2>2 DEF StopTerminate
  <2>. QED
    BY <2>1, <2>2
<1>23. CASE StopReturn
  BY <1>23, <1>11 DEF StopReturn
<1>24. CASE UNCHANGED vars
  BY <1>24, <1>u
<1>. QED
  BY <1>1, <1>2, <1>3, <1>4, <1>5, <1>6, <1>7, <1>8, <1>9, <1>10, <1>12, <1>13, <1>14, <1>15,
     <1>16, <1>17, <1>18, <1>19, <1>20, <1>21, <1>22, <1>23, <1>24
  DEF Next, WorkerStep, MonitorStep, RequestStep, StopStep

\* However workers crash, hang, are stopped and are replaced, a command is
\* worked on once at most and no two at a time; a report that is returned was
\* made; and of what was refused or has crashed nothing goes on.
THEOREM SupervisorImplementsService == Spec => CommandsAreHonoured
<1>1. Init => ServeInv /\ Service!Init
  BY AnswerInvInit, WorkInvInit, ServeInvInit, ServiceInit
<1>2. ServeInv /\ [Next]_vars => ServeInv'
  BY ServeInvStep
<1>3. ServeInv /\ ServeInv' /\ [Next]_vars => [Service!Next]_(Service!vars)
  BY ServiceStep
<1>. QED
  BY <1>1, <1>2, <1>3, PTL DEF Spec, CommandsAreHonoured, Service!Spec

===============================================================================
