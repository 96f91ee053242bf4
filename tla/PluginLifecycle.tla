---------------------------- MODULE PluginLifecycle ----------------------------
(***************************************************************************)
(* The plugin runtime manager (src/comfyng/plugins/lifecycle.py) over its  *)
(* supervised workers (plugins/worker.py): concurrent calls of load(),     *)
(* execute() and unload(), whose awaits are the locks of records, manager  *)
(* and groups and the requests to the workers.                             *)
(*                                                                         *)
(* A worker's identifier is a function of its group's name, so a new       *)
(* worker of a group is addressed as the old one was; the group objects    *)
(* are distinct, and a call may still hold one that is no longer listed.   *)
(* A lock is the queue of its holder and those waiting.  The event loop    *)
(* resumes coroutines in the order in which they became ready; an answer   *)
(* of a worker, a new call or a crash comes when none is, which loses no   *)
(* order of effects.                                                       *)
(***************************************************************************)
EXTENDS Naturals, Sequences, FiniteSets, TLC

CONSTANTS
  Plugins,        \* the registered packages
  Groups,         \* names of isolation groups
  GroupOf,        \* the group each plugin was registered in
  Permissions,    \* what each plugin was granted
  Policy,         \* its unload policy
  Uses,           \* bound: the calls clients make for each plugin
  Calls,          \* coroutines that call the manager
  Objects,        \* bound: group objects in use at a time
  Faulty,         \* plugins whose own code may raise
  Crashing,       \* groups whose worker may die
  Manager,        \* the manager's lock
  None

ASSUME PluginAssumption ==
  /\ GroupOf \in [Plugins -> Groups]
  /\ Policy \in [Plugins -> {"after_execution", "after_idle", "on_memory_pressure", "persistent"}]
  /\ Faulty \subseteq Plugins /\ Crashing \subseteq Groups
  /\ Plugins \cap Objects = {} /\ {Manager, None} \cap (Plugins \cup Objects) = {}
  /\ Manager # None

VARIABLES
  state,       \* lifecycle state of each record
  assigned,    \* records with a worker_id
  groups,      \* the object listed for each group, or None
  heap,        \* packages and permissions of each group object
  lock,        \* per record, manager and group object: holder, then waiters
  call,        \* where each coroutine stands
  worker,      \* the supervisor's status of each group's worker
  loaded,      \* packages loaded in it
  served,      \* calls whose request is with a live worker
  ready        \* coroutines the event loop has to resume, in order

record == <<state, assigned>>
process == <<worker, loaded, served>>
vars == <<state, assigned, groups, heap, lock, call, worker, loaded, served, ready>>

Settled == {"DISCOVERED", "READY", "IDLE", "UNLOADED", "FAILED"}
Usable == {"READY", "IDLE"}
Unloaded == {"DISCOVERED", "UNLOADED", "FAILED"}
Locks == Plugins \cup Objects \cup {Manager}
Empty == [packages |-> {}, permissions |-> None]

(***************************************************************************)
(* A call: `at` is the await it is in, `why` what it stops a worker for,   *)
(* `sends` whether the record had a worker when its unloading began.       *)
(***************************************************************************)
Idle == [at |-> "idle", op |-> None, plugin |-> None, group |-> None, why |-> None, sends |-> FALSE]

Init ==
  /\ state = [p \in Plugins |-> "DISCOVERED"]
  /\ assigned = {}
  /\ groups = [g \in Groups |-> None]
  /\ heap = [o \in Objects |-> Empty]
  /\ lock = [x \in Locks |-> <<>>]
  /\ call = [c \in Calls |-> Idle]
  /\ worker = [g \in Groups |-> "absent"]
  /\ loaded = [g \in Groups |-> {}]
  /\ served = {}
  /\ ready = <<>>

-----------------------------------------------------------------------------
(* Locks and control.                                                      *)

Subject(c) == call[c].plugin
Name(c) == GroupOf[Subject(c)]
At(c, where) == call[c].at = where
Resumed(c) == ready # <<>> /\ Head(ready) = c

(* Release `left`, at most two locks in that order, and acquire `joined`: a  *)
(* free lock does not suspend, one with waiters goes to the first of them.   *)
Others(c) == IF Resumed(c) THEN Tail(ready) ELSE ready
Relock(c, left, joined) ==
  LET freed == {left[i] : i \in DOMAIN left}
      rest == [x \in Locks |-> IF x \in freed THEN Tail(lock[x]) ELSE lock[x]]
      Woken(i) == IF i \in DOMAIN left /\ rest[left[i]] # <<>> THEN <<Head(rest[left[i]])>> ELSE <<>>
      goesOn == IF \E x \in joined : rest[x] = <<>> THEN <<c>> ELSE <<>>
  IN
  /\ lock' = [x \in Locks |-> IF x \in joined THEN Append(rest[x], c) ELSE rest[x]]
  /\ ready' = goesOn \o Others(c) \o Woken(1) \o Woken(2)
KeepLocks(c) == lock' = lock /\ ready' = Others(c)

Goto(c, where) == call' = [call EXCEPT ![c].at = where]
End(c) == call' = [call EXCEPT ![c] = Idle]
Enter(c, where, op, p) == call' = [call EXCEPT ![c] = [Idle EXCEPT !.at = where, !.op = op, !.plugin = p]]

(* transition(FAILED) in an exception handler: from FAILED itself it raises, *)
(* and the rest of the handler is skipped.                                   *)
MarkFailed(p) == state' = [state EXCEPT ![p] = "FAILED"]
Step(p, from, to) == state' = [state EXCEPT ![p] = IF @ = from THEN to ELSE @]

(* Objects nobody refers to are gone.                                      *)
InUse == {groups[g] : g \in Groups} \cup {call[c].group : c \in Calls}
Keep(contents) == heap' = [o \in Objects |-> IF o \in InUse' THEN contents[o] ELSE Empty]

-----------------------------------------------------------------------------
(* Requests to the worker of a group, through the supervisor.              *)

Requests(g) == {c \in served : Name(c) = g}

Send(c, where) ==
  /\ served' = IF worker[Name(c)] \in {"starting", "running"} /\ Requests(Name(c)) = {}
                 THEN served \cup {c} ELSE served
  /\ Goto(c, where)
  /\ KeepLocks(c)
  /\ UNCHANGED <<record, groups, heap, worker, loaded>>

(* A worker being stopped may still answer what it was sent before.        *)
Answered(c) == c \in served /\ worker[Name(c)] \in {"running", "stopping"}
Refused(c) == c \notin served \/ Subject(c) \in Faulty
Forget(c) == served' = served \ {c}

(* The process dies; the supervisor starts another under the same name.   *)
Crash(g) ==
  /\ ready = <<>> /\ g \in Crashing /\ worker[g] = "running" /\ (loaded[g] # {} \/ Requests(g) # {})
  /\ loaded' = [loaded EXCEPT ![g] = {}]
  /\ served' = served \ Requests(g)
  /\ UNCHANGED <<record, groups, heap, lock, call, worker, ready>>

-----------------------------------------------------------------------------
(* Calls from outside: preloading is a load(), a sweep or a relief of      *)
(* memory pressure an unload() of what its policy and state select.        *)

Begin(c, p, op, where) ==
  /\ At(c, "idle") /\ ready = <<>>
  /\ Enter(c, where, op, p)
  /\ Relock(c, <<>>, {p})
  /\ UNCHANGED <<record, groups, heap, process>>

Load(c, p) == "load" \in Uses[p] /\ Begin(c, p, "load", "load")
Execute(c, p) == "execute" \in Uses[p] /\ Begin(c, p, "execute", "load")
Unload(c, p) == "unload" \in Uses[p] /\ state[p] # "BUSY" /\ Begin(c, p, "unload", "unload")
SweepIdle(c, p) == Policy[p] = "after_idle" /\ state[p] = "IDLE" /\ Begin(c, p, "unload", "unload")
RelievePressure(c, p) ==
  Policy[p] = "on_memory_pressure" /\ state[p] \in Usable /\ Begin(c, p, "unload", "unload")

-----------------------------------------------------------------------------
(* load()                                                                  *)

LoadReturns(c, left) ==
  IF call[c].op = "execute"
    THEN /\ Goto(c, "execute")
         /\ Relock(c, left, {Subject(c)})
    ELSE /\ End(c)
         /\ Relock(c, left, {})

AlreadyLoaded(c) ==
  /\ At(c, "load") /\ Resumed(c)
  /\ state[Subject(c)] \in Usable \cup {"BUSY"}
  /\ LoadReturns(c, <<Subject(c)>>)
  /\ UNCHANGED <<record, groups, heap, process>>

BeginLoad(c) ==
  /\ At(c, "load") /\ Resumed(c)
  /\ state[Subject(c)] \in Unloaded
  /\ state' = [state EXCEPT ![Subject(c)] = "PRELOADING"]
  /\ Goto(c, "acquire")
  /\ Relock(c, <<>>, {Manager})
  /\ UNCHANGED <<assigned, groups, heap, process>>

Joins(c, o) ==
  /\ call' = [call EXCEPT ![c].at = "load_lock", ![c].group = o]
  /\ Relock(c, <<Manager>>, {o})

\* Mutant: a listed group is joined whatever its permissions.
FindAnyGroup(c) ==
  /\ At(c, "acquire") /\ Resumed(c)
  /\ groups[Name(c)] # None
  /\ Joins(c, groups[Name(c)])
  /\ UNCHANGED <<record, groups, heap, process>>

FindGroup(c) ==
  /\ At(c, "acquire") /\ Resumed(c)
  /\ groups[Name(c)] # None
  /\ heap[groups[Name(c)]].permissions = Permissions[Subject(c)]
  /\ Joins(c, groups[Name(c)])
  /\ UNCHANGED <<record, groups, heap, process>>

FailAcquire(c) ==
  /\ MarkFailed(Subject(c))
  /\ End(c)
  /\ Relock(c, <<Manager, Subject(c)>>, {})
  /\ UNCHANGED <<assigned, groups, heap>>

PermissionMismatch(c) ==
  /\ At(c, "acquire") /\ Resumed(c)
  /\ groups[Name(c)] # None
  /\ heap[groups[Name(c)]].permissions # Permissions[Subject(c)]
  /\ FailAcquire(c)
  /\ UNCHANGED process

StartGroup(c) ==
  /\ At(c, "acquire") /\ Resumed(c)
  /\ groups[Name(c)] = None
  /\ worker[Name(c)] \in {"absent", "stopped"}
  /\ worker' = [worker EXCEPT ![Name(c)] = "starting"]
  /\ Goto(c, "starting")
  /\ KeepLocks(c)
  /\ UNCHANGED <<record, groups, heap, loaded, served>>

(* The supervisor still has a worker of that name.                         *)
StartRefused(c) ==
  /\ At(c, "acquire") /\ Resumed(c)
  /\ groups[Name(c)] = None
  /\ worker[Name(c)] \notin {"absent", "stopped"}
  /\ FailAcquire(c)
  /\ UNCHANGED process

Fresh == CHOOSE o \in Objects : o \notin InUse

GroupStarted(c) ==
  /\ At(c, "starting")
  /\ worker[Name(c)] = "starting" /\ Objects \ InUse # {}
  /\ worker' = [worker EXCEPT ![Name(c)] = "running"]
  /\ loaded' = [loaded EXCEPT ![Name(c)] = {}]
  /\ heap' = [heap EXCEPT ![Fresh] = [packages |-> {}, permissions |-> Permissions[Subject(c)]]]
  /\ groups' = [groups EXCEPT ![Name(c)] = Fresh]
  /\ Joins(c, Fresh)
  /\ UNCHANGED <<record, served>>

GroupNotStarted(c) ==
  /\ At(c, "starting")
  /\ Subject(c) \in Faulty \/ worker[Name(c)] # "starting"
  /\ worker' = [worker EXCEPT ![Name(c)] = "absent"]
  /\ served' = served \ Requests(Name(c))
  /\ FailAcquire(c)
  /\ UNCHANGED loaded

SendLoad(c) == At(c, "load_lock") /\ Resumed(c) /\ Send(c, "loading")

LoadDone(c) ==
  LET p == Subject(c)  o == call[c].group IN
  /\ At(c, "loading") /\ Answered(c)
  /\ loaded' = [loaded EXCEPT ![Name(c)] = @ \cup {p}]
  /\ assigned' = assigned \cup {p}
  /\ Step(p, "PRELOADING", "READY")
  /\ Forget(c)
  /\ IF state[p] = "PRELOADING"
       THEN LoadReturns(c, <<o, p>>)
       ELSE End(c) /\ Relock(c, <<o, p>>, {})
  /\ UNCHANGED <<groups, worker>>
  /\ Keep([heap EXCEPT ![o].packages = @ \cup {p}])

\* Mutant: a failed load keeps the group's lock.
LoadFailedLocked(c) ==
  /\ At(c, "loading") /\ Refused(c)
  /\ MarkFailed(Subject(c))
  /\ Forget(c)
  /\ End(c)
  /\ Relock(c, <<Subject(c)>>, {})
  /\ UNCHANGED <<assigned, groups, worker, loaded>>
  /\ Keep(heap)

LoadFailed(c) ==
  LET p == Subject(c)  o == call[c].group IN
  /\ At(c, "loading") /\ Refused(c)
  /\ MarkFailed(p)
  /\ Forget(c)
  /\ IF state[p] = "PRELOADING" /\ heap[o].packages = {}
       THEN /\ call' = [call EXCEPT ![c].at = "stop", ![c].why = "load"]
            /\ Relock(c, <<o>>, {})
       ELSE End(c) /\ Relock(c, <<o, p>>, {})
  /\ UNCHANGED <<assigned, groups, worker, loaded>>
  /\ Keep(heap)

-----------------------------------------------------------------------------
(* execute()                                                               *)

ExecuteRefused(c) ==
  /\ At(c, "execute") /\ Resumed(c)
  /\ state[Subject(c)] \notin Usable \/ Subject(c) \notin assigned \/ groups[Name(c)] = None
  /\ End(c)
  /\ Relock(c, <<Subject(c)>>, {})
  /\ UNCHANGED <<record, groups, heap, process>>

BeginExecute(c) ==
  /\ At(c, "execute") /\ Resumed(c)
  /\ state[Subject(c)] \in Usable /\ Subject(c) \in assigned /\ groups[Name(c)] # None
  /\ state' = [state EXCEPT ![Subject(c)] = "BUSY"]
  /\ call' = [call EXCEPT ![c].at = "execute_lock", ![c].group = groups[Name(c)]]
  /\ Relock(c, <<>>, {groups[Name(c)]})
  /\ UNCHANGED <<assigned, groups, heap, process>>

SendExecute(c) == At(c, "execute_lock") /\ Resumed(c) /\ Send(c, "executing")

ExecuteDone(c) ==
  LET p == Subject(c) IN
  /\ At(c, "executing") /\ Answered(c) /\ p \in loaded[Name(c)]
  /\ Step(p, "BUSY", "IDLE")
  /\ Forget(c)
  /\ IF state[p] = "BUSY" /\ Policy[p] = "after_execution"
       THEN /\ Enter(c, "unload", "unload", p)
            /\ Relock(c, <<call[c].group, p>>, {p})
       ELSE End(c) /\ Relock(c, <<call[c].group, p>>, {})
  /\ UNCHANGED <<assigned, groups, worker, loaded>>
  /\ Keep(heap)

ExecuteFailed(c) ==
  LET p == Subject(c)  listed == groups[Name(c)] IN
  /\ At(c, "executing")
  /\ Refused(c) \/ (Answered(c) /\ p \notin loaded[Name(c)])
  /\ MarkFailed(p)
  /\ Forget(c)
  /\ IF state[p] = "BUSY" /\ listed # None
       THEN /\ groups' = [groups EXCEPT ![Name(c)] = None]
            /\ call' = [call EXCEPT ![c].at = "stop", ![c].why = "fail", ![c].group = listed]
            /\ Relock(c, <<call[c].group>>, {})
       ELSE /\ End(c)
            /\ Relock(c, <<call[c].group, p>>, {})
            /\ UNCHANGED groups
  /\ UNCHANGED <<assigned, worker, loaded>>
  /\ Keep(heap)

-----------------------------------------------------------------------------
(* unload()                                                                *)

NothingToUnload(c) ==
  /\ At(c, "unload") /\ Resumed(c)
  /\ state[Subject(c)] \in {"DISCOVERED", "UNLOADED"}
  /\ End(c)
  /\ Relock(c, <<Subject(c)>>, {})
  /\ UNCHANGED <<record, groups, heap, process>>

BeginUnload(c) ==
  LET p == Subject(c)  listed == groups[Name(c)] IN
  /\ At(c, "unload") /\ Resumed(c)
  /\ state[p] \in Usable \cup {"FAILED"}
  /\ state' = [state EXCEPT ![p] = "EVICTING"]
  /\ call' = [call EXCEPT ![c].at = "unload_lock", ![c].group = listed, ![c].sends = (p \in assigned)]
  /\ Relock(c, <<>>, {listed} \ {None})
  /\ UNCHANGED <<assigned, groups, heap, process>>

MayUnload(c) == At(c, "unload_lock") /\ (call[c].group = None \/ Resumed(c))
UnloadLocks(c) == IF call[c].group = None THEN <<Subject(c)>> ELSE <<call[c].group, Subject(c)>>

SendUnload(c) == MayUnload(c) /\ call[c].sends /\ Send(c, "unloading")

UnloadDone(c) ==
  LET p == Subject(c)  o == call[c].group
      left == IF o = None THEN {} ELSE heap[o].packages \ {p}
  IN
  /\ \/ At(c, "unloading") /\ Answered(c)
     \/ MayUnload(c) /\ ~call[c].sends
  /\ loaded' = IF call[c].sends THEN [loaded EXCEPT ![Name(c)] = @ \ {p}] ELSE loaded
  /\ Forget(c)
  /\ IF o # None /\ left = {}
       THEN /\ call' = [call EXCEPT ![c].at = "stop", ![c].why = "unload"]
            /\ KeepLocks(c)
            /\ UNCHANGED record
       ELSE /\ assigned' = assigned \ {p}
            /\ Step(p, "EVICTING", "UNLOADED")
            /\ End(c)
            /\ Relock(c, UnloadLocks(c), {})
  /\ UNCHANGED <<groups, worker>>
  /\ Keep(IF o = None THEN heap ELSE [heap EXCEPT ![o].packages = left])

\* Mutant: an unload that raises leaves the record EVICTING.
UnloadFailedSilently(c) ==
  /\ At(c, "unloading") /\ Refused(c)
  /\ Forget(c)
  /\ End(c)
  /\ Relock(c, UnloadLocks(c), {})
  /\ UNCHANGED <<record, groups, worker, loaded>>
  /\ Keep(heap)

UnloadFailed(c) ==
  /\ At(c, "unloading") /\ Refused(c)
  /\ MarkFailed(Subject(c))
  /\ Forget(c)
  /\ End(c)
  /\ Relock(c, UnloadLocks(c), {})
  /\ UNCHANGED <<assigned, groups, worker, loaded>>
  /\ Keep(heap)

-----------------------------------------------------------------------------
(* stop_group(), and what follows it in each of its three callers.         *)

BeginStop(c) ==
  LET g == Name(c) IN
  /\ At(c, "stop") /\ worker[g] \in {"starting", "running", "stopping"}
  /\ worker' = [worker EXCEPT ![g] = "stopping"]
  /\ Goto(c, "stopping")
  /\ KeepLocks(c)
  /\ UNCHANGED <<record, groups, heap, loaded, served>>

(* True if stop_group() returns, false if it raises.                       *)
StopEnds(c, normally) ==
  LET g == Name(c) IN
  \/ /\ At(c, "stopping") /\ normally
     /\ worker' = [worker EXCEPT ![g] = IF @ = "stopping" THEN "stopped" ELSE @]
     /\ loaded' = [loaded EXCEPT ![g] = IF worker[g] = "stopping" THEN {} ELSE @]
     /\ served' = IF worker[g] = "stopping" THEN served \ Requests(g) ELSE served
  \/ /\ At(c, "stop") /\ normally = (worker[g] = "stopped") /\ worker[g] \in {"stopped", "absent"}
     /\ UNCHANGED process

LoadCleaned(c, normally) ==
  /\ call[c].why = "load" /\ StopEnds(c, normally)
  /\ groups' = IF normally THEN [groups EXCEPT ![Name(c)] = None] ELSE groups
  /\ End(c)
  /\ Relock(c, <<Subject(c)>>, {})
  /\ UNCHANGED record /\ Keep(heap)

\* Mutant: the group's other plugins are not marked failed.
GroupFailedAlone(c, normally) ==
  /\ call[c].why = "fail" /\ StopEnds(c, normally)
  /\ assigned' = assigned \ heap[call[c].group].packages
  /\ End(c)
  /\ Relock(c, <<Subject(c)>>, {})
  /\ UNCHANGED <<state, groups>>
  /\ Keep(heap)

GroupFailed(c, normally) ==
  LET affected == heap[call[c].group].packages IN
  /\ call[c].why = "fail" /\ StopEnds(c, normally)
  /\ assigned' = assigned \ affected
  /\ state' = [p \in Plugins |-> IF p \in affected /\ state[p] \notin Unloaded THEN "FAILED" ELSE state[p]]
  /\ End(c)
  /\ Relock(c, <<Subject(c)>>, {})
  /\ UNCHANGED groups /\ Keep(heap)

LastUnloaded(c, normally) ==
  LET p == Subject(c) IN
  /\ call[c].why = "unload" /\ StopEnds(c, normally)
  /\ groups' = IF normally THEN [groups EXCEPT ![Name(c)] = None] ELSE groups
  /\ assigned' = IF normally THEN assigned \ {p} ELSE assigned
  /\ IF normally THEN Step(p, "EVICTING", "UNLOADED") ELSE MarkFailed(p)
  /\ End(c)
  /\ Relock(c, <<call[c].group, p>>, {})
  /\ Keep(heap)

-----------------------------------------------------------------------------
Continue(c) ==
  \/ AlreadyLoaded(c) \/ BeginLoad(c) \/ FindGroup(c) \/ PermissionMismatch(c)
  \/ StartGroup(c) \/ StartRefused(c) \/ GroupStarted(c) \/ GroupNotStarted(c)
  \/ SendLoad(c) \/ LoadDone(c) \/ LoadFailed(c)
  \/ ExecuteRefused(c) \/ BeginExecute(c) \/ SendExecute(c) \/ ExecuteDone(c) \/ ExecuteFailed(c)
  \/ NothingToUnload(c) \/ BeginUnload(c) \/ SendUnload(c) \/ UnloadDone(c) \/ UnloadFailed(c)
  \/ BeginStop(c)
  \/ \E normally \in BOOLEAN : LoadCleaned(c, normally) \/ GroupFailed(c, normally) \/ LastUnloaded(c, normally)

Proceed(c) == (ready = <<>> \/ Resumed(c)) /\ Continue(c)

Next ==
  \/ \E c \in Calls, p \in Plugins :
       Load(c, p) \/ Execute(c, p) \/ Unload(c, p) \/ SweepIdle(c, p) \/ RelievePressure(c, p)
  \/ \E c \in Calls : Proceed(c)
  \/ \E g \in Groups : Crash(g)

Spec == Init /\ [][Next]_vars
FairSpec == Spec /\ \A c \in Calls : SF_vars(Proceed(c))

-----------------------------------------------------------------------------
(* Properties.                                                             *)

(***************************************************************************)
(* Whatever a call meets on its way (a plugin that raises, a worker that   *)
(* dies, a peer that fails the group under it), it leaves no record in a   *)
(* passing state, from which neither load() nor unload() would go on.      *)
(***************************************************************************)
NothingIsHalfDone == \A p \in Plugins : lock[p] = <<>> => state[p] \in Settled

(***************************************************************************)
(* A plugin at rest that claims to be usable has a worker: who fails a     *)
(* group also withdraws the claim of every other plugin in it.             *)
(***************************************************************************)
UsableHaveWorkers == \A p \in Plugins : lock[p] = <<>> /\ state[p] \in Usable => p \in assigned

(***************************************************************************)
(* The books of a group, listed or only held by calls that wait for its    *)
(* lock, hold plugins with the group's own permissions.                    *)
(***************************************************************************)
GroupMembersMatch == \A o \in Objects : \A p \in heap[o].packages : Permissions[p] = heap[o].permissions

(***************************************************************************)
(* "plugins sharing a group require identical permissions" (the message at *)
(* lifecycle.py:182).  Refuted of the process they share: a load() that    *)
(* waited for the lock of a group whose worker was stopped sends its       *)
(* request to the next worker of that name, which has other permissions.   *)
(***************************************************************************)
SharedWorkersMatch ==
  \A g \in Groups : groups[g] # None =>
    \A p \in loaded[g] : Permissions[p] = heap[groups[g]].permissions

(***************************************************************************)
(* Every call returns or raises: the locks of record, manager and group    *)
(* are taken in an order that admits no cycle, and each way out releases   *)
(* what it holds.                                                          *)
(***************************************************************************)
CallsReturn == \A c \in Calls : call[c].at # "idle" ~> call[c].at = "idle"

(***************************************************************************)
(* What test_trust_group_shares_one_worker_and_stops_after_last_plugin     *)
(* (tests/unit/plugins/test_lifecycle.py) expects: the worker a group      *)
(* shares stays while a plugin in it is loaded.  Refuted: the cleanup of a *)
(* load() that failed stops the worker after another has loaded into it.   *)
(***************************************************************************)
Quiet(g) == \A c \in Calls : call[c].at # "idle" => Name(c) # g
LoadedPluginsAreServed ==
  \A p \in Plugins : Quiet(GroupOf[p]) /\ state[p] \in Usable => groups[GroupOf[p]] # None

=============================================================================
