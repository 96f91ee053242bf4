---------------------------- MODULE PluginCatalogue ----------------------------
(***************************************************************************)
(* What an installer promises of the plugins a registry lists              *)
(* (src/comfyng/plugins/installer.py): an installation lists its plugin in *)
(* one step, whole, at a place where none is listed, and withdraws it only *)
(* before it ends, to fail; what has been installed stays.  Staging        *)
(* directories, phases, moves and rollbacks are not seen.                  *)
(***************************************************************************)
CONSTANTS
  Installs,
  Places,
  At,        \* the place of each install
  Contents,  \* what it installs
  Nothing

VARIABLES
  entry,     \* what is found at each place the registry lists
  outcome    \* what install() has said

vars == <<entry, outcome>>

Init ==
  /\ entry = [d \in Places |-> Nothing]
  /\ outcome = [i \in Installs |-> "pending"]

Listed(i) == entry[At[i]] = Contents[i]

List(i) ==
  /\ outcome[i] = "pending"
  /\ entry[At[i]] = Nothing
  /\ entry' = [entry EXCEPT ![At[i]] = Contents[i]]
  /\ UNCHANGED outcome

Withdraw(i) ==
  /\ outcome[i] = "pending" /\ Listed(i)
  /\ entry' = [entry EXCEPT ![At[i]] = Nothing]
  /\ UNCHANGED outcome

Succeed(i) ==
  /\ outcome[i] = "pending" /\ Listed(i)
  /\ outcome' = [outcome EXCEPT ![i] = "installed"]
  /\ UNCHANGED entry

Fail(i) ==
  /\ outcome[i] = "pending" /\ ~Listed(i)
  /\ outcome' = [outcome EXCEPT ![i] = "failed"]
  /\ UNCHANGED entry

(* The registry is in memory: a restart empties it, and the installations  *)
(* are tried again.                                                        *)
Restart ==
  /\ entry' = [d \in Places |-> Nothing]
  /\ outcome' = [i \in Installs |-> "pending"]

Next ==
  \/ \E i \in Installs : List(i) \/ Withdraw(i) \/ Succeed(i) \/ Fail(i)
  \/ Restart

Spec == Init /\ [][Next]_vars

================================================================================
