---------------------------- MODULE PluginInstaller ----------------------------
(***************************************************************************)
(* Installing plugins (src/comfyng/plugins/installer.py, environments.py): *)
(* threads that each prepare a bundle in a staging directory of their own, *)
(* move it to installed/<package>/<version> under the publication lock and *)
(* register it, or undo what they did, without that lock.                  *)
(*                                                                         *)
(* What a phase reads in a bundle is abstracted to whether it refuses it.  *)
(* The observer of phases is called when a phase has succeeded, and what   *)
(* it raises fails the phase.  The registry is the one in memory.          *)
(***************************************************************************)
EXTENDS Naturals, FiniteSets

CONSTANTS
  Installs,       \* calls of install(), one thread each
  Package, Version, Digest,     \* of the bundle each installs
  Flaws,          \* phases that refuse its bundle
  Observed,       \* phases after which the observer raises
  Stuck,          \* <<package, version>> whose files cannot all be removed
  Nobody

Place(i) == <<Package[i], Version[i]>>
Places == {Place(i) : i \in Installs}
Packages == {Package[i] : i \in Installs}

ASSUME InstallAssumption ==
  /\ Nobody \notin Installs
  /\ Stuck \subseteq Places

VARIABLES
  pc,          \* the phase each install is in, or how it ended
  staged,      \* what its staging directory holds
  folders,     \* packages with a directory under installed/
  tree,        \* what is installed at each place: whose bundle, and its parts
  lock,        \* the publication lock
  records,     \* the registry: whose registration each place has
  published,   \* installs with a published_path
  registered,  \* installs with a registered plugin
  restarted    \* bound: the process restarts once

disk == <<folders, tree>>
vars == <<pc, staged, disk, lock, records, published, registered, restarted>>

Nothing == [of |-> Nobody, parts |-> {}]
Layout == {"bundle", "lockfile", "environment"}
Ended == {"installed", "failed"}

Init ==
  /\ pc = [i \in Installs |-> "download"]
  /\ staged = [i \in Installs |-> {}]
  /\ folders = {}
  /\ tree = [d \in Places |-> Nothing]
  /\ lock = Nobody
  /\ records = [d \in Places |-> Nobody]
  /\ published = {} /\ registered = {}
  /\ restarted = FALSE

Exists(d) == tree[d].parts # {}
Goto(i, where) == pc' = [pc EXCEPT ![i] = where]
Raises(i, phase) == phase \in Flaws[i] \cup Observed[i]

-----------------------------------------------------------------------------
(* The phases before publication, in the staging directory.                *)

Phase(i, phase, following, adds) ==
  /\ pc[i] = phase
  /\ Goto(i, IF Raises(i, phase) THEN "undo" ELSE following)
  /\ staged' = [staged EXCEPT ![i] = IF phase \in Flaws[i] THEN @ ELSE @ \cup adds]
  /\ UNCHANGED <<disk, lock, records, published, registered, restarted>>

Download(i) == Phase(i, "download", "verify_signature", {"bundle"})
VerifySignature(i) == Phase(i, "verify_signature", "verify_hash", {})
VerifyHash(i) == Phase(i, "verify_hash", "read_permissions", {})
ReadPermissions(i) == Phase(i, "read_permissions", "resolve_dependencies", {})
ResolveDependencies(i) == Phase(i, "resolve_dependencies", "create_environment", {"lockfile"})
CreateEnvironment(i) == Phase(i, "create_environment", "import_test", {"environment"})
TestImport(i) == Phase(i, "import_test", "validate_manifest", {})
ValidateManifest(i) == Phase(i, "validate_manifest", "publish", {})

-----------------------------------------------------------------------------
(* Publication, under the lock, and registration.                          *)

AlreadyInstalled(i) ==
  /\ pc[i] = "publish" /\ lock = Nobody
  /\ Exists(Place(i))
  /\ Goto(i, "undo")
  /\ UNCHANGED <<staged, disk, lock, records, published, registered, restarted>>

MakeFolder(i) ==
  /\ pc[i] = "publish" /\ lock = Nobody
  /\ ~Exists(Place(i))
  /\ lock' = i
  /\ folders' = folders \cup {Package[i]}
  /\ Goto(i, "move")
  /\ UNCHANGED <<staged, tree, records, published, registered, restarted>>

\* Mutant: a move that fails keeps the lock.
MoveLocked(i) ==
  /\ pc[i] = "move"
  /\ IF Package[i] \in folders
       THEN /\ tree' = [tree EXCEPT ![Place(i)] = [of |-> i, parts |-> staged[i]]]
            /\ staged' = [staged EXCEPT ![i] = {}]
            /\ published' = published \cup {i}
            /\ Goto(i, IF "publish" \in Observed[i] THEN "undo" ELSE "register")
            /\ lock' = Nobody
       ELSE Goto(i, "undo") /\ UNCHANGED <<tree, staged, published, lock>>
  /\ UNCHANGED <<folders, records, registered, restarted>>

(* os.replace() fails if a rollback has removed the folder meanwhile.      *)
Move(i) ==
  /\ pc[i] = "move"
  /\ lock' = Nobody
  /\ IF Package[i] \in folders
       THEN /\ tree' = [tree EXCEPT ![Place(i)] = [of |-> i, parts |-> staged[i]]]
            /\ staged' = [staged EXCEPT ![i] = {}]
            /\ published' = published \cup {i}
            /\ Goto(i, IF "publish" \in Observed[i] THEN "undo" ELSE "register")
       ELSE Goto(i, "undo") /\ UNCHANGED <<tree, staged, published>>
  /\ UNCHANGED <<folders, records, registered, restarted>>

Conflict(i) == records[Place(i)] # Nobody /\ Digest[records[Place(i)]] # Digest[i]

Register(i) ==
  /\ pc[i] = "register"
  /\ IF "register" \in Flaws[i] \/ Conflict(i)
       THEN Goto(i, "undo") /\ UNCHANGED <<records, registered>>
       ELSE /\ records' = [records EXCEPT ![Place(i)] = i]
            /\ registered' = registered \cup {i}
            /\ Goto(i, IF "register" \in Observed[i] THEN "undo" ELSE "return")
  /\ UNCHANGED <<staged, disk, lock, published, restarted>>

-----------------------------------------------------------------------------
(* The rollback, and the end of both ways.                                 *)

Unregister(i) ==
  /\ pc[i] = "undo"
  /\ records' = IF i \in registered /\ records[Place(i)] = i
                  THEN [records EXCEPT ![Place(i)] = Nobody] ELSE records
  /\ Goto(i, "remove")
  /\ UNCHANGED <<staged, disk, lock, published, registered, restarted>>

\* Mutant: whatever is at the place is removed.
RemoveAnyTree(i) ==
  /\ pc[i] = "remove"
  /\ tree' = [tree EXCEPT ![Place(i)] = Nothing]
  /\ Goto(i, "remove_folder")
  /\ UNCHANGED <<staged, folders, lock, records, published, registered, restarted>>

\* Mutant: an installation that was not registered is left where it is.
RemoveRegisteredTree(i) ==
  /\ pc[i] = "remove"
  /\ tree' = IF i \in registered THEN [tree EXCEPT ![Place(i)] = Nothing] ELSE tree
  /\ Goto(i, "remove_folder")
  /\ UNCHANGED <<staged, folders, lock, records, published, registered, restarted>>

(* Files that cannot be removed are left behind without an error.          *)
RemoveTree(i) ==
  /\ pc[i] = "remove"
  /\ tree' = IF i \in published
               THEN [tree EXCEPT ![Place(i)] = IF Place(i) \in Stuck THEN [@ EXCEPT !.parts = {"bundle"}] ELSE Nothing]
               ELSE tree
  /\ Goto(i, "remove_folder")
  /\ UNCHANGED <<staged, folders, lock, records, published, registered, restarted>>

RemoveFolder(i) ==
  /\ pc[i] = "remove_folder"
  /\ folders' = IF i \in published /\ ~\E d \in Places : d[1] = Package[i] /\ Exists(d)
                  THEN folders \ {Package[i]} ELSE folders
  /\ Goto(i, "raise")
  /\ UNCHANGED <<staged, tree, lock, records, published, registered, restarted>>

RemoveStaging(i) ==
  /\ pc[i] \in {"return", "raise"}
  /\ staged' = [staged EXCEPT ![i] = {}]
  /\ Goto(i, IF pc[i] = "return" THEN "installed" ELSE "failed")
  /\ UNCHANGED <<disk, lock, records, published, registered, restarted>>

-----------------------------------------------------------------------------
(* The process dies and the installations are tried again: what was moved  *)
(* is nobody's, and the registry in memory starts empty.                   *)
Restart ==
  /\ ~restarted /\ restarted' = TRUE
  /\ pc' = [i \in Installs |-> "download"]
  /\ staged' = [i \in Installs |-> {}]
  /\ tree' = [d \in Places |-> [tree[d] EXCEPT !.of = Nobody]]
  /\ lock' = Nobody
  /\ records' = [d \in Places |-> Nobody]
  /\ published' = {} /\ registered' = {}
  /\ UNCHANGED folders

Proceed(i) ==
  \/ Download(i) \/ VerifySignature(i) \/ VerifyHash(i) \/ ReadPermissions(i)
  \/ ResolveDependencies(i) \/ CreateEnvironment(i) \/ TestImport(i) \/ ValidateManifest(i)
  \/ AlreadyInstalled(i) \/ MakeFolder(i) \/ Move(i) \/ Register(i)
  \/ Unregister(i) \/ RemoveTree(i) \/ RemoveFolder(i) \/ RemoveStaging(i)

Next == (\E i \in Installs : Proceed(i)) \/ Restart

Spec == Init /\ [][Next]_vars
FairSpec == Spec /\ \A i \in Installs : WF_vars(Proceed(i))

-----------------------------------------------------------------------------
(* Implementation.                                                         *)

Found(d) == [listed |-> records[d], found |-> IF records[d] = Nobody THEN Nothing ELSE tree[d]]
Whole(i) == [listed |-> i, found |-> [of |-> i, parts |-> Layout]]
Outcome(i) == IF pc[i] \in Ended THEN pc[i] ELSE "pending"

Catalogue == INSTANCE PluginCatalogue WITH
  At <- [i \in Installs |-> Place(i)],
  Contents <- [i \in Installs |-> Whole(i)],
  Nothing <- [listed |-> Nobody, found |-> Nothing],
  entry <- [d \in Places |-> Found(d)],
  outcome <- [i \in Installs |-> Outcome(i)]

(* Phase by phase, whichever fails and whoever else installs or undoes     *)
(* beside it, an installation lists its plugin whole or not at all, one    *)
(* that succeeded is still listed, and one that failed is not.             *)
InstallationIsAtomic == Catalogue!Spec

-----------------------------------------------------------------------------
(* Properties.                                                             *)

(***************************************************************************)
(* What the registry lists is installed, completely and as the one that    *)
(* registered it: no rollback of another installation of the package, and  *)
(* no failure between moving and registering, takes it away.               *)
(***************************************************************************)
RegisteredIsInstalled ==
  \A d \in Places : records[d] # Nobody => tree[d] = [of |-> records[d], parts |-> Layout]

(***************************************************************************)
(* "rolls back atomically" (tests/unit/plugins/test_installer.py:122), at  *)
(* any phase and beside other installations: an installation that failed   *)
(* leaves no registration, nothing staged, and nothing installed but what  *)
(* the file system would not remove.                                       *)
(***************************************************************************)
FailureLeavesNothing ==
  \A i \in Installs : pc[i] = "failed" =>
    /\ records[Place(i)] # i /\ staged[i] = {}
    /\ tree[Place(i)].of = i => Place(i) \in Stuck

(***************************************************************************)
(* Every installation ends, and only one of those for a place succeeds.    *)
(***************************************************************************)
InstallsEnd == \A i \in Installs : <>[](pc[i] \in Ended)
OneInstallation ==
  \A i, k \in Installs : pc[i] = "installed" /\ pc[k] = "installed" /\ Place(i) = Place(k) => i = k

(***************************************************************************)
(* Not so: a rollback removes the package's folder that another version's  *)
(* publication has just made, and the move of a sound bundle fails ...     *)
(***************************************************************************)
SoundBundlesInstall ==
  \A i \in Installs : pc[i] = "failed" =>
    \/ Flaws[i] \cup Observed[i] # {}
    \/ \E k \in Installs \ {i} : Place(k) = Place(i)
    \/ restarted

(* ... nor so: what a restart leaves unregistered stays so, since its      *)
(* place is taken and nothing reads installed/ back into the registry.     *)
InstalledIsRegistered ==
  \A d \in Places \ Stuck :
    (\A i \in Installs : pc[i] \in Ended) /\ Exists(d) => records[d] # Nobody

=============================================================================
