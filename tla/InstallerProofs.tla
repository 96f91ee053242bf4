---------------------------- MODULE InstallerProofs ----------------------------
(***************************************************************************)
(* For any number of installations, packages and failing phases: what the  *)
(* registry lists is installed, a failed installation leaves nothing, and  *)
(* one installation for a place succeeds.                                  *)
(***************************************************************************)
EXTENDS PluginInstaller, TLAPS

Early == {"download", "verify_signature", "verify_hash", "read_permissions", "resolve_dependencies",
          "create_environment", "import_test", "validate_manifest", "publish", "move"}
Holding == {"register", "return", "undo", "remove", "installed"}
Steps == Early \cup Holding \cup {"remove_folder", "raise", "failed"}

TypeOK ==
  /\ pc \in [Installs -> Steps]
  /\ staged \in [Installs -> SUBSET Layout]
  /\ folders \subseteq Packages
  /\ tree \in [Places -> [of : Installs \cup {Nobody}, parts : SUBSET Layout]]
  /\ lock \in Installs \cup {Nobody}
  /\ records \in [Places -> Installs \cup {Nobody}]
  /\ published \subseteq Installs /\ registered \subseteq Installs
  /\ restarted \in BOOLEAN

\* What the staging directory of an install holds at the phase it is in.
StagedSoFar ==
  \A i \in Installs :
    /\ pc[i] \in {"verify_signature", "verify_hash", "read_permissions", "resolve_dependencies"} =>
         "bundle" \in staged[i]
    /\ pc[i] = "create_environment" => {"bundle", "lockfile"} \subseteq staged[i]
    /\ pc[i] \in {"import_test", "validate_manifest", "publish", "move"} => staged[i] = Layout
    /\ pc[i] \in {"installed", "failed"} => staged[i] = {}

\* The lock is held while moving, to a place that is free.
MovesToFreePlace ==
  \A i \in Installs :
    /\ pc[i] = "move" <=> lock = i
    /\ pc[i] = "move" => ~Exists(Place(i))

\* Who has moved its bundle and not removed it again has its place.
HolderHasPlace ==
  \A i \in Installs :
    /\ pc[i] \in Early => i \notin published \cup registered
    /\ pc[i] \in {"register", "return", "installed"} => i \in published
    /\ pc[i] \in Holding /\ i \in published =>
         tree[Place(i)].of = i /\ tree[Place(i)].parts = Layout

\* Nobody else's bundle is there.
PlaceHasHolder ==
  \A d \in Places : \A i \in Installs : tree[d].of = i =>
    Place(i) = d /\ i \in published /\ (pc[i] \in Holding \/ d \in Stuck)

\* A registration is of one who holds the place, and goes first.
RecordHasHolder ==
  \A d \in Places : \A i \in Installs : records[d] = i =>
    Place(i) = d /\ i \in published /\ i \in registered /\ pc[i] \in {"undo", "return", "installed"}

\* Who is about to succeed, or has, is registered.
ReturnsRegistered ==
  \A i \in Installs : pc[i] \in {"return", "installed"} => records[Place(i)] = i

IInv ==
  /\ TypeOK
  /\ StagedSoFar
  /\ MovesToFreePlace
  /\ HolderHasPlace
  /\ PlaceHasHolder
  /\ RecordHasHolder
  /\ ReturnsRegistered

-----------------------------------------------------------------------------
LEMMA PlaceInPlaces == \A i \in Installs : Place(i) \in Places /\ Package[i] \in Packages
  BY DEF Places, Packages

\* Nothing is installed or staged at first.
LEMMA InvInit == ASSUME Init PROVE IInv
  BY InstallAssumption, PlaceInPlaces
  DEF Init, IInv, TypeOK, StagedSoFar, MovesToFreePlace, HolderHasPlace, PlaceHasHolder, RecordHasHolder, ReturnsRegistered,
      Steps, Early, Holding, Nothing, Layout, Exists

\* A phase before publication touches its own staging directory only.
LEMMA PhaseStep ==
  ASSUME IInv, NEW i \in Installs, NEW phase \in Early \ {"publish", "move"}, NEW following \in Early \ {"move"},
         NEW adds \in SUBSET Layout, Phase(i, phase, following, adds),
         following \in {"verify_signature", "verify_hash", "read_permissions", "resolve_dependencies"} =>
           "bundle" \in staged[i] \cup adds,
         following = "create_environment" => {"bundle", "lockfile"} \subseteq staged[i] \cup adds,
         following \in {"import_test", "validate_manifest", "publish"} => staged[i] \cup adds = Layout,
         following # "download"
  PROVE  IInv'
  BY InstallAssumption, PlaceInPlaces
  DEF IInv, TypeOK, StagedSoFar, MovesToFreePlace, HolderHasPlace, PlaceHasHolder, RecordHasHolder, ReturnsRegistered,
      Steps, Early, Holding, Exists, Phase, Goto, Raises, disk


\* The eight phases before publication.
LEMMA PreparationStep ==
  ASSUME IInv, NEW i \in Installs,
         \/ Download(i) \/ VerifySignature(i) \/ VerifyHash(i) \/ ReadPermissions(i)
         \/ ResolveDependencies(i) \/ CreateEnvironment(i) \/ TestImport(i) \/ ValidateManifest(i)
  PROVE  IInv'
<1>. USE PhaseStep DEF Early, Layout, IInv, StagedSoFar
<1>1. CASE Download(i)
  <2>1. Phase(i, "download", "verify_signature", {"bundle"}) /\ pc[i] = "download"
    BY <1>1 DEF Download, Phase
  <2>. QED
    BY <2>1
<1>2. CASE VerifySignature(i)
  <2>1. Phase(i, "verify_signature", "verify_hash", {}) /\ pc[i] = "verify_signature"
    BY <1>2 DEF VerifySignature, Phase
  <2>. QED
    BY <2>1
<1>3. CASE VerifyHash(i)
  <2>1. Phase(i, "verify_hash", "read_permissions", {}) /\ pc[i] = "verify_hash"
    BY <1>3 DEF VerifyHash, Phase
  <2>. QED
    BY <2>1
<1>4. CASE ReadPermissions(i)
  <2>1. Phase(i, "read_permissions", "resolve_dependencies", {}) /\ pc[i] = "read_permissions"
    BY <1>4 DEF ReadPermissions, Phase
  <2>. QED
    BY <2>1
<1>5. CASE ResolveDependencies(i)
  <2>1. Phase(i, "resolve_dependencies", "create_environment", {"lockfile"}) /\ pc[i] = "resolve_dependencies"
    BY <1>5 DEF ResolveDependencies, Phase
  <2>. QED
    BY <2>1
<1>6. CASE CreateEnvironment(i)
  <2>1. Phase(i, "create_environment", "import_test", {"environment"}) /\ pc[i] = "create_environment"
    BY <1>6 DEF CreateEnvironment, Phase
  <2>2. staged[i] \cup {"environment"} = Layout
    BY <2>1 DEF TypeOK
  <2>. QED
    BY <2>1, <2>2
<1>7. CASE TestImport(i)
  <2>1. Phase(i, "import_test", "validate_manifest", {}) /\ pc[i] = "import_test"
    BY <1>7 DEF TestImport, Phase
  <2>. QED
    BY <2>1
<1>8. CASE ValidateManifest(i)
  <2>1. Phase(i, "validate_manifest", "publish", {}) /\ pc[i] = "validate_manifest"
    BY <1>8 DEF ValidateManifest, Phase
  <2>. QED
    BY <2>1
<1>. QED
  BY <1>1, <1>2, <1>3, <1>4, <1>5, <1>6, <1>7, <1>8

\* A place that is taken is left alone.
LEMMA AlreadyInstalledStep == ASSUME IInv, NEW i \in Installs, AlreadyInstalled(i) PROVE IInv'
  BY InstallAssumption, PlaceInPlaces
  DEF IInv, TypeOK, StagedSoFar, MovesToFreePlace, HolderHasPlace, PlaceHasHolder, RecordHasHolder, ReturnsRegistered,
      Steps, Early, Holding, Exists, Goto, disk, Layout, Nothing, AlreadyInstalled

\* The lock and the free place are what the move needs.
LEMMA MakeFolderStep == ASSUME IInv, NEW i \in Installs, MakeFolder(i) PROVE IInv'
<1>. USE InstallAssumption, PlaceInPlaces
     DEF IInv, TypeOK, Steps, Early, Holding, Exists, Goto, disk, Layout, Nothing, MakeFolder
<1>1. TypeOK'
  OBVIOUS
<1>2. StagedSoFar'
  BY DEF StagedSoFar
<1>3. MovesToFreePlace'
  BY DEF MovesToFreePlace, HolderHasPlace
<1>4. HolderHasPlace'
  BY DEF HolderHasPlace, MovesToFreePlace, StagedSoFar, PlaceHasHolder
<1>5. PlaceHasHolder'
  BY DEF PlaceHasHolder, MovesToFreePlace, HolderHasPlace
<1>6. RecordHasHolder'
  BY DEF RecordHasHolder, HolderHasPlace, MovesToFreePlace
<1>7. ReturnsRegistered'
  BY DEF ReturnsRegistered, RecordHasHolder, HolderHasPlace
<1>. QED
  BY <1>1, <1>2, <1>3, <1>4, <1>5, <1>6, <1>7

\* The bundle is moved to a place that nobody has.
LEMMA MoveStep == ASSUME IInv, NEW i \in Installs, Move(i) PROVE IInv'
<1>. USE InstallAssumption, PlaceInPlaces
     DEF IInv, TypeOK, Steps, Early, Holding, Goto, disk, Layout, Move
<1>. DEFINE moved == [of |-> i, parts |-> Layout]
<1>1. /\ pc[i] = "move" /\ staged[i] = Layout /\ lock = i
      /\ ~Exists(Place(i)) /\ i \notin published \cup registered
  BY DEF StagedSoFar, MovesToFreePlace, HolderHasPlace
<1>2. \A k \in Installs : pc[k] \in Holding /\ k \in published => Place(k) # Place(i)
  <2>1. Layout # {}
    OBVIOUS
  <2>. QED
    BY <1>1, <2>1 DEF HolderHasPlace, Exists
<1>3. CASE Package[i] \notin folders
  <2>1. pc' = [pc EXCEPT ![i] = "undo"] /\ lock' = Nobody
        /\ UNCHANGED <<staged, tree, published, folders, records, registered, restarted>>
    BY <1>3
  <2>2. TypeOK'
    BY <2>1
  <2>3. StagedSoFar' /\ HolderHasPlace' /\ PlaceHasHolder' /\ RecordHasHolder' /\ ReturnsRegistered'
    BY <1>1, <2>1 DEF StagedSoFar, HolderHasPlace, PlaceHasHolder, RecordHasHolder, ReturnsRegistered
  <2>4. MovesToFreePlace'
    BY <1>1, <2>1 DEF MovesToFreePlace, Exists
  <2>. QED
    BY <2>2, <2>3, <2>4
<1>4. CASE Package[i] \in folders
  <2>1. /\ tree' = [tree EXCEPT ![Place(i)] = moved] /\ staged' = [staged EXCEPT ![i] = {}]
        /\ published' = published \cup {i} /\ lock' = Nobody
        /\ pc' \in {[pc EXCEPT ![i] = "undo"], [pc EXCEPT ![i] = "register"]}
        /\ UNCHANGED <<folders, records, registered, restarted>>
    BY <1>1, <1>4
  <2>2. moved \in [of : Installs \cup {Nobody}, parts : SUBSET Layout] /\ Place(i) \in Places
    OBVIOUS
  <2>3. TypeOK'
    <3>1. tree' \in [Places -> [of : Installs \cup {Nobody}, parts : SUBSET Layout]]
      BY <2>1, <2>2
    <3>. QED
      BY <2>1, <3>1
  <2>4. StagedSoFar'
    BY <1>1, <2>1 DEF StagedSoFar
  <2>5. MovesToFreePlace'
    BY <1>1, <2>1 DEF MovesToFreePlace, Exists
  <2>6. \A k \in Installs \ {i} : pc'[k] = pc[k] /\ (k \in published' <=> k \in published)
    BY <2>1
  <2>7. \A d \in Places : tree'[d] = IF d = Place(i) THEN moved ELSE tree[d]
    BY <2>1
  <2>8. pc'[i] \in {"undo", "register"} /\ i \in published' /\ registered' = registered /\ records' = records
    BY <2>1
  <2>9. HolderHasPlace'
    BY <1>1, <1>2, <2>6, <2>7, <2>8 DEF HolderHasPlace
  <2>10. PlaceHasHolder'
    <3>. SUFFICES ASSUME NEW d \in Places, NEW k \in Installs, tree'[d].of = k
                  PROVE  Place(k) = d /\ k \in published' /\ (pc'[k] \in Holding \/ d \in Stuck)
      BY DEF PlaceHasHolder
    <3>1. CASE d = Place(i)
      BY <2>7, <2>8, <3>1
    <3>2. CASE d # Place(i)
      BY <1>1, <2>6, <2>7, <3>2 DEF PlaceHasHolder
    <3>. QED
      BY <3>1, <3>2
  <2>11. RecordHasHolder'
    BY <1>1, <2>6, <2>8 DEF RecordHasHolder
  <2>12. ReturnsRegistered'
    BY <2>6, <2>8 DEF ReturnsRegistered
  <2>. QED
    BY <2>3, <2>4, <2>5, <2>9, <2>10, <2>11, <2>12
<1>. QED
  BY <1>3, <1>4

\* Only the holder of a place registers for it.
LEMMA RegisterStep == ASSUME IInv, NEW i \in Installs, Register(i) PROVE IInv'
<1>. USE InstallAssumption, PlaceInPlaces
     DEF IInv, TypeOK, Steps, Early, Holding, Exists, Goto, disk, Layout, Nothing, Register
<1>1. TypeOK'
  <2>1. records' \in [Places -> Installs \cup {Nobody}] /\ registered' \subseteq Installs
    OBVIOUS
  <2>2. pc' \in [Installs -> Steps]
    OBVIOUS
  <2>3. UNCHANGED <<staged, folders, tree, lock, published, restarted>>
    OBVIOUS
  <2>. HIDE DEF Register
  <2>. QED
    BY <2>1, <2>2, <2>3
<1>2. StagedSoFar'
  BY DEF StagedSoFar
<1>3. MovesToFreePlace'
  BY DEF MovesToFreePlace, HolderHasPlace
<1>4. HolderHasPlace'
  BY DEF HolderHasPlace, MovesToFreePlace, StagedSoFar, PlaceHasHolder
<1>5. PlaceHasHolder'
  BY DEF PlaceHasHolder, MovesToFreePlace, HolderHasPlace
<1>6. RecordHasHolder'
  BY DEF RecordHasHolder, HolderHasPlace, MovesToFreePlace
<1>7. ReturnsRegistered'
  BY DEF ReturnsRegistered, RecordHasHolder, HolderHasPlace
<1>. QED
  BY <1>1, <1>2, <1>3, <1>4, <1>5, <1>6, <1>7

\* The registration goes while the bundle is still there.
LEMMA UnregisterStep == ASSUME IInv, NEW i \in Installs, Unregister(i) PROVE IInv'
  BY InstallAssumption, PlaceInPlaces
  DEF IInv, TypeOK, StagedSoFar, MovesToFreePlace, HolderHasPlace, PlaceHasHolder, RecordHasHolder, ReturnsRegistered,
      Steps, Early, Holding, Exists, Goto, disk, Layout, Nothing, Unregister

\* A rollback removes its own bundle.
LEMMA RemoveTreeStep == ASSUME IInv, NEW i \in Installs, RemoveTree(i) PROVE IInv'
<1>. USE InstallAssumption, PlaceInPlaces
     DEF IInv, TypeOK, Steps, Early, Holding, Exists, Goto, disk, Layout, Nothing, RemoveTree
<1>1. TypeOK'
  OBVIOUS
<1>2. StagedSoFar'
  BY DEF StagedSoFar
<1>3. MovesToFreePlace'
  BY DEF MovesToFreePlace, HolderHasPlace
<1>4. HolderHasPlace'
  BY DEF HolderHasPlace, MovesToFreePlace, StagedSoFar, PlaceHasHolder
<1>5. PlaceHasHolder'
  BY DEF PlaceHasHolder, MovesToFreePlace, HolderHasPlace
<1>6. RecordHasHolder'
  BY DEF RecordHasHolder, HolderHasPlace, MovesToFreePlace
<1>7. ReturnsRegistered'
  BY DEF ReturnsRegistered, RecordHasHolder, HolderHasPlace
<1>. QED
  BY <1>1, <1>2, <1>3, <1>4, <1>5, <1>6, <1>7

\* A folder without bundles may go.
LEMMA RemoveFolderStep == ASSUME IInv, NEW i \in Installs, RemoveFolder(i) PROVE IInv'
  BY InstallAssumption, PlaceInPlaces
  DEF IInv, TypeOK, StagedSoFar, MovesToFreePlace, HolderHasPlace, PlaceHasHolder, RecordHasHolder, ReturnsRegistered,
      Steps, Early, Holding, Exists, Goto, disk, Layout, Nothing, RemoveFolder

\* The staging directory goes on either way.
LEMMA RemoveStagingStep == ASSUME IInv, NEW i \in Installs, RemoveStaging(i) PROVE IInv'
  BY InstallAssumption, PlaceInPlaces
  DEF IInv, TypeOK, StagedSoFar, MovesToFreePlace, HolderHasPlace, PlaceHasHolder, RecordHasHolder, ReturnsRegistered,
      Steps, Early, Holding, Exists, Goto, disk, Layout, Nothing, RemoveStaging

\* After a restart nobody has anything, and what was moved is nobody's.
LEMMA RestartStep == ASSUME IInv, Restart PROVE IInv'
<1>. USE InstallAssumption DEF IInv, Restart
<1>1. \A d \in Places : tree'[d].of = Nobody
  BY DEF TypeOK
<1>2. TypeOK'
  <2>1. tree' \in [Places -> [of : Installs \cup {Nobody}, parts : SUBSET Layout]]
    <3>1. /\ tree \in [Places -> [of : Installs \cup {Nobody}, parts : SUBSET Layout]]
          /\ tree' = [d \in Places |-> [tree[d] EXCEPT !.of = Nobody]]
      BY DEF TypeOK
    <3>. HIDE DEF IInv, Restart
    <3>. QED
      BY <3>1
  <2>. QED
    BY <2>1 DEF TypeOK, Steps, Early
<1>3. StagedSoFar' /\ MovesToFreePlace' /\ HolderHasPlace'
  BY DEF StagedSoFar, MovesToFreePlace, HolderHasPlace, Early, Holding
<1>4. PlaceHasHolder' /\ RecordHasHolder' /\ ReturnsRegistered'
  BY <1>1 DEF PlaceHasHolder, RecordHasHolder, ReturnsRegistered
<1>. QED
  BY <1>2, <1>3, <1>4

\* The invariant is inductive.
LEMMA InvStep == ASSUME IInv, [Next]_vars PROVE IInv'
<1>1. ASSUME NEW i \in Installs, Proceed(i)
      PROVE IInv'
  BY <1>1, PreparationStep, AlreadyInstalledStep, MakeFolderStep, MoveStep, RegisterStep, UnregisterStep,
     RemoveTreeStep, RemoveFolderStep, RemoveStagingStep DEF Proceed
<1>2. CASE Restart
  BY <1>2, RestartStep
<1>3. CASE UNCHANGED vars
  BY <1>3 DEF vars, disk, IInv, TypeOK, StagedSoFar, MovesToFreePlace, HolderHasPlace, PlaceHasHolder,
     RecordHasHolder, ReturnsRegistered, Exists
<1>. QED
  BY <1>1, <1>2, <1>3 DEF Next

LEMMA Invariance == Spec => []IInv
<1>1. Init => IInv
  BY InvInit
<1>2. IInv /\ [Next]_vars => IInv'
  BY InvStep
<1>. QED
  BY <1>1, <1>2, PTL DEF Spec

-----------------------------------------------------------------------------
(***************************************************************************)
(* Registered plugins are installed, completely and as registered: any     *)
(* rollback beside them removes only what its own installation has moved.  *)
(***************************************************************************)
THEOREM RegisteredPluginsAreInstalled == Spec => []RegisteredIsInstalled
<1>1. IInv => RegisteredIsInstalled
  BY InstallAssumption DEF IInv, TypeOK, RecordHasHolder, HolderHasPlace, RegisteredIsInstalled, Holding
<1>. QED
  BY <1>1, Invariance, PTL

(***************************************************************************)
(* A failed installation leaves no registration, nothing staged, and no    *)
(* bundle but one whose files could not be removed.                        *)
(***************************************************************************)
THEOREM FailedInstallsLeaveNothing == Spec => []FailureLeavesNothing
<1>1. IInv => FailureLeavesNothing
  BY PlaceInPlaces DEF IInv, StagedSoFar, PlaceHasHolder, RecordHasHolder, FailureLeavesNothing, Holding
<1>. QED
  BY <1>1, Invariance, PTL

(***************************************************************************)
(* However many install the same version at once, one succeeds at most.    *)
(***************************************************************************)
THEOREM OneInstallationForAPlace == Spec => []OneInstallation
<1>1. IInv => OneInstallation
  <2>. SUFFICES ASSUME IInv, NEW i \in Installs, NEW k \in Installs,
                       pc[i] = "installed", pc[k] = "installed", Place(i) = Place(k)
                PROVE  i = k
    BY DEF OneInstallation
  <2>1. tree[Place(i)].of = i /\ tree[Place(k)].of = k
    BY DEF IInv, HolderHasPlace, Holding
  <2>. QED
    BY <2>1
<1>. QED
  BY <1>1, Invariance, PTL

-----------------------------------------------------------------------------
(* Implementation of the catalogue. *)

\* What is listed is whole.
LEMMA ListedIsWhole ==
  ASSUME IInv, NEW d \in Places, records[d] # Nobody
  PROVE  /\ records[d] \in Installs /\ Place(records[d]) = d
         /\ Found(d) = Whole(records[d]) /\ Exists(d)
         /\ pc[records[d]] \in {"undo", "return", "installed"}
<1>. DEFINE k == records[d]
<1>1. k \in Installs
  BY DEF IInv, TypeOK
<1>2. Place(k) = d /\ k \in published /\ pc[k] \in {"undo", "return", "installed"}
  BY <1>1 DEF IInv, RecordHasHolder
<1>3. tree[d].of = k /\ tree[d].parts = Layout /\ tree[d] \in [of : Installs \cup {Nobody}, parts : SUBSET Layout]
  BY <1>1, <1>2 DEF IInv, TypeOK, HolderHasPlace, Holding
<1>4. tree[d] = [of |-> k, parts |-> Layout] /\ Exists(d)
  BY <1>3 DEF Exists, Layout
<1>. QED
  BY <1>1, <1>2, <1>4 DEF Found, Whole

\* An install is listed if the registration at its place is its own.
LEMMA ListedIffRegistered ==
  ASSUME IInv, NEW i \in Installs
  PROVE  Catalogue!Listed(i) <=> records[Place(i)] = i
<1>1. Place(i) \in Places /\ i # Nobody
  BY PlaceInPlaces, InstallAssumption
<1>2. Catalogue!Listed(i) <=> Found(Place(i)) = Whole(i)
  BY <1>1 DEF Catalogue!Listed
<1>3. ASSUME records[Place(i)] = i
      PROVE  Found(Place(i)) = Whole(i)
  BY <1>1, <1>3, ListedIsWhole
<1>. QED
  BY <1>2, <1>3 DEF Found, Whole

\* Each step lists, withdraws or ends one installation, or nothing that can be seen.
LEMMA CatalogueStep ==
  ASSUME IInv, IInv', [Next]_vars
  PROVE  [Catalogue!Next]_(Catalogue!vars)
<1>. DEFINE seen == [d \in Places |-> Found(d)]
            said == [i \in Installs |-> Outcome(i)]
<1>1. SUFFICES ASSUME ~UNCHANGED <<seen, said>>
               PROVE  Catalogue!Next
  BY DEF Catalogue!vars
<1>2. /\ pc \in [Installs -> Steps] /\ records \in [Places -> Installs \cup {Nobody}]
      /\ tree \in [Places -> [of : Installs \cup {Nobody}, parts : SUBSET Layout]]
  BY DEF IInv, TypeOK
<1>3. ASSUME NEW i \in Installs, pc' = [pc EXCEPT ![i] = pc'[i]], Outcome(i)' = Outcome(i)
      PROVE  said' = said
  BY <1>2, <1>3 DEF Outcome
<1>4. ASSUME records' = records,
             \A d \in Places : records[d] # Nobody => tree'[d] = tree[d]
      PROVE  seen' = seen
  BY <1>2, <1>4 DEF Found
<1>5. seen' = seen /\ said' = said => FALSE
  BY <1>1
<1>. HIDE DEF seen, said
\* Before its end, an installation that leaves the registry and what it lists alone is not seen.
<1>6. ASSUME NEW i \in Installs, pc' = [pc EXCEPT ![i] = pc'[i]], pc[i] \notin Ended, pc'[i] \notin Ended,
             records' = records, \A d \in Places : records[d] # Nobody => tree'[d] = tree[d]
      PROVE  FALSE
  BY <1>3, <1>4, <1>5, <1>6 DEF Outcome
<1>7. ASSUME NEW i \in Installs, NEW phase \in Early, NEW following \in Early, NEW adds,
             Phase(i, phase, following, adds)
      PROVE  FALSE
  BY <1>2, <1>6, <1>7 DEF Phase, Goto, Ended, Early, disk
<1>8. ASSUME NEW i \in Installs,
             \/ Download(i) \/ VerifySignature(i) \/ VerifyHash(i) \/ ReadPermissions(i)
             \/ ResolveDependencies(i) \/ CreateEnvironment(i) \/ TestImport(i) \/ ValidateManifest(i)
      PROVE  FALSE
  BY <1>7, <1>8 DEF Early, Download, VerifySignature, VerifyHash, ReadPermissions, ResolveDependencies,
     CreateEnvironment, TestImport, ValidateManifest
<1>9. ASSUME NEW i \in Installs, AlreadyInstalled(i) \/ MakeFolder(i) \/ RemoveFolder(i)
      PROVE  FALSE
  BY <1>2, <1>6, <1>9 DEF AlreadyInstalled, MakeFolder, RemoveFolder, Goto, Ended, disk
<1>10. ASSUME NEW i \in Installs, Move(i)
       PROVE  FALSE
  <2>1. records[Place(i)] = Nobody
    BY <1>10, PlaceInPlaces, ListedIsWhole DEF IInv, MovesToFreePlace, Move
  <2>2. /\ pc' = [pc EXCEPT ![i] = pc'[i]] /\ pc[i] \notin Ended /\ pc'[i] \notin Ended
        /\ records' = records
    BY <1>2, <1>10 DEF Move, Goto, Ended
  <2>3. \A d \in Places \ {Place(i)} : tree'[d] = tree[d]
    BY <1>2, <1>10 DEF Move
  <2>. QED
    BY <1>6, <2>1, <2>2, <2>3
<1>11. ASSUME NEW i \in Installs, RemoveTree(i)
       PROVE  FALSE
  <2>1. i \in published => records[Place(i)] = Nobody
    <3>. SUFFICES ASSUME i \in published, records[Place(i)] # Nobody
                  PROVE  FALSE
      OBVIOUS
    <3>1. tree[Place(i)].of = i
      BY <1>11 DEF RemoveTree, IInv, HolderHasPlace, Holding
    <3>2. Found(Place(i)) = Whole(records[Place(i)]) /\ pc[records[Place(i)]] # "remove"
      BY PlaceInPlaces, ListedIsWhole
    <3>3. tree[Place(i)].of = records[Place(i)]
      BY <3>2 DEF Found, Whole
    <3>. QED
      BY <1>11, <3>1, <3>2, <3>3 DEF RemoveTree
  <2>2. /\ pc' = [pc EXCEPT ![i] = pc'[i]] /\ pc[i] \notin Ended /\ pc'[i] \notin Ended
        /\ records' = records
    BY <1>2, <1>11 DEF RemoveTree, Goto, Ended
  <2>3. \A d \in Places : i \notin published \/ d # Place(i) => tree'[d] = tree[d]
    BY <1>2, <1>11 DEF RemoveTree
  <2>. QED
    BY <1>6, <2>1, <2>2, <2>3
<1>12. ASSUME NEW i \in Installs, Register(i)
       PROVE  Catalogue!List(i)
  <2>1. /\ pc' = [pc EXCEPT ![i] = pc'[i]] /\ pc[i] \notin Ended /\ pc'[i] \notin Ended
        /\ tree' = tree
    BY <1>2, <1>12 DEF Register, Goto, Ended, disk
  <2>2. records' = [records EXCEPT ![Place(i)] = i]
    BY <1>6, <1>12, <2>1 DEF Register
  <2>3. Place(i) \in Places
    BY PlaceInPlaces
  <2>4. records[Place(i)] = Nobody
    <3>. SUFFICES ASSUME records[Place(i)] # Nobody
                  PROVE  FALSE
      OBVIOUS
    <3>1. tree[Place(i)].of = i
      BY <1>12 DEF Register, IInv, HolderHasPlace, Holding
    <3>2. Found(Place(i)) = Whole(records[Place(i)]) /\ pc[records[Place(i)]] # "register"
      BY PlaceInPlaces, ListedIsWhole
    <3>3. tree[Place(i)].of = records[Place(i)]
      BY <3>2 DEF Found, Whole
    <3>. QED
      BY <1>12, <3>1, <3>2, <3>3 DEF Register
  <2>5. tree[Place(i)] = [of |-> i, parts |-> Layout]
    BY <1>2, <1>12, <2>3 DEF Register, IInv, HolderHasPlace, Holding
  <2>6. seen' = [seen EXCEPT ![Place(i)] = Whole(i)]
    BY <1>2, <2>1, <2>2, <2>3, <2>5, InstallAssumption DEF seen, Found, Whole
  <2>7. said' = said /\ said[i] = "pending"
    BY <1>3, <2>1 DEF said, Outcome
  <2>8. seen[Place(i)] = [listed |-> Nobody, found |-> Nothing]
    BY <2>3, <2>4 DEF seen, Found
  <2>. QED
    BY <2>6, <2>7, <2>8 DEF Catalogue!List, seen, said
<1>13. ASSUME NEW i \in Installs, Unregister(i)
       PROVE  Catalogue!Withdraw(i)
  <2>1. /\ pc' = [pc EXCEPT ![i] = pc'[i]] /\ pc[i] \notin Ended /\ pc'[i] \notin Ended
        /\ tree' = tree
    BY <1>2, <1>13 DEF Unregister, Goto, Ended, disk
  <2>2. records[Place(i)] = i /\ records' = [records EXCEPT ![Place(i)] = Nobody]
    BY <1>6, <1>13, <2>1 DEF Unregister
  <2>3. Place(i) \in Places
    BY PlaceInPlaces
  <2>4. seen' = [seen EXCEPT ![Place(i)] = [listed |-> Nobody, found |-> Nothing]]
    BY <1>2, <2>1, <2>2, <2>3 DEF seen, Found
  <2>5. said' = said /\ said[i] = "pending"
    BY <1>3, <2>1 DEF said, Outcome
  <2>6. Catalogue!Listed(i)
    BY <2>2, ListedIffRegistered
  <2>. QED
    BY <2>4, <2>5, <2>6 DEF Catalogue!Withdraw, seen, said
<1>14. ASSUME NEW i \in Installs, RemoveStaging(i)
       PROVE  Catalogue!Succeed(i) \/ Catalogue!Fail(i)
  <2>1. pc' = [pc EXCEPT ![i] = pc'[i]] /\ pc[i] \notin Ended /\ records' = records /\ tree' = tree
    BY <1>2, <1>14 DEF RemoveStaging, Goto, Ended, disk
  <2>2. seen' = seen
    BY <1>4, <2>1
  <2>3. said[i] = "pending" /\ said' = [said EXCEPT ![i] = Outcome(i)']
    BY <1>2, <2>1 DEF said, Outcome
  <2>4. CASE pc[i] = "return"
    <3>1. records[Place(i)] = i
      BY <2>4 DEF IInv, ReturnsRegistered
    <3>2. Catalogue!Listed(i) /\ said' = [said EXCEPT ![i] = "installed"]
      BY <1>2, <1>14, <2>1, <2>3, <2>4, <3>1, ListedIffRegistered DEF RemoveStaging, Goto, Outcome, Ended
    <3>. QED
      BY <2>2, <2>3, <3>2 DEF Catalogue!Succeed, seen, said
  <2>5. CASE pc[i] = "raise"
    <3>1. records[Place(i)] # i
      BY <2>5, PlaceInPlaces DEF IInv, RecordHasHolder
    <3>2. ~Catalogue!Listed(i) /\ said' = [said EXCEPT ![i] = "failed"]
      BY <1>2, <1>14, <2>1, <2>3, <2>5, <3>1, ListedIffRegistered DEF RemoveStaging, Goto, Outcome, Ended
    <3>. QED
      BY <2>2, <2>3, <3>2 DEF Catalogue!Fail, seen, said
  <2>. QED
    BY <1>14, <2>4, <2>5 DEF RemoveStaging
<1>15. CASE Restart
  <2>1. seen' = [d \in Places |-> [listed |-> Nobody, found |-> Nothing]]
    BY <1>15 DEF Restart, seen, Found
  <2>2. said' = [i \in Installs |-> "pending"]
    BY <1>15 DEF Restart, said, Outcome, Ended
  <2>. QED
    BY <2>1, <2>2 DEF Catalogue!Next, Catalogue!Restart, seen, said
<1>16. CASE UNCHANGED vars
  BY <1>5, <1>16 DEF vars, disk, seen, said, Found, Outcome
<1>. QED
  BY <1>8, <1>9, <1>10, <1>11, <1>12, <1>13, <1>14, <1>15, <1>16 DEF Next, Proceed, Catalogue!Next

\* Nothing is listed at first.
LEMMA CatalogueInit == ASSUME Init PROVE Catalogue!Init
  BY DEF Init, Catalogue!Init, Found, Outcome, Ended

(***************************************************************************)
(* However installations fail, undo and compete for a place, the registry  *)
(* lists each plugin in one step and whole, or not at all; one that was    *)
(* installed stays, and one that failed is not listed.                     *)
(***************************************************************************)
THEOREM InstallerImplementsCatalogue == Spec => InstallationIsAtomic
<1>1. Init => Catalogue!Init
  BY CatalogueInit
<1>2. IInv /\ IInv' /\ [Next]_vars => [Catalogue!Next]_(Catalogue!vars)
  BY CatalogueStep
<1>. QED
  BY <1>1, <1>2, Invariance, PTL DEF Spec, Catalogue!Spec, InstallationIsAtomic

=============================================================================
