--------------------------- MODULE MCPluginInstaller ---------------------------
(***************************************************************************)
(* Two installations of one version and one each of two others, of which   *)
(* one is refused and the observer fails two at their last phases.         *)
(***************************************************************************)
EXTENDS PluginInstaller, TLC

CONSTANTS sound, again, observed, flawed, demo

Packaged == [i \in Installs |-> demo]
Versions == (sound :> 1) @@ (again :> 1) @@ (observed :> 2) @@ (flawed :> 3)
Digests == (sound :> 1) @@ (again :> 2) @@ (observed :> 3) @@ (flawed :> 4)
Refused == (sound :> {}) @@ (again :> {}) @@ (observed :> {}) @@ (flawed :> {"create_environment"})
Failed == (sound :> {}) @@ (again :> {"publish"}) @@ (observed :> {"register"}) @@ (flawed :> {})
Open == {<<demo, 2>>}

=============================================================================
