--------------------------- MODULE MCPluginLifecycle ---------------------------
(***************************************************************************)
(* Plugins of one trust group with the same permissions, and gamma with    *)
(* others.                                                                 *)
(***************************************************************************)
EXTENDS PluginLifecycle

CONSTANTS alpha, beta, gamma, official

Trusted == [p \in Plugins |-> official]
Granted == [p \in Plugins |-> IF p = gamma THEN "network" ELSE "none"]

\* Each policy for one plugin, and what clients ask of each.
Policies == (alpha :> "after_execution") @@ (beta :> "after_idle") @@ (gamma :> "on_memory_pressure")
Requested == (alpha :> {"execute", "unload"}) @@ (beta :> {"execute"}) @@ (gamma :> {"load"})

=============================================================================
