------------------------------ MODULE MCEventBus ------------------------------
(***************************************************************************)
(* Two jobs and the system publish; one subscription takes a job's events, *)
(* the other all.                                                          *)
(***************************************************************************)
EXTENDS EventBus, TLC

CONSTANTS jobA, jobB, system, narrow, wide

Filters == (narrow :> {jobA}) @@ (wide :> {jobA, jobB, system})

=============================================================================
