------------------------------ MODULE MCAdmission ------------------------------
(***************************************************************************)
(* Four jobs that differ in what the broker can do for them.               *)
(***************************************************************************)
EXTENDS Admission

CONSTANTS offloadable, shrinkable, small, light

MCJobs == {offloadable, shrinkable, small, light}

MCLimits == [ram |-> 5, heavy |-> 1, gpu9 |-> 0]

Estimate(ram, heavy, gpu9) == [ram |-> ram, heavy |-> heavy, gpu9 |-> gpu9]

\* One that fits only offloaded, one only with a smaller batch, one as it is or quantized,
\* and one without an estimate.
MCPlans ==
  offloadable :> [none |-> Estimate(2, 0, 1), offload |-> Estimate(5, 1, 0)]
  @@ shrinkable :> [none |-> Estimate(6, 1, 0), reduce_batch |-> Estimate(2, 0, 0)]
  @@ small :> [none |-> Estimate(4, 1, 0), quantize |-> Estimate(3, 1, 0)]
  @@ light :> [a \in {} |-> Estimate(0, 0, 0)]

MCQueueOf == offloadable :> "normal" @@ shrinkable :> "normal" @@ small :> "batch" @@ light :> "normal"

MCQueueNames == <<"normal", "batch">>

MCQueueLimits == "normal" :> 2

MCMerit == offloadable :> 0 @@ shrinkable :> 1 @@ small :> 1 @@ light :> 2

=============================================================================
