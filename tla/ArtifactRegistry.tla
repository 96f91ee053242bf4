--------------------------- MODULE ArtifactRegistry ---------------------------
(***************************************************************************)
(* What the artifact store promises of publications                        *)
(* (src/comfyng/storage/artifacts.py): an artifact is published in one     *)
(* step, complete and under the next version, or not at all; a version is  *)
(* never taken back, given again or left out.  The blobs, references,      *)
(* manifests, locks and transactions behind it are not seen.               *)
(***************************************************************************)
EXTENDS Naturals, FiniteSets

CONSTANTS
  Artifacts,     \* one publication each
  Interruptible  \* those that may be cancelled while they are committed

VARIABLES
  version,   \* the version of each artifact, 0 until it is published
  readable,  \* the artifacts whose content can be read
  outcome    \* what publish() has said

vars == <<version, readable, outcome>>

Published == {a \in Artifacts : version[a] > 0}

Init ==
  /\ version = [a \in Artifacts |-> 0]
  /\ readable = {}
  /\ outcome = [a \in Artifacts |-> "pending"]

Appear(a) ==
  /\ outcome[a] = "pending"
  /\ a \notin Published
  /\ version' = [version EXCEPT ![a] = 1 + Cardinality(Published)]
  /\ readable' = readable \cup {a}

Publish(a) ==
  /\ Appear(a)
  /\ outcome' = [outcome EXCEPT ![a] = "published"]

(* Who is told of a failure, or nothing since the process died, has        *)
(* published nothing.                                                      *)
End(a) ==
  /\ outcome[a] = "pending"
  /\ a \in Published => a \in Interruptible
  /\ outcome' \in {[outcome EXCEPT ![a] = "failed"], [outcome EXCEPT ![a] = "crashed"]}
  /\ UNCHANGED <<version, readable>>

(* But a publication cancelled while it is committed keeps its version,    *)
(* and its content may be taken away before it ends.                       *)
PublishSilently(a) ==
  /\ a \in Interruptible
  /\ Appear(a)
  /\ UNCHANGED outcome

Lose(a) ==
  /\ a \in Interruptible
  /\ a \in Published
  /\ outcome[a] = "pending"
  /\ readable' = readable \ {a}
  /\ UNCHANGED <<version, outcome>>

Next == \E a \in Artifacts : Publish(a) \/ End(a) \/ PublishSilently(a) \/ Lose(a)

Spec == Init /\ [][Next]_vars

================================================================================
