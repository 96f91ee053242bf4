---------------------------- MODULE MCContentStore ----------------------------
(***************************************************************************)
(* Two publications of the same two blobs, and one of one of them.         *)
(***************************************************************************)
EXTENDS ContentStore, TLC

CONSTANTS p1, p2, p3

Blobs == 1 .. 2
Overlapping == (p1 :> Blobs) @@ (p2 :> Blobs) @@ (p3 :> {2})
SameBlobs == (p1 :> Blobs) @@ (p2 :> Blobs)

=============================================================================
