--------------------------- MODULE MCTaskQueueOps ---------------------------
(* A small instance of TaskQueueOps. *)
EXTENDS TaskQueueOps, TLC

CONSTANTS o1, o2

TwoOps == {o1, o2}
Choices == (o1 :> {"io", "call"}) @@ (o2 :> {"inline", "compute", "post"})
Waits == (o1 :> 2) @@ (o2 :> 0)
=============================================================================
