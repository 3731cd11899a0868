--------------------------- MODULE MCTaskProcess ---------------------------
(* Instances of TaskProcess for TLC.                                       *)
EXTENDS TaskProcess, TLC

CONSTANTS p1, p2

\* p2 waits for p1 and for one external event.
JoinDependents == (p1 :> {p2} @@ p2 :> {})
JoinWakes == (p1 :> 0 @@ p2 :> 1)
=============================================================================
