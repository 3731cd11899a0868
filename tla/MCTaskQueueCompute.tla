------------------------- MODULE MCTaskQueueCompute -------------------------
(* An instance of TaskQueueCompute for TLC: fewer items than recordings, so *)
(* that items are recycled, and a pool that has to grow once.               *)
EXTENDS TaskQueueCompute, TLC

CONSTANTS i1, i2, r1, r2, r3, w1, w2

ThreeReady == <<r1, r2, r3>>
OnePooled == <<i1>>
TileCounts == [r \in Recordings |-> IF r = r1 THEN 1 ELSE IF r = r2 THEN 2 ELSE 0]
=============================================================================
