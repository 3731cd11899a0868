-------------------------- MODULE MCTaskExecutor --------------------------
(* Instances of TaskExecutor for TLC.                                      *)
EXTENDS TaskExecutor, TLC

CONSTANTS p1, p2, ProducerCalls, WorkerCalls

CallBounds == [t \in Threads |-> IF t \in Workers THEN WorkerCalls ELSE ProducerCalls]

Symmetry == Permutations(Producers)
=============================================================================
