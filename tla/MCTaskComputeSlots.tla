------------------------ MODULE MCTaskComputeSlots --------------------------
(* Instances of TaskComputeSlots for TLC.                                  *)
EXTENDS TaskComputeSlots, TLC

CONSTANTS p1, p2

Alone == [p \in Processes |-> None]
Chain == [p \in Processes |-> IF p = p1 THEN p2 ELSE None]

Plain == [slots |-> 1, workers |-> 2, schedulers |-> 2, processes |-> {p1, p2},
          budget |-> 1, retainers |-> 0, dependent |-> Alone, electing |-> {},
          failing |-> {}, regions |-> 0, calls |-> 1]

\* Three workers around one process: an elected drainer, two warm retainers
\* where the budget is one, and an error that ends the process under them.
Warmed == [Plain EXCEPT !.workers = 3, !.schedulers = 1, !.processes = {p1}, !.retainers = 2,
                        !.electing = {p1}, !.failing = {p1}]
\* A region transition wakes the worker that waits warm.
Advancing == [Plain EXCEPT !.schedulers = 1, !.processes = {p1}, !.retainers = 1,
                           !.electing = {p1}, !.failing = {p1}, !.regions = 1]
\* Two workers drain one process while two threads feed it or ask it to finish.
Shared == [Plain EXCEPT !.processes = {p1}, !.budget = 2]
\* A process and its dependent compete for the only slot.
Crowded == [Plain EXCEPT !.schedulers = 1, !.dependent = Chain, !.calls = 2]
\* Both have room, but the dependent must look past its upstream's slot.
Roomy == [Plain EXCEPT !.slots = 2, !.schedulers = 1, !.dependent = Chain, !.failing = {p1}]

Everyday == {Warmed, Advancing, Shared, Crowded, Roomy}

\* Two unrelated processes and one worker.
Competing == {[Plain EXCEPT !.workers = 1]}
\* A process that elects its drainer and lets every worker wait warm.
Rejoining == {[Plain EXCEPT !.schedulers = 1, !.processes = {p1}, !.budget = 2,
                            !.electing = {p1}, !.calls = 2]}

Symmetry == Permutations(Workers) \cup Permutations(Schedulers)
=============================================================================
