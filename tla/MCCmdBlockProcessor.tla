------------------------ MODULE MCCmdBlockProcessor ------------------------
(***************************************************************************)
(* Recordings for the model checker.  In SafeRecordings no reservation     *)
(* ends beyond TileCapacity and no buffer is resized by a later block.     *)
(***************************************************************************)
EXTENDS CmdBlockProcessor

CONSTANTS p

Direct(n) == [param |-> NoParam, tiles |-> n, chunk |-> 1,
              store |-> NoParam, value |-> 0, fails |-> FALSE,
              starved |-> FALSE]
Indirect == [Direct(0) EXCEPT !.param = p]
Stores(c, v) == [c EXCEPT !.store = p, !.value = v]

\* One block: a kernel sizes the next region, and a later region resizes the
\* buffer again while workers of the region sized by it may still be stalled.
Resized ==
    << <<  <<Stores(Direct(1), 1)>>, <<Indirect>>, <<Stores(Direct(1), 2)>>, <<Indirect>> >> >>

\* A chain with an empty block and an empty region, two commands in a region,
\* reservations of two tiles, and a kernel that may fail.
Chain ==
    << << <<>>, <<[Direct(1) EXCEPT !.fails = TRUE], [Direct(3) EXCEPT !.chunk = 2]>> >>,
       << <<Direct(0)>> >>,
       << <<Direct(2)>> >> >>

\* As many tiles as a region can count; the last reservation of the first
\* command ends as high as one of two tiles can.
Full == << << <<[Direct(6) EXCEPT !.chunk = 2], Direct(1)>> >> >>

\* Like the automatic reservation of 8 tiles, a reservation of 4 divides the
\* range of the counter, and the second one of this command wraps it to zero.
Wrapping == << << <<[Direct(7) EXCEPT !.chunk = 4]>> >> >>

\* A kernel asks for more tiles than a region can count.
Overflowing == << << <<Stores(Direct(2), 9)>> >>, << <<Indirect>> >> >>

\* The recording has nothing to do.
Empty == << << <<>> >>, << <<Direct(0)>> >> >>

\* The indirect command and the kernel that resizes its buffer are in different
\* blocks: the builder splits a command buffer wherever a block is full.
Split ==
    << << <<Stores(Direct(1), 1)>>, <<Indirect>> >>,
       << <<Stores(Direct(1), 2)>> >> >>

\* The second region cannot be executed by any worker.
Hungry == << << <<Direct(1)>>, <<[Direct(1) EXCEPT !.starved = TRUE]>> >> >>

SafeRecordings == {Resized, Chain, Full, Overflowing, Empty, Hungry}
SplitRecordings == {Split}
WrappingRecordings == {Wrapping}

Buffers == {p}
Zeroed == [x \in Buffers |-> 0]
=============================================================================
