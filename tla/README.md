# TLA+ models of the hrx-system runtime core

This directory specifies the concurrent core of the CPU side of the runtime: the task system
(`runtime/src/iree/task`), the asynchronous primitives it is driven by
(`runtime/src/iree/async`: semaphores, frontier tracker) and the task queue that is its main
client (`runtime/src/iree/hal/driver/task`). It consists of TLA+ modules translated from the
C code, TLC configurations that check them on small instances, and TLAPS proofs for arbitrary
instances.

File names below are relative to `src/runtime/src/iree/` unless they say otherwise.

## 1. Inventory

The repository has four parts.

| Part | What it is | In this project |
|---|---|---|
| `runtime/` | IREE derived runtime: async primitives, threading, HAL and its drivers, task system, io, net, tokenizer, vm | task system, semaphores, frontier tracker and task queue |
| `libhrx/` | HIP and CUDA style bindings over the HAL: streams, graphs, memory pools | not modelled |
| `libamdf/` | user mode library for GPU and NPU queues | not modelled |
| `loom/` | compiler | not modelled |

Everything the CPU side executes is submitted to a task queue, becomes ready when semaphores
say so, and is executed by the workers of the task system. These parts are lock free or
nearly so: their correctness rests on the order of single atomic operations of several
threads. That is what a model checker is for and a unit test is not.

### Components

**Process** (`task/process.c`, `task/process.h`). The unit of cooperative work. State:
`state` (SUSPENDED, RUNNABLE, COMPLETED, CANCELLED), `suspend_count`, `error_status` (first
error wins), `schedule_state` (IDLE, NOTIFIED, DRAINING), the dependents it wakes when it is
resolved, and for compute processes `needs_drain`, `retain_drain`, `placement_epoch`,
`compute_placement_state`, `retention_epoch` and `warm_retainers`. Operations: `wake`,
`complete`, `report_error`, `cancel`, `resolve`, and the claims on placements and warm
retention. Two callbacks go out: `completion_fn`, and `release_fn`, after which the storage
may be gone. Correct means: completed at most once, released after every access, no wake
lost, dependents activated exactly when everything they wait for is resolved.

**Executor** (`task/executor.c`, `task/executor_impl.h`). State: the immediate list, 16
compute slots, the overflow list, `wake_epoch`, the idle mask and count, `desired_wake`, the
reference count and the shutdown record. Operations: `schedule_process` (called by anyone),
`wake_workers`, `try_place_in_compute_slot`, `release` and `destroy` (on any thread, a
worker's own included). Correct means: published work always has a worker that will scan for
it, the overflow list drains, and shutdown neither hangs nor frees what a thread still uses.

**Worker** (`task/worker.c`). Every worker runs `pump_until_exit`: prepare to wait, read the
wake epoch, relay wakes it owes to others, drain the compute slots, drain one immediate
process, and sleep if nothing was found and the epoch has not moved. State: RUNNING, EXITING
or ZOMBIE, two notifications, and the locals of the loop. `drain_process` drains an immediate
process exclusively; `drain_compute_slots` joins a slot with others, and the last one to
leave releases it.

**Scope** (`task/scope.c`). A group of submissions with a first-failure status and an idle
notification: `begin`, `end`, `fail`, `abort`, `consume_status`, `wait_idle`,
`deinitialize`. Nothing outside `task/` uses it at this commit.

**Notification** (`base/threading/notification.c`, `.h`). An event count in one word: the
number of waiters and an epoch. `prepare_wait` takes a token, `post` advances the epoch and
wakes, `commit_wait` sleeps until the epoch differs, `cancel_wait` takes the token back.

**Semaphore** (`async/semaphore.c`). A timeline value and a failure, both atomics, and under
a mutex the pending timepoints and a frontier. Operations: `signal`, `signal_untainted`,
`publish_untainted`, `fail`, `acquire_timepoint`, `cancel_timepoint`, `resolve`, `link`,
`mark_tainted_above`, `merge_frontier`, `release`, and `multi_wait`, which blocks a thread on
several semaphores. Correct means: the value grows until the first failure, and every
accepted timepoint is called back once, for a reason that holds, or taken back.

**Frontier tracker** (`async/frontier_tracker.c`). Epochs of the axes of a causal domain,
waiters for points on several axes, semaphores bridged to axes, leased timelines and logical
joins. Operations: `register_axis`, `advance`, `wait`, `cancel_wait`, `fail_axis`,
`retire_axis`, `acquire_timeline`, `join_begin`, `join_merge`, `join_publish`, `release`.
Correct means: no waiter is forgotten, answers are true, a join's axis proves its inputs, and
nothing is freed or leased again while in use.

**Task queue** (`hal/driver/task/queue/queue.c`). Operations with semaphore waits, a ready
list, a control process that issues ready operations, a compute process whose recordings
flow through recycled items, I/O on the proactor, and a shutdown in stages that starts when
the last operation retires. Correct means: an operation has one owner and one truthful
outcome, items are never filled while somebody drains them, and nothing touches the queue
after the destroyer was told that it is gone.

**Block processor** (`hal/driver/task/command/block_processor.c`). Executes one recording
with all workers that drain it: tiles of the active region are claimed from counters with
epoch tags, counted down, and the worker that reaches zero publishes the next region, block
or the end. Correct means: it executes what the single worker path executes, regions do not
overlap, failures are not lost, and nobody waits for something that has already happened.

**Other parts.** `task/owner.c`, `task/list.c` (in no build target), `task/topology*.c` and
`task/api.c`, proactors, sockets, HAL objects, device drivers, net, io, vm, tokenizer.
`PROJECT.json` lists each with the reason it is not modelled.

### How they interact

```
 client              semaphore / frontier            task queue             task system
 ------              --------------------            ----------             -----------
 submit operation -> acquire_timepoint per wait
 signal, fail ---->  callbacks  ------------------> last wait: ready list,
                                                    schedule_process ----> immediate list
                                                    control process  <---- drain_process
                                                    issues: inline, I/O,
                                                    or a recording:
                                                    schedule_process ----> compute slots
                                                    compute process  <---- drain_compute_slots
                                                      block processor: tiles
 waiters <---------  signal, fail <---------------- operation completed
```

`schedule_process` ends in `wake_workers` (wake epoch, idle mask, post), and a worker sleeps
in `commit_wait`.

### What is hard

`PROJECT.json` lists the hazards at their lines. In groups:

* *Stale decisions.* A worker decides to sleep, to release a slot, to stay warm or to claim a
  tile from values that another thread is changing. The code answers with epochs that are
  read before and compared after, sentinels, and re-checks in the opposite order of the
  writer's stores.
* *Life time.* A process may be freed by `release_fn`, an executor by its own worker, a join
  by its last callback, a multi-wait's state when its thread returns, a queue when its
  destroyer wakes; other threads may be between a check and a use.
* *Lost wakes.* A notification is not a queue; a value is published without the lock under
  which waiters are registered; a waiter on several axes is indexed on one at a time.
* *Recycling.* Compute items, slots, tile counters and timelines are reused while somebody
  may hold a stale reference; generations and epochs must tell.
* *Limits.* Slots can be full when they are looked at and free when the overflow is pushed.
* *Failure, cancellation and deadlines* racing with completion.

## 2. Modules

| Module | Code it stands for | Role |
|---|---|---|
| `TaskProcess` | `process.c`; `executor.c` 375-404; `worker.c` 190-280 | life of an immediate process |
| `TaskExecutor` | `executor.c` 89-333; `worker.c` 80-190, 1055-1236; `notification.c` 246-372 | sleep, wake, relay, shutdown |
| `TaskComputeSlots` | `executor.c` 335-444; `worker.c` 284-1040; the placement part of `process.c` | compute slots |
| `TaskScope` | `scope.c` | scopes |
| `ThreadNotification` | `notification.h` 52-106, `notification.c` 241-271 | the packed event count, as operators on its word |
| `AsyncTimeline` | what `semaphore.h` promises | abstract specification of semaphores |
| `AsyncSemaphore` | `semaphore.c` 34-750, the merge of `frontier.c` | semaphores; implements `AsyncTimeline` |
| `AsyncMultiWait` | `semaphore.c` 752-1040 | `multi_wait`; extends `AsyncSemaphore` and `ThreadNotification` |
| `AsyncFrontierTracker` | `frontier_tracker.c` | axes, waiters, bridges, timelines, joins |
| `TaskQueueOps` | `queue.c`: submission to retirement, control process, shutdown | life of operations and of the queue |
| `TaskQueueCompute` | `queue.c` 1144-2480: compute items, publication, drain | the compute process |
| `CmdBlockProcessor` | `block_processor.c`: the multi-worker drain | execution of one recording |
| `...Proofs` | | TLAPS proofs about the module they are named after (section 5) |
| `MC...` | | instances for TLC (`TaskScope` is checked as it is) |

How they fit. `TaskProcess` and `TaskComputeSlots` are the two branches of
`schedule_process`, and assume that somebody scans; `TaskExecutor` shows that somebody does,
with the work reduced to a counter. `TaskComputeSlots` uses what `TaskExecutor` establishes
as the definition of `Wake`. `TaskQueueOps` sees a process as a flag that is drained after it
was set, which is what these three show; `TaskQueueCompute` refines its compute worker, and
sees a slot as `TaskComputeSlots` presents it and a recording as a number of tiles;
`CmdBlockProcessor` refines the tiles. `AsyncMultiWait` composes semaphores, the
notification and the waiting thread in one specification, and a semaphore of it is what
`TaskQueueOps` waits for: it answers once, with success or failure, maybe inside the
registration. Except for these compositions the modules share no variables and are checked
one by one.

### Common conventions

* One action is one atomic operation of the code (load, store, exchange, compare and swap,
  list push or pop, critical section) or a callback. `pc` names the operation a thread performs
  next, and most actions are named after the step of the function they stand in. Loads are
  merged with a neighbouring operation only where no other thread can change what they read.
* Where calls nest (callbacks that call back: semaphores, tracker) a thread has a stack of
  frames, and the `pc` of the top frame is its next operation.
* Atomics are sequentially consistent. The code uses weaker orders in places and explains
  them in comments; reordering by the memory model is outside these models.
* Field names are those of the code, in the task modules in camel case (`schedule_state` is
  `scheduleState`).
* A *mutant* is a definition that changes another one as a plausible mistake would; it stands
  above the definition it changes and is used by no specification.
* A property that is a conjunction of named parts (`StorageIsSafe`, `ItemsAreOwned`) has the
  module's type invariant among them.
* `CHECK_DEADLOCK FALSE` everywhere: an executor with no work left rests, by design, and a
  bounded number of calls ends in such a state.

### TaskProcess

State: the four atomics of a process, the immediate list as a set, and per thread the `pc`,
the process it owns (`cur`), the dependents `resolve` has still to wake (`todo`), the
activated list it returned (`activated`) and the process it is scheduling (`target`). History
variables: `workPending` (work published and seen by no drain), `completions` (the statuses
`completion_fn` was called with), `released`, and the wakes still owed from outside.

Actions by function: `CallSchedule`, `ScheduleCheckTerminal`, `ScheduleExchange`,
`SchedulePush` (`schedule_process`); `WakeDecrement`, `WakeActivate`, `WakeCancelled`
(`wake`); `Resolve`, `WakeDone` (`resolve`); `ReportError`, `ReportErrorState`;
`CompleteCheck`, `CompleteStore`; `CancelRecord`, `CancelSuspended`, `CancelNotSuspended`,
`CancelRunnable`; `WorkerPop`, `WorkerConsume`, `Drain...`, `WorkerCheck`, `WorkerSleep`,
`WorkerStayAwake`, `WorkerRelease` (`drain_process`); `ActivateNext`, `ActivateDone`.

The list is a set because the properties do not depend on which member is popped; a pop
may return any. (The code pops the most recent one: the list is an `slist` with a push and a pop
at the head, although `task/README.md:189` calls it FIFO.) Callers keep a process alive
while they call, and schedule only a process that its activator has scheduled. That second
precondition matters: `slist_next` links both the activated chain and the immediate list.

### TaskExecutor

State: the fields of the executor that take part in sleeping and shutdown, an epoch per
notification, and the locals of `wake_workers`, `pump_until_exit` and `destroy`. Work is
`pending`, the number of published units. A worker in `drain` may block for ever, unless
the run says otherwise.

Actions: `WakeBump` ... `WakeSeed` are `wake_workers`; `PrepareWait` ... `CommitWait` the
pump; `RelayClaim`, `RelayDone` the relay; `ExitMarkIdle` ... `ExitCount` the way out of a
worker; `ProducerRelease`, `DrainRelease`, `DestroyBegin`, `RequestExit` ... `FinalizeFree`
the shutdown, which runs on the thread that drops the last reference, or on the last worker
when that thread is a worker. A failure in the middle of `iree_task_executor_create` is left
out, and so is the join of a thread by the operating system (`Joined` is external).

### TaskComputeSlots

State: the compute fields of the process, the slot with `active_drainers` split into its
three parts (generation, count, sentinel), the overflow list as a set, and the locals of
`drain_compute_slots` (`me`). `client`, chosen by `Init` and constant, is the scenario: how
many slots, workers and schedulers take part, the wake budget, who may elect or fail. The
client side (`work`, `regionsLeft`, `closing`) is the contract of
`iree_task_process_drain_result_t`, used the way the one production client uses it: a drain
finds a unit of work, finds nothing, elects one active drainer and asks the others to stay
warm, publishes a region transition, reports completion or fails.

Actions by function: `Schedule...` and `Place...` (`schedule_process`, `place_in_compute_slot`,
`try_place_in_compute_slot`); `ScanStart` ... `Bail` (finding and joining a slot); `Drain...`,
`ClaimCompletion`, `EagerComplete`; `TryRetainWarm`, `WarmTest` ... `FinalCheck` (warm
retention); `LeaveAndTryClaim`, `OwnerConsume`, `OwnerDecide`, `Restore` (the last drainer);
`ReleaseStart` ... `Unplace` (`release_compute_process`, with promotion from the overflow
list, the second look at `needs_drain` and `release_fn`).

`Wake` abstracts `wake_workers` to what `TaskExecutor` establishes: everybody who is awake
scans again before sleeping, and at least one sleeper wakes up unless the wake went to a worker that
was about to sleep. It wakes at most as many sleepers as it is asked to; spurious wakes are left
out, and no property depends on them. Slots are scanned in any order. `DrainReturn` advances the
retention epoch whenever a drain found work, the code's client only when it publishes a region:
the model wakes warm workers more often. Left out: a worker that is asked to exit
while it waits warm, the spin before a warm wait, deadlines, and `wake_budget` changing while
a process lives.

### TaskScope

State: the four atomics of the scope, the owner, one thread per submission and the threads
that consume the status. Actions follow `begin`, `end`, `fail`, `consume_status`, `wait_idle`
(without a deadline) and `deinitialize`, which spins on the pending post.

### AsyncTimeline, AsyncSemaphore, AsyncMultiWait

`AsyncTimeline` is what a client of `semaphore.h` may rely on, without threads: `Advance`,
`Fail`, `Register`, `Answer` (once, with a reason that holds), `Withdraw`, `Destroy`, and the
liveness condition that a timepoint with a reason to be answered is answered or withdrawn.

`AsyncSemaphore` has the atomics and mutex-guarded fields of the semaphore, and per timepoint
its state (`acquiring`, `pending` in the heap, `detached` on a dispatch list, `answered`,
`withdrawn`). Functions: `SignalFrame` ... `Collect` (`signal`, `signal_untainted`,
`publish_untainted`, `advance_timeline`, `dispatch_timepoints`), `FailFrame` ... `FailFlush`
(`fail`), `Acquire...` and `ResolveAllocate` (`acquire_timepoint`, `resolve`, `link`),
`Dispatch` (callbacks with no lock held, the relay of a link among them), `CancelTimepoint`
(`cancel_timepoint`, `unlink`), `MarkTainted`, `MergeFrontier`, `Deinitialize`. The four-way
heap is the set of its members, a compare and swap loop is the one that succeeds, frontiers
are functions from axes to epochs and lose entries that do not fit the capacity, as `merge`
reports. The growth of the timepoint heap beyond its inline capacity may fail.

`Timeline` in `AsyncSemaphore` is the refinement mapping: the promise of a timepoint is
`waiting` from the call of `acquire_timepoint` until its callback. `ImplementsTimeline` says
that every step of the code is a step of `AsyncTimeline` or changes nothing in it, and that
promises are kept.

`AsyncMultiWait` adds the waiting thread: the poll, the registrations (one of which may be
refused after others have fired), the wait on the notification, the deadline that may expire
whenever the thread would sleep, the cancellation of what is left, and the join with
callbacks that are under way; and the callback with its four atomic steps. The notification
is the packed word of `ThreadNotification`; a sleeper may wake up spuriously. `WaitAssumption`
says that the timepoints of a multi-wait are its own, as the code allocates them per call. That
allocation, needed for more than eight operands, may fail in the code (`semaphore.c:923-927`): the
call then returns before it has registered anything, and the model leaves it out.

### AsyncFrontierTracker

State: per axis the table entry (`epoch`, `next_wait`, bridge, failure), waiters with the
axis they are indexed on, bridged semaphores, leases and joins; the tracker's mutex and
references. Functions: `Advance` ... `AdvanceDone` with `Bridge...` (`publish_bridge`) and
`Index...` (`index_next`, which re-checks the axis after it has inserted the waiter),
`Wait`, `CancelWait`, `FailAxis` (`fail_axis`, `retire_axis`), `Acquire...`, `ReleaseTimeline`
and `DropLease` (timelines), `Join...` (`join_begin` to `join_free`, with the three-party
cancellation of a failed join), `ReleaseTracker`, `FreeTracker`. Callbacks may call the
tracker again (`Reenter`). `ChunkSize` stands for the 255 entries of a compact frontier, so
that a join of two inputs already needs two chunks. Allocations that fail in `acquire_timeline` and
`join_begin` are left out: both return before anything shared has changed.

### TaskQueueOps

State: per operation its `kind`, memory, `wait_count`, error, and outcome; the ready list; the
counts and the phase of the shutdown; per agent a `pc`, the operation it works on and the
status it carries. Agents are the submitters, one callback per wait, the control process, a
compute worker, the proactor and the destroyer. Actions: `SubmitBegin` ... `Subtract`
(`submit_op_begin`, `submit_op_finish`, `enqueue_waits`, with registrations that fail half
way), `Resolve` ... `Last` (wait callbacks), `Hold` ... `Woken` (becoming ready),
`Control...` with `SignalFirst` and `HostCall` (the control process), `ComputeFinish`,
`ProactorFinish`, `CompleteOp` ... `OperationEnd` (completion and failure), `StorePhase` ...
`ShutdownUnlock` and `Close`, `Await` (shutdown).

`kind` says who finishes an operation and who settles its signal semaphores; it is chosen at
submission, from `KindsOf`.

* `inline` (barriers, transfers, deallocations and other work of the control worker), `io` (reads and writes,
  finished by the proactor) and `compute` (finished by the compute process) settle their semaphores in
  `op_complete` or `op_fail`.
* `call` is a host call (`drain_host_call`, `queue.c:1565-1625`). If its function returns OK the queue
  signals, if it returns an error the queue fails the semaphores, and if it returns DEFERRED the
  operation is destroyed with OK and the semaphores are left alone: the function has taken over
  signalling them (`hal/queue.h:537-540`). The outcome is then `deferred`.
* `post` is a NON_BLOCKING host call: it is signalled before its function runs, which it does only
  if that succeeds, and what the function returns is dropped.

Two operation types are coarser than in the code. ALLOCA may find no memory and is then scheduled
again, or failed, by callbacks of its pool; MAP runs as a process of its own. Both count as `io`:
they are finished by somebody else, later, through `op_complete` or `op_fail`.

### TaskQueueCompute

State: `compute_current` with its revision, the pending list, the free pool, per item the
`drainers` word (generation, CLOSED, RELEASE_CLAIMED, count) and its operation, and per
recording the tiles left, its error and outcome. Actions follow `compute_process_drain`:
`Enter` ... `Recheck` (registration on the published item), `ProcessorDrain`, `FinishTile`,
`Close` ... `ScheduleNext` (the worker that saw the end publishes the next item), `Leave` ...
`FinishOperation` (the last one out recycles the item), `TryBegin` ... `PromoteSchedule`,
`Return`, `ProcessRelease`; and the producer: `Acquire` ... `ScheduleRecording`. `Schedule` and `Return`
are what `TaskComputeSlots` shows of one placed process, `ProcessorDrain` and `FinishTile` what
`CmdBlockProcessor` shows of one recording. An item that cannot be allocated (`queue.c:1396-1398`)
is left out: nothing has been published by then, and the operation fails as in `TaskQueueOps`.

### CmdBlockProcessor

State: the context (`completed`, first error, `block_sequence`, current block and slot,
`next_epoch`, retention epoch), per block a state slot (region word, `remaining_tiles`, tile
counters, all with epochs), the parameter buffers of indirect commands, and `ran`, how often
each tile was executed. Actions follow `drain_multi_worker`: `DrainEnter` ... `CheckErrors`
(sampling a consistent region), `StartCommand`, `Claim`, `RunTile`, `FailTile`, `NextCommand`,
`Leave`, `Elect`, `Complete` ... `PublishRegion` (next region), `Branch` ... `Ready` (next
block), and the warm wait: `SampleRetention`, `Validated`, `WarmWake`.

The single worker path appears as `SequentialTiles`, the tiles it would execute, which is
what `ExecutesEachTileOnce` compares with. All tile counts and counters are `uint32_t` (`Wrap`), with
`TileCapacity` as UINT32_MAX: the counter a claim reserves from (`Reserve`), the product a worker
reads as its tile count (`TileCount`), the tiles it reports, and the count that is counted down. How many
tiles a claim reserves is a property of the command here (`chunk`); the code computes it from the
count, or takes it from the command (`block_processor.c:820-830`).

## 3. Runs

| Run | Instance | Distinct states | Checks |
|---|---|---|---|
| `process` | 2 processes, one waiting for the other and for an external event, 2 workers, 2 callers | 107,983 | `TypeOK`, `SingleHolder`, `NoAccessAfterRelease`, `NoLostWake`, `CompletedOnce`, `DependencyOrder`, `DependentsActivate` |
| `executor_wake` | 2 workers, 2 producers, 1 unit each | 1,012,478 | `FreeWorkerScans` |
| `executor_shutdown` | 2 workers, 1 producer, references held by the producer or by a process | 541,844 | `FinalizeIsSafe`, `ShutdownCompletes`, `WakesSettle` |
| `scope` | 2 submissions, 2 consumers | 20,002 | `StatusTakenOnce`, `TeardownCompletes` |
| `slots` | clients `Warmed`, `Advancing`, `Shared`, `Crowded`, `Roomy` of `MCTaskComputeSlots` | 889,193 | `OnePlacement`, `ReleaseIsFinal`, `AssertionsHold`, `SettledWhenQuiet` |
| `slots_stranded` | 1 slot, 2 processes, 1 worker, 2 schedulers | | `OverflowIsPromoted`: violated |
| `semaphore` | 3 threads, 2 semaphores, 3 timepoints, the scripts of `MCAsyncMultiWait` | 127,508 | `NoTimepointIsStranded`, `WaitOutlivesCallbacks`, `WaitResultIsTrue`, `ImplementsTimeline`, `WaitReturns` |
| `tracker` | 3 threads, 3 axes, 2 timelines, the scripts of `MCAsyncFrontierTracker` | 301,202 | `WaitersAreServed`, `AnswersAreTrue`, `JoinIsSound`, `StorageIsSafe`, `TrackerDrains` |
| `queue_compute` | 3 recordings, 2 items (1 pooled), 2 workers, a producer | 200,416 | `ItemsAreOwned`, `NoRecordingIsStranded`, `OutcomeIsTrue`, `EveryRecordingEnds` |
| `queue_ops` | an operation with 2 waits (I/O or a host call), one without (inline, compute or a NON_BLOCKING host call), everything may fail | 570,459 | `OperationsAreOwned`, `OutcomeIsTrue`, `ShutdownIsOrderly`, `QueueShutsDown` |
| `block_processor` | 2 workers, 6 recordings whose reservations do not wrap the tile counter | 23,002 | `ExecutesEachTileOnce`, `ClaimIsCurrent`, `CompletionIsSound`, `WarmWaiterMissesNothing`, `RecordingCompletes` |
| `block_stale` | 2 workers, a recording split into two blocks | | `ClaimIsCurrent`: violated |

### What the passing runs show

* *Ownership* (`SingleHolder`, `OnePlacement`, `ItemsAreOwned`, `OperationsAreOwned`). An
  immediate process has one holder, a compute process one placement, a compute item and an
  operation one owner, whoever races for it. The slot property includes the overlap
  that makes it subtle: a persistent process is placed again while the release of its previous
  placement is still running. The item property includes items that are recycled while a
  worker holds a stale pointer.
* *Life time* (`NoAccessAfterRelease`, `ReleaseIsFinal`, `FinalizeIsSafe`, `StatusTakenOnce`,
  `WaitOutlivesCallbacks`, `StorageIsSafe`, `ShutdownIsOrderly`). Nothing refers to a process
  after `release_fn`, to a worker after it is deinitialized, to a status after it was handed
  out, to a wait's stack after it returned, to a join after its last callback, to a queue
  after its destroyer was woken; and each is released once.
* *No wake is lost* (`NoLostWake`, `FreeWorkerScans`, `SettledWhenQuiet`,
  `NoTimepointIsStranded`, `WaitersAreServed`, `NoRecordingIsStranded`,
  `WarmWaiterMissesNothing`). Published work, values and epochs always have someone who will
  see them; if a worker blocks in a drain, another that is free takes the work.
* *Truth* (`CompletedOnce`, `DependencyOrder`, `WaitResultIsTrue`, `AnswersAreTrue`,
  `JoinIsSound`, `OutcomeIsTrue`, `CompletionIsSound`). What callbacks and semaphores say of
  an operation is what happened to it, with the first error kept. `OutcomeIsTrue` of `TaskQueueOps`
  includes host calls: semaphores left to a deferred call, or signalled before the call ran, are
  never settled by the queue again.
* *Equivalence* (`ImplementsTimeline`, `ExecutesEachTileOnce`). The semaphore code implements
  its abstract timeline; many workers execute the tiles that one would, as long as the tile
  counter does not wrap (section 4).
* *Liveness* (`DependentsActivate`, `ShutdownCompletes`, `TeardownCompletes`, `WakesSettle`,
  `WaitReturns`, `TrackerDrains`, `EveryRecordingEnds`, `QueueShutsDown`,
  `RecordingCompletes`). `WakesSettle` says that workers that relay wakes to each other do
  not keep each other awake.

### Bounds

Every bound is a constant: `MaxCalls` (calls of a producer or caller), the fields of a
`client`, `Scripts` (what threads and callbacks call, in which order), capacities and the
sizes of the sets. Two workers and two other threads are what the races need: each of
them is between one thread that decides and one that changes what the decision rests on, and
a third party that benefits or is hurt. Warm retention needs three workers (an active
drainer, a retainer within the limit, and one that arrives late); two processes and one slot
overflow; two schedulers place a process again while its release is running; more recordings
than items recycle an item; a pool of one item has to grow. In the
scripted runs each script is one scenario, chosen for a race the code has to survive; sequences
of calls outside the scripts are not explored.
Capacities are as small as the case they stand for: a frontier that holds one entry, a heap
with one inline timepoint, chunks of one entry. `block_processor` was also checked for safety
with three workers (297,189 distinct states up to their symmetry). Epochs are natural numbers; `int32`
wrap-around (`process.h:498`: after 2^32 placements the epoch 0 is taken for an empty slot)
is outside every bound. Tile counts do wrap, at `TileCapacity + 1` = 8: an underflow of the count
is visible, recording `Full` of `block_processor` has as many tiles as fit, and reservations that
reach beyond are the subject of a known limit in section 4.
Workers and other threads that are interchangeable are declared symmetric in safety runs only.

### Fairness

Only weak fairness of a thread's own steps: a thread that is inside a call, and a worker that
is awake, is run by the operating system. Callers are not obliged to call, with three
exceptions in which the property is about a shutdown: the clients of the tracker finish their
scripts, and the owner of a queue eventually lets go of it, as does that of a scope.
`executor_wake` lets a drain block for ever; `executor_shutdown` assumes that drains return,
because a join waits for them and `process.h` asks every `drain()` for a bounded amount of
work. `TaskScope` assumes that submissions end, `TaskQueueOps` that I/O completes and that the
semaphores waited for are signalled or failed: a queue with an operation that never becomes
ready cannot shut down, and the code does not claim otherwise. `TaskQueueCompute` assumes that
some worker enters a placed process, which is what `TaskExecutor` and `TaskComputeSlots` show.

## 4. Disagreements between code and documentation

Two runs state what a comment says and TLC refutes it.

* `slots_stranded`. `executor.c:370-371`: "a releasing worker will promote this process into a
  slot when one becomes available". `place_in_compute_slot` finds every slot taken and pushes
  to the overflow list afterwards; in between every slot may have been released with the list
  still empty. Nobody promotes the process until some other compute process is released.
* `block_stale`. `block_processor.h:23-26`: "Tile counters and remaining_tiles carry epoch tags
  so stale workers from an earlier region fail their next claim". The counters of a block's
  last region keep their epoch when the next block takes over. A worker stalled before it
  reads the size of an indirect command of that region reads what the next block has stored
  and claims tiles that do not exist. Within a block the tags do what the comment says.

### Known limits

The models contain further behaviours that a reader of the comments may not expect. No run is
kept for them; each is a short argument about the named lines.

* `worker.c:971` and 1013: the last drainer of a finished process holds the sentinel, sees a
  warm retainer and leaves the release to it; the retainer has just decided to rejoin, fails
  to because of the sentinel, and sleeps. The process stays in its slot until an unrelated
  wake. (`TaskComputeSlots` with `Clients <- Rejoining` violates `TerminalIsReleased`, which
  states `process.h:215-217`; `SettledWhenQuiet` excepts processes that elect a drainer.)
* `block_processor.c:947`: `new_counter = counter + tiles_per_reservation` is a `uint32_t` sum that is
  compared with `tile_count` afterwards. `iree_hal_cmd_dispatch_calculate_tile_count` admits up to
  UINT32_MAX tiles (`block_isa.h:83-97`, tested in `block_isa_test.cc:629-645`), and with the automatic
  reservation of 8 tiles the claim at 0xFFFFFFF8 of a dispatch of more than 2^32 - 8 tiles stores 0. The
  counter restarts: tiles run again, the last ones never do, and the claim loop does not end. Explicit
  reservations wrap as soon as the last of them ends above UINT32_MAX. The model does the
  same: with `Recordings <- WrappingRecordings` TLC violates `ExecutesEachTileOnce`, and
  `RecordingCompletes` in the claim loop, while `ClaimIsCurrent`, `CompletionIsSound` and
  `WarmWaiterMissesNothing` still hold. `block_processor_test.cc:1646` expects that "Every tile should
  have written its ID exactly once", of 1024 tiles. Run `block_processor` covers the recordings below
  this boundary. The comment at `block_isa.h:81` says that the volume is computed "without wrapping the 32-bit
  tile counter", and the volume is; the reservations are not covered by it.
* `process.c:213`: `complete` tests for a terminal state and stores COMPLETED in two steps, so
  a concurrent `cancel` can be overwritten. The error it recorded is still reported.
* `process.c:303`: `cancel` of a RUNNABLE process whose `schedule_state` is IDLE only stores
  CANCELLED. Nothing drains it again, as `schedule_process` returns early for a
  terminal process, whereas `task/README.md:122` says "If the process is sleeping, cancellation wakes
  it". At this commit only tests call `cancel`.
* `process.c:299`: `cancel` of a SUSPENDED process calls `completion_fn` and never
  `release_fn`.
* `process.c:194`: `slist_next` links both the activated chain that `resolve` returns and the
  immediate list. A third thread that schedules a dependent before its activator does would
  relink the chain the activator is walking; the model has the precondition that nobody does.
* `worker.c:406`: a promotion takes the first free slot, and the releaser then wakes workers
  only for the slot it released itself; with two or more slots they may differ.
* `worker.c:1225`: a worker that is asked to exit before it starts counts itself idle twice
  (`worker_idle_count` is only traced).
* `scope.c:149`: `pending_idle_notification_posts` is a flag that each `end` clears; an `end`
  that is slow to clear it can hide the post of the next submission from `deinitialize`.
* `desired_wake` may stay positive when everybody sleeps; the next pump iterations use it up.
* `semaphore.c:581`: the untainted watermark is one value; an untainted signal of a later
  value covers an earlier tainted one, as `async/cts/sync/semaphore_sync_test.cc` expects.
* `semaphore.c:985`: a wait whose deadline expires does not read its condition again and may
  report DEADLINE_EXCEEDED although every operand is reached.
* `executor.c:31-42`: workers may have different amounts of local memory. `CmdBlockProcessor`
  gives all the same: a dispatch that needs too much fails on every worker.
* `queue.c`: the release callback of the compute process cancels recordings that are still
  pending or published; `NoRecordingIsStranded` shows that there are none by then.

## 5. Proofs

Each `...Proofs` module extends the module it is about and holds one inductive invariant, the
lemmas that every action preserves its parts, and the theorems. A theorem holds for every
value of the constants that satisfies the named `ASSUME`s of the model; the runs of section 3
check the same definitions on small instances.

| Module | Theorem | Statement |
|---|---|---|
| `TaskProcessProofs` | `Invariance` | `Spec => []FullInv`, the inductive invariant |
| | `TypeCorrectness` | `Spec => []TypeOK` |
| | `ExclusiveOwnership` | `Spec => []SingleHolder` |
| | `ReleaseIsFinalAccess` | `Spec => []NoAccessAfterRelease` |
| | `CompletionAtMostOnce` | `Spec => []CompletedOnce` |
| | `WakesAreKept` | `Spec => []NoLostWake` |
| | `DependenciesAreKept` | `Spec => []DependencyOrder` |
| `TaskExecutorProofs` | `WorkFindsFreeWorkers` | `Spec => []FreeWorkerScans` |
| | `SafeFinalization` | `Spec => []FinalizeIsSafe` |
| `TaskComputeSlotsProofs` | `OnePlacementAtATime` | `Spec => []OnePlacement` |
| | `ReleaseFinality` | `Spec => []ReleaseIsFinal` |
| | `AssertionsAreSound` | `Spec => []AssertionsHold` |
| `TaskScopeProofs` | `StatusOwnership` | `Spec => []StatusTakenOnce` |
| `AsyncSemaphoreProofs` | `NothingIsStranded` | `Spec => []NoTimepointIsStranded` |
| | `ImplementsTimelineSafely` | `Spec => TimelineSafety`: the refinement of `AsyncTimeline` without its fairness |
| `AsyncMultiWaitProofs` | `WaitStrandsNothing` | `WaitSpec => []NoTimepointIsStranded` |
| | `WaitOutlives` | `WaitSpec => []WaitOutlivesCallbacks` |
| | `WaitIsTruthful` | `WaitSpec => []WaitResultIsTrue` |
| | `WaitImplementsTimelineSafely` | `WaitSpec => TimelineSafety` |
| `TaskQueueOpsProofs` | `OneOwnerAtATime` | `Spec => []OperationsAreOwned` |
| | `OrderlyShutdown` | `Spec => []ShutdownIsOrderly` |
| | `TrueOutcome` | `Spec => []OutcomeIsTrue`, for operations of all five kinds |
| `TaskQueueComputeProofs` | `ItemsStayOwned` | `Spec => []ItemsAreOwned` |
| | `NoneStranded` | `Spec => []NoRecordingIsStranded` |
| | `TrueOutcomes` | `Spec => []OutcomeIsTrue` |

Every module has a theorem `Invariance` (`Spec => []Inv`; `WaitInvariance` in
`AsyncMultiWaitProofs`) from which the others follow. None of
the properties is inductive as it stands; the strengthenings say why the code works:

**TaskProcess.** Assumptions: workers and callers are disjoint, the processes are finite and
`NoProcess` is none of them, the constants have their types. `FullInv` is the conjunction of

* `ControlInv`: a worker holds a process exactly between pop and sleep or release; which
  thread can be at which operation.
* `Custody`: an IDLE process is on no list and has no holder (so whoever leaves IDLE may
  enqueue it), a released process never is IDLE (so a late wake enqueues nothing), with
  `SingleHolder` and `NoAccessAfterRelease`.
* `Resolution`: a suspended process was never scheduled; a canceller resolves only what it
  took out of SUSPENDED; whatever is queued or being drained is unresolved; a resolved process
  is never IDLE unless it was never scheduled; with `CompletedOnce`. This is why the
  resolution by a canceller and by a worker exclude each other.
* `Delivery`: a busy process is on the list, held or released (so a scheduler that finds it
  busy may leave), and only terminal processes are released; with `NoLostWake`.

`DependenciesAreKept` adds `OrderInv`: `suspend_count` is the number of predecessors not yet
resolved, plus the wakes under way, plus the wakes the client still owes.

**TaskExecutor.** Assumptions: at least one worker, finitely many producers, positive wake
budgets and fanout. The part `WakeInv` is a counting argument. Published units that a sleeping
worker has missed are no more than the publishers that still have that sleeper in view plus the
workers that come to scan (`UnitsAreCovered`); an enrolled worker can be found in the idle mask
or is about to be posted (`EnrolledIsReachable`). So when nobody publishes and nobody comes, an
unwoken sleeper has missed nothing. `ShutdownInv` follows the last reference: nothing of the
shutdown happens before it is dropped (`CalmInv`), one thread destroys, `live_worker_count`
counts the workers that have not left, a zombie is past its last access, and `finalize` joins
before it deinitializes.

**TaskComputeSlots.** Assumptions: workers and schedulers are disjoint and finitely many, the
clients have their type, and a process has at most one upstream (the model activates a
dependent when its upstream completes; suspend counts are the subject of `TaskProcess`). The
count in `active_drainers` is the number of registered workers (`CountInv`), the sentinel has
one holder and nobody drains beside it (`HolderInv`, `SentinelInv`). A worker that drains,
arbitrates or waits warm therefore finds its process in its slot, with the generation it read
(`PinInv`), and whoever still has the current epoch of a process it took out of a slot is the
only one to put it to sleep (`EpochInv`): a process is in a slot, in the hands of one thread,
in the overflow list or on its way to IDLE, one of them at a time, and terminal processes are
placed no more (`LocInv`). `compute_placement_state` counts the slot, the thread about to fill
one and the workers still leaving (`ClaimInv`), so its last claim is the last access.
`warm_retainers` counts the warm workers and is zero beside a release (`WarmInv`); the process
of a slot is completed once, by the worker that claimed it (`CompletionInv`).

**TaskScope.** Assumption: finitely many submissions. `pending_submissions` counts the open
submissions; a status that is in the scope has not been taken; a consumer retries only with a
failure.

**AsyncSemaphore.** Assumptions: finitely many semaphores and timepoints, `Scripts` contains
sequences of calls for each thread. The heap of a semaphore holds exactly its pending
timepoints (`HeapInv`); every frame of every stack has what its next step relies on
(`FrameInv`); no two frames answer for the same timepoint (`ClaimInv`), so a callback and a
cancellation exclude each other; a value published while a registration holds the lock is
still collected by its signaller (`InsertInv`), which closes the race of the lock-free signal
with a registration. The refinement is then one step of `AsyncTimeline` or a stutter for each
action.

**AsyncMultiWait.** Assumptions: those of `AsyncSemaphore`, and `WaitAssumption`: the
timepoints of a multi-wait are its own (the code allocates them for the call), one per operand;
it has operands (for none the code returns at once); and deadline and refusal are none of the
statuses clients fail semaphores with. The lemmas of `AsyncSemaphoreProofs` are stated for
stacks that may hold the frames of a multi-wait, so `Inv` is kept by every step; `WInv` says of
the waits that

* the frame of a wait is the outermost of its thread, and how far each operand has come follows
  from its pc and its counters (`BaseInv`, `PhaseOK`);
* an operand is *active* from its registration until the cleanup has passed it. Timepoints that
  are not active are with their owner (`QuietOK`), timepoints under way are active
  (`ActiveInv`), and a callback that runs belongs to an active operand whose callback is not
  completed (`CallbackInv`). The join can therefore not pass a running callback, which is
  `WaitOutlivesCallbacks`;
* `remaining` is the number of operands minus the callbacks that have counted (`CountOK`); a
  callback with a failure is recorded before it is counted, and a recorded failure is that of
  an operand (`FailureOK`); an answered operand says why, and the reason still holds, since
  timelines only grow and the first failure stays (`OperandOK`). So what the condition finds is
  so when the wait returns (`StatusOK`, `PollOK`), which is `WaitResultIsTrue`.

`ListInv` (every detached timepoint is on a dispatch list) and `SizeInv` (the heap fits its
allocation, the watermark does not pass the timeline) complete `OneOwner` and `TypeOK`.

**TaskQueueOps.** Assumption: the operations are finitely many. `pending_operation_count` is
the number of live arenas plus the references of agents (`CountInv`), `wait_count` the waits
outstanding or still to be registered (`WaitInv`), `pending_shutdown_count` who has not
retired (`RetireInv`); nobody owns an operation before its waits are over (`OwnerInv`); the
last to retire is alone (`FinalInv`). `OutcomeInv` has a part for every owner (`Settles`): a failed
wait stays on record until the last wait
acts on it, an owner on its way to signal or fail the semaphores finds them untouched, and one on
its way to free the operation has settled them, left them to a deferred host call, or discards it. So an
outcome is decided once, by whoever owns the operation at that moment.

**TaskQueueCompute.** Assumptions: finitely many workers, the control thread is none of them,
the pool and the ready list are sequences without repetitions, `None` is no item, recording or
outcome. The odd revision is a lock with one holder (`LockInv`), and a thread whose snapshot of
it is current knows that nobody publishes and that the item it saw is still the published one,
with the generation it read (`SnapshotInv`): this is why a worker whose recheck succeeds has
registered with the right recording. A registered worker keeps its item from being claimed,
one worker replaces a closed current item, one releases a claimed item (`ItemInv`); the owners
of an item exclude each other (`OwnerInv`); a closed recording has no tile left (`TileInv`); a
recording is ready, attached to one item or carried by one worker (`AttachInv`); the shutdown
begins after everything has ended (`PhaseInv`). `CoverInv` says who will find what is published
or pending: the producer that has not scheduled yet, a `needs_drain` that is still set, a
worker that will report work or that still has to look, or a placed process nobody has entered.

The inductive invariants were checked by TLC on small instances before they were proved.

Only model-checked: all liveness properties (liveness under fairness and `ENABLED` are beyond
the proof system), with them the fairness part of the refinement of `AsyncTimeline`; all properties of `AsyncFrontierTracker` and
`CmdBlockProcessor`; `SettledWhenQuiet` of `TaskComputeSlots`. Five of these are not theorems
because they do not hold for every client, and the runs check them for the clients they name:

* `ClaimIsCurrent`, `CompletionIsSound` and `ExecutesEachTileOnce` of `CmdBlockProcessor` fail
  for recordings whose next block changes the size of a command of the last region (run
  `block_stale` shows the first; the other two fail on the same instance);
* `ExecutesEachTileOnce` and `RecordingCompletes` fail for recordings with a reservation that ends
  above UINT32_MAX (section 4);
* `SettledWhenQuiet` fails for one worker, two slots and three processes that nothing schedules
  again: the release of slot 2 promotes the third process into slot 1, which the worker has
  already scanned, finds slot 2 empty and wakes nobody (`worker.c:406`, section 4). Its clients
  with an overflow have one slot, where the promotion lands in the slot that is released.

The properties of `AsyncFrontierTracker` rest on what its users promise (a waiter is not reused
while it is pending, a semaphore is dropped only after its axis is retired, every thread holds a reference). The
scripts of the instances obey this and no guard of the module states it, so a proof for all
scripts would first need these promises as assumptions.

## 6. Plan

Done: the models of section 2, and the proofs of section 5. Next, in this order:

1. The promises of the users of `AsyncFrontierTracker` as assumptions on its scripts, then
   `WaitersAreServed` and `StorageIsSafe` from them.
2. `ClaimIsCurrent` and with it `ExecutesEachTileOnce` of `CmdBlockProcessor`, for recordings
   of one block whose reservations do not wrap.

Smaller items of the models: failure inside `iree_task_executor_create`, a worker that exits
while it waits warm, deadlines of `wait_idle`, the fences a semaphore imports and exports.

## 7. Not modelled

Device drivers (their behaviour depends on hardware and kernels outside the repository),
proactors, sockets and files (thin layers over the operating system), HAL objects (reference
counts and argument checks), network sessions (a candidate once the contract of the proactor
is stated), bindings, tokenizer, vm and the compiler (sequential), topology and flags
(parsing), `task/owner.c` (one compare and swap), `task/list.c` (unused), and within the
modelled files: the command builder and its instruction format, the transient buffer pool of
the queue, profiling and tracing. `PROJECT.json` gives the reason for each. The models cover
the concurrent core and a small share of a repository of two million lines, most of it
sequential compiler, generated bindings and device support code to which this
method has little to add.
