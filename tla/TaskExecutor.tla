---------------------------- MODULE TaskExecutor ----------------------------
(***************************************************************************)
(* How the workers of runtime/src/iree/task fall asleep, are woken and are *)
(* shut down:                                                              *)
(*                                                                         *)
(*   executor.c      iree_task_executor_wake_workers, _release, _destroy,  *)
(*                   _worker_exit, _finalize;                              *)
(*   worker.c        iree_task_worker_main, _pump_until_exit, _relay_wake, *)
(*                   _mark_active, _mark_idle, _request_exit, _await_exit, *)
(*                   _deinitialize;                                        *)
(*   notification.c  prepare_wait, commit_wait, cancel_wait, post, await.  *)
(*                                                                         *)
(* One action is one atomic operation.  Atomics are sequentially           *)
(* consistent.  The work itself is abstract: a counter of published units  *)
(* that a scan takes one by one (the immediate list of module TaskProcess; *)
(* a compute slot of module TaskComputeSlots).  A notification is its      *)
(* epoch: post advances it and a wait committed with a token returns once  *)
(* the epoch differs from the token.  A cancelled or finished wait leaves  *)
(* nothing behind but the waiter count, which is not represented.          *)
(***************************************************************************)
EXTENDS Integers, FiniteSets

CONSTANTS
  WorkerCount,   \* executor->worker_count
  Producers,     \* threads that schedule work; each owns a reference at first
  Budgets,       \* the counts wake_workers is called with
  WakeFanout,    \* IREE_TASK_WAKE_FANOUT
  Releasers,     \* the producers that drop their reference at some point
  Keeps,         \* whether processes may own references: a set of BOOLEANs
  MaxCalls       \* bound: thread -> schedule calls it makes

Workers == 1 .. WorkerCount
Threads == Workers \cup Producers

ASSUME WorkerAssumption == WorkerCount \in Nat \ {0} /\ Workers \cap Producers = {}
ASSUME BudgetAssumption ==
  /\ Budgets \subseteq Nat \ {0}
  /\ WakeFanout \in Nat \ {0}
  /\ MaxCalls \in [Threads -> Nat]
  /\ IsFiniteSet(Producers) /\ Releasers \subseteq Producers
  /\ Keeps \subseteq BOOLEAN

VARIABLES
  pending,        \* published units of work that no worker has taken
  wakeEpoch,      \* executor->wake_epoch
  idleMask,       \* executor->worker_idle_mask
  idleCount,      \* executor->worker_idle_count
  desiredWake,    \* executor->desired_wake
  notifyEpoch,    \* worker -> epoch of its wake_notification
  workerState,    \* worker -> RUNNING | EXITING | ZOMBIE
  stateEpoch,     \* worker -> epoch of its state_notification
  refCount,       \* executor->ref_count
  givenRefs,      \* references owned by processes, dropped by their drains
  releaseOnExit,  \* executor->shutdown.release_on_exit
  liveWorkers,    \* executor->shutdown.live_worker_count
  deinitialized,  \* workers whose notifications are gone
  freed,          \* the executor's storage was freed
  pc,             \* thread -> the operation it performs next
  token,          \* thread -> token of its prepared wait
  epochSeen,      \* worker -> wake_epoch read before the scan
  isActive,       \* worker -> is_active of pump_until_exit
  didWork,        \* worker -> did_work of pump_until_exit
  relaying,       \* the workers inside relay_wake
  mask,           \* thread -> its snapshot of idle_mask
  remaining,      \* thread -> wakes it still has to deliver
  budget,         \* thread -> count given to wake_workers
  target,         \* thread -> worker it has claimed and is about to post
  exitMode,       \* worker -> release_on_exit as read by worker_exit
  exitIndex,      \* loop index of destroy and finalize
  awaiting,       \* destroy is in its second loop
  callsLeft       \* thread -> remaining schedule calls

wakeVars == <<pending, wakeEpoch, idleMask, idleCount, desiredWake, notifyEpoch>>
shutdownVars == <<workerState, stateEpoch, refCount, givenRefs, releaseOnExit,
                  liveWorkers, deinitialized, freed, exitMode, exitIndex, awaiting>>
pumpVars == <<token, epochSeen, isActive, didWork>>
claimVars == <<relaying, mask, remaining, budget, target>>
vars == <<wakeVars, shutdownVars, pumpVars, claimVars, pc, callsLeft>>

WakePcs == {"bump", "load_mask", "claim", "post", "demand", "seed"}
PumpPcs == {"start", "prepare", "snapshot", "mark_active", "relay", "check_exit",
            "scan", "drain", "mark_idle", "recheck", "asleep"}
ExitPcs == {"exit_idle", "zombie", "post_state", "exit_mode", "exit_count"}
RequestPcs == {"request", "restore", "request_post"}
AwaitPcs == {"await", "await_prepare", "await_recheck", "await_sleep"}
Pcs == WakePcs \cup PumpPcs \cup ExitPcs \cup RequestPcs \cup AwaitPcs
         \cup {"ready", "destroy", "finalize", "done"}

TypeOK ==
  /\ pending \in Nat /\ wakeEpoch \in Nat
  /\ idleMask \subseteq Workers /\ idleCount \in Int /\ desiredWake \in Nat
  /\ notifyEpoch \in [Workers -> Nat] /\ stateEpoch \in [Workers -> Nat]
  /\ workerState \in [Workers -> {"RUNNING", "EXITING", "ZOMBIE"}]
  /\ refCount \in Nat /\ givenRefs \in Nat
  /\ releaseOnExit \in BOOLEAN /\ liveWorkers \in Int
  /\ deinitialized \subseteq Workers /\ freed \in BOOLEAN
  /\ pc \in [Threads -> Pcs]
  /\ token \in [Threads -> Nat] /\ epochSeen \in [Workers -> Nat]
  /\ isActive \in [Workers -> BOOLEAN] /\ didWork \in [Workers -> BOOLEAN]
  /\ relaying \subseteq Workers
  /\ mask \in [Threads -> SUBSET Workers]
  /\ remaining \in [Threads -> Nat] /\ budget \in [Threads -> Nat]
  /\ target \in [Threads -> Workers]
  /\ exitMode \in [Workers -> BOOLEAN]
  /\ exitIndex \in 1 .. WorkerCount + 1 /\ awaiting \in BOOLEAN
  /\ callsLeft \in [Threads -> Nat]

----------------------------------------------------------------------------
(* iree_task_executor_create: every worker is enrolled as idle and live    *)
(* before its thread starts.                                               *)
Init ==
  /\ pending = 0 /\ wakeEpoch = 0 /\ desiredWake = 0
  /\ idleMask = Workers /\ idleCount = WorkerCount
  /\ notifyEpoch = [w \in Workers |-> 0] /\ stateEpoch = [w \in Workers |-> 0]
  /\ workerState = [w \in Workers |-> "RUNNING"]
  /\ refCount = Cardinality(Producers) /\ givenRefs = 0
  /\ releaseOnExit = FALSE /\ liveWorkers = WorkerCount
  /\ deinitialized = {} /\ freed = FALSE
  /\ pc = [t \in Threads |-> IF t \in Workers THEN "start" ELSE "ready"]
  /\ token = [t \in Threads |-> 0] /\ epochSeen = [w \in Workers |-> 0]
  /\ isActive = [w \in Workers |-> FALSE] /\ didWork = [w \in Workers |-> FALSE]
  /\ relaying = {}
  /\ mask = [t \in Threads |-> {}]
  /\ remaining = [t \in Threads |-> 0] /\ budget = [t \in Threads |-> 0]
  /\ target = [t \in Threads |-> 1]
  /\ exitMode = [w \in Workers |-> FALSE]
  /\ exitIndex = 1 /\ awaiting = FALSE
  /\ callsLeft = MaxCalls

Goto(t, from, to) == pc[t] = from /\ pc' = [pc EXCEPT ![t] = to]

\* iree_notification_post: advances the epoch, whether or not someone waits.
Post(w) == notifyEpoch' = [notifyEpoch EXCEPT ![w] = @ + 1]

\* The locals of wake_workers and relay_wake go out of scope.
ForgetClaims(t) ==
  /\ mask' = [mask EXCEPT ![t] = {}]
  /\ remaining' = [remaining EXCEPT ![t] = 0]
  /\ budget' = [budget EXCEPT ![t] = 0]
  /\ target' = [target EXCEPT ![t] = 1]

\* Where a call into the executor returns to.
CallerPc(t) == IF t \in Workers THEN "drain" ELSE "ready"

----------------------------------------------------------------------------
(* schedule_process publishes work and calls wake_workers(count).  Workers *)
(* do so from inside a drain.                                              *)

\* The process may own a reference to the executor (keep), which the worker
\* that drains it drops.
CallSchedule(t, count, keep) ==
  /\ Goto(t, CallerPc(t), "bump")
  /\ callsLeft[t] > 0
  /\ callsLeft' = [callsLeft EXCEPT ![t] = @ - 1]
  /\ keep => refCount > 0
  /\ refCount' = refCount + (IF keep THEN 1 ELSE 0)
  /\ givenRefs' = givenRefs + (IF keep THEN 1 ELSE 0)
  /\ pending' = pending + 1
  /\ budget' = [budget EXCEPT ![t] = count]
  /\ remaining' = [remaining EXCEPT ![t] = count]
  /\ UNCHANGED <<wakeEpoch, idleMask, idleCount, desiredWake, notifyEpoch, pumpVars,
                 workerState, stateEpoch, releaseOnExit, liveWorkers, deinitialized,
                 freed, exitMode, exitIndex, awaiting, relaying, mask, target>>

AdvanceWakeEpoch == wakeEpoch' = wakeEpoch + 1

WakeBump(t) ==
  /\ Goto(t, "bump", "load_mask")
  /\ AdvanceWakeEpoch
  /\ UNCHANGED <<pending, idleMask, idleCount, desiredWake, notifyEpoch, shutdownVars,
                 pumpVars, claimVars, callsLeft>>

WakeLoadMask(t) ==
  /\ Goto(t, "load_mask", "claim")
  /\ mask' = [mask EXCEPT ![t] = idleMask]
  /\ UNCHANGED <<wakeVars, shutdownVars, pumpVars, relaying, remaining, budget, target,
                 callsLeft>>

\* The claim loop, shared by wake_workers and relay_wake: w is the first
\* worker of the snapshot.
First(t, w) == w \in mask[t] /\ \A v \in mask[t] : w <= v

\* Mutant of Enrolled: the snapshot is trusted and the bit is not claimed.
EnrolledInSnapshot(w) == w \in Workers

\* The atomic clear finds the bit still set.
Enrolled(w) == w \in idleMask

ClaimBit(t, w) ==
  /\ Goto(t, "claim", "post")
  /\ remaining[t] > 0 /\ First(t, w) /\ Enrolled(w)
  /\ mask' = [mask EXCEPT ![t] = @ \ {w}]
  /\ idleMask' = idleMask \ {w}
  /\ target' = [target EXCEPT ![t] = w]
  /\ UNCHANGED <<pending, wakeEpoch, idleCount, desiredWake, notifyEpoch, shutdownVars,
                 pumpVars, relaying, remaining, budget, callsLeft>>

ClaimMiss(t, w) ==
  /\ pc[t] = "claim" /\ UNCHANGED pc
  /\ remaining[t] > 0 /\ First(t, w) /\ ~Enrolled(w)
  /\ mask' = [mask EXCEPT ![t] = @ \ {w}]
  /\ UNCHANGED <<wakeVars, shutdownVars, pumpVars, relaying, remaining, budget, target,
                 callsLeft>>

ClaimPost(t) ==
  /\ Goto(t, "post", "claim")
  /\ Post(target[t])
  /\ remaining' = [remaining EXCEPT ![t] = @ - 1]
  /\ UNCHANGED <<pending, wakeEpoch, idleMask, idleCount, desiredWake, shutdownVars,
                 pumpVars, relaying, mask, budget, target, callsLeft>>

\* Every wake was delivered, or the snapshot is exhausted.
WakeDelivered(t) ==
  /\ Goto(t, "claim", CallerPc(t))
  /\ t \notin relaying /\ remaining[t] = 0
  /\ ForgetClaims(t)
  /\ UNCHANGED <<wakeVars, shutdownVars, pumpVars, relaying, callsLeft>>

WakeExhausted(t) ==
  /\ Goto(t, "claim", "demand")
  /\ t \notin relaying /\ remaining[t] > 0 /\ mask[t] = {}
  /\ UNCHANGED <<wakeVars, shutdownVars, pumpVars, claimVars, callsLeft>>

\* No idle worker was claimed: someone has to loop and pick up the demand.
NeedsSeed(t) == remaining[t] = budget[t]

WakeDemand(t) ==
  /\ Goto(t, "demand", IF NeedsSeed(t) THEN "seed" ELSE CallerPc(t))
  /\ desiredWake' = desiredWake + remaining[t]
  /\ ForgetClaims(t)
  /\ UNCHANGED <<pending, wakeEpoch, idleMask, idleCount, notifyEpoch, shutdownVars,
                 pumpVars, relaying, callsLeft>>

\* live_mask is never cleared, so the first live worker is the first worker.
WakeSeed(t) ==
  /\ Goto(t, "seed", CallerPc(t))
  /\ Post(1)
  /\ UNCHANGED <<pending, wakeEpoch, idleMask, idleCount, desiredWake, shutdownVars,
                 pumpVars, claimVars, callsLeft>>

----------------------------------------------------------------------------
(* iree_task_worker_main and iree_task_worker_pump_until_exit.             *)

WorkerStart(w) ==
  /\ Goto(w, "start", IF workerState[w] = "EXITING" THEN "exit_idle" ELSE "prepare")
  /\ workerState' = [workerState EXCEPT ![w] = "RUNNING"]
  /\ UNCHANGED <<wakeVars, pumpVars, claimVars, callsLeft, stateEpoch, refCount,
                 givenRefs, releaseOnExit, liveWorkers, deinitialized, freed, exitMode,
                 exitIndex, awaiting>>

PrepareWait(w) ==
  /\ Goto(w, "prepare", "snapshot")
  /\ token' = [token EXCEPT ![w] = notifyEpoch[w]]
  /\ didWork' = [didWork EXCEPT ![w] = FALSE]
  /\ UNCHANGED <<wakeVars, shutdownVars, epochSeen, isActive, claimVars, callsLeft>>

\* Mutant of ReadEpoch: the epoch is read once, before the loop.
ReadEpochOnce(w) == UNCHANGED epochSeen

ReadEpoch(w) == epochSeen' = [epochSeen EXCEPT ![w] = wakeEpoch]

SnapshotEpoch(w) ==
  /\ Goto(w, "snapshot", IF isActive[w] THEN "relay" ELSE "mark_active")
  /\ ReadEpoch(w)
  /\ UNCHANGED <<wakeVars, shutdownVars, token, isActive, didWork, claimVars, callsLeft>>

\* The bit and the count are two atomics; nobody reads the count but tracing.
MarkActive(w) ==
  /\ Goto(w, "mark_active", "relay")
  /\ idleMask' = idleMask \ {w}
  /\ idleCount' = idleCount - 1
  /\ isActive' = [isActive EXCEPT ![w] = TRUE]
  /\ UNCHANGED <<pending, wakeEpoch, desiredWake, notifyEpoch, shutdownVars, token,
                 epochSeen, didWork, claimVars, callsLeft>>

Share(demand) == IF demand > WakeFanout THEN WakeFanout ELSE demand

\* The CAS loop that takes a share of the demand; the snapshot of the idle
\* mask that follows is an action of its own.
RelayClaim(w) ==
  /\ Goto(w, "relay", IF desiredWake > 0 THEN "load_mask" ELSE "check_exit")
  /\ desiredWake' = desiredWake - Share(desiredWake)
  /\ remaining' = [remaining EXCEPT ![w] = Share(desiredWake)]
  /\ relaying' = IF desiredWake > 0 THEN relaying \cup {w} ELSE relaying
  /\ UNCHANGED <<pending, wakeEpoch, idleMask, idleCount, notifyEpoch, shutdownVars,
                 pumpVars, mask, budget, target, callsLeft>>

\* The wakes that found no idle worker are dropped.
RelayDone(w) ==
  /\ Goto(w, "claim", "check_exit")
  /\ w \in relaying /\ (remaining[w] = 0 \/ mask[w] = {})
  /\ relaying' = relaying \ {w}
  /\ ForgetClaims(w)
  /\ UNCHANGED <<wakeVars, shutdownVars, pumpVars, callsLeft>>

CheckExit(w) ==
  /\ Goto(w, "check_exit", IF workerState[w] = "EXITING" THEN "exit_idle" ELSE "scan")
  /\ UNCHANGED <<wakeVars, shutdownVars, pumpVars, claimVars, callsLeft>>

ScanTake(w) ==
  /\ Goto(w, "scan", "drain")
  /\ pending > 0
  /\ pending' = pending - 1
  /\ didWork' = [didWork EXCEPT ![w] = TRUE]
  /\ UNCHANGED <<wakeEpoch, idleMask, idleCount, desiredWake, notifyEpoch, shutdownVars,
                 token, epochSeen, isActive, claimVars, callsLeft>>

ScanEmpty(w) ==
  /\ pending = 0
  /\ Goto(w, "scan", IF didWork[w] THEN "prepare" ELSE "mark_idle")
  /\ UNCHANGED <<wakeVars, shutdownVars, pumpVars, claimVars, callsLeft>>

DrainReturn(w) ==
  /\ Goto(w, "drain", "scan")
  /\ UNCHANGED <<wakeVars, shutdownVars, pumpVars, claimVars, callsLeft>>

Enroll(w) == idleMask' = idleMask \cup {w}

MarkIdle(w) ==
  /\ Goto(w, "mark_idle", "recheck")
  /\ Enroll(w)
  /\ idleCount' = idleCount + 1
  /\ isActive' = [isActive EXCEPT ![w] = FALSE]
  /\ UNCHANGED <<pending, wakeEpoch, desiredWake, notifyEpoch, shutdownVars, token,
                 epochSeen, didWork, claimVars, callsLeft>>

\* Nothing was published since the worker read the epoch.
MayCommit(w) == wakeEpoch = epochSeen[w]

RecheckEpoch(w) ==
  /\ Goto(w, "recheck", IF MayCommit(w) THEN "asleep" ELSE "prepare")
  /\ UNCHANGED <<wakeVars, shutdownVars, pumpVars, claimVars, callsLeft>>

CommitWait(w) ==
  /\ notifyEpoch[w] # token[w]
  /\ Goto(w, "asleep", "prepare")
  /\ UNCHANGED <<wakeVars, shutdownVars, pumpVars, claimVars, callsLeft>>

----------------------------------------------------------------------------
(* The end of iree_task_worker_main and iree_task_executor_worker_exit.    *)

ExitMarkIdle(w) ==
  /\ Goto(w, "exit_idle", "zombie")
  /\ idleMask' = idleMask \cup {w}
  /\ idleCount' = idleCount + 1
  /\ UNCHANGED <<pending, wakeEpoch, desiredWake, notifyEpoch, shutdownVars, pumpVars,
                 claimVars, callsLeft>>

ExitZombie(w) ==
  /\ Goto(w, "zombie", "post_state")
  /\ workerState' = [workerState EXCEPT ![w] = "ZOMBIE"]
  /\ UNCHANGED <<wakeVars, pumpVars, claimVars, callsLeft, stateEpoch, refCount,
                 givenRefs, releaseOnExit, liveWorkers, deinitialized, freed, exitMode,
                 exitIndex, awaiting>>

ExitPostState(w) ==
  /\ Goto(w, "post_state", "exit_mode")
  /\ stateEpoch' = [stateEpoch EXCEPT ![w] = @ + 1]
  /\ UNCHANGED <<wakeVars, pumpVars, claimVars, callsLeft, workerState, refCount,
                 givenRefs, releaseOnExit, liveWorkers, deinitialized, freed, exitMode,
                 exitIndex, awaiting>>

ExitReadMode(w) ==
  /\ Goto(w, "exit_mode", "exit_count")
  /\ exitMode' = [exitMode EXCEPT ![w] = releaseOnExit]
  /\ UNCHANGED <<wakeVars, pumpVars, claimVars, callsLeft, workerState, stateEpoch,
                 refCount, givenRefs, releaseOnExit, liveWorkers, deinitialized, freed,
                 exitIndex, awaiting>>

\* fetch_sub(live_worker_count) returned one.
LastToLeave == liveWorkers = 1

ExitCount(w) ==
  /\ Goto(w, "exit_count", IF LastToLeave /\ exitMode[w] THEN "finalize" ELSE "done")
  /\ liveWorkers' = liveWorkers - 1
  /\ exitIndex' = IF LastToLeave /\ exitMode[w] THEN 1 ELSE exitIndex
  /\ UNCHANGED <<wakeVars, pumpVars, claimVars, callsLeft, workerState, stateEpoch,
                 refCount, givenRefs, releaseOnExit, deinitialized, freed, exitMode,
                 awaiting>>

----------------------------------------------------------------------------
(* iree_task_executor_release and iree_task_executor_destroy.              *)

ReleaseReference(t) ==
  /\ refCount > 0
  /\ refCount' = refCount - 1
  /\ UNCHANGED <<wakeVars, pumpVars, claimVars, callsLeft, workerState, stateEpoch,
                 releaseOnExit, liveWorkers, deinitialized, freed, exitMode, exitIndex,
                 awaiting>>

\* A producer is done with the executor.
ProducerRelease(t) ==
  /\ Goto(t, "ready", IF refCount = 1 THEN "destroy" ELSE "done")
  /\ ReleaseReference(t)
  /\ UNCHANGED givenRefs

\* The process being drained drops the reference it owns.
DrainRelease(w) ==
  /\ givenRefs > 0
  /\ Goto(w, "drain", IF refCount = 1 THEN "destroy" ELSE "drain")
  /\ givenRefs' = givenRefs - 1
  /\ ReleaseReference(w)

DestroyBegin(t) ==
  /\ Goto(t, "destroy", "request")
  /\ releaseOnExit' = (t \in Workers)
  /\ exitIndex' = 1
  /\ UNCHANGED <<wakeVars, pumpVars, claimVars, callsLeft, workerState, stateEpoch,
                 refCount, givenRefs, liveWorkers, deinitialized, freed, exitMode,
                 awaiting>>

RequestExit(t) ==
  /\ exitIndex \in Workers
  /\ Goto(t, "request",
          IF workerState[exitIndex] = "ZOMBIE" THEN "restore" ELSE "request_post")
  /\ workerState' = [workerState EXCEPT ![exitIndex] = "EXITING"]
  /\ UNCHANGED <<wakeVars, pumpVars, claimVars, callsLeft, stateEpoch, refCount,
                 givenRefs, releaseOnExit, liveWorkers, deinitialized, freed, exitMode,
                 exitIndex, awaiting>>

\* Mutant of RestoreZombie: the state of an exited worker is not put back.
RestoreZombieMissing == UNCHANGED workerState

RestoreZombie == workerState' = [workerState EXCEPT ![exitIndex] = "ZOMBIE"]

RequestRestore(t) ==
  /\ Goto(t, "restore", "request_post")
  /\ RestoreZombie
  /\ UNCHANGED <<wakeVars, pumpVars, claimVars, callsLeft, stateEpoch, refCount,
                 givenRefs, releaseOnExit, liveWorkers, deinitialized, freed, exitMode,
                 exitIndex, awaiting>>

RequestPost(t) ==
  /\ Goto(t, "request_post", IF awaiting THEN "await" ELSE "request")
  /\ Post(exitIndex)
  /\ exitIndex' = IF awaiting THEN exitIndex ELSE exitIndex + 1
  /\ UNCHANGED <<pending, wakeEpoch, idleMask, idleCount, desiredWake, pumpVars, claimVars,
                 callsLeft, workerState, stateEpoch, refCount, givenRefs, releaseOnExit,
                 liveWorkers, deinitialized, freed, exitMode, awaiting>>

\* The end of the first loop: a worker returns to its drain and leaves the
\* rest to the last worker that exits.
RequestsDone(t) ==
  /\ exitIndex = WorkerCount + 1 /\ ~awaiting
  /\ Goto(t, "request", IF releaseOnExit THEN "drain" ELSE "request")
  /\ awaiting' = ~releaseOnExit
  /\ exitIndex' = IF releaseOnExit THEN exitIndex ELSE 1
  /\ UNCHANGED <<wakeVars, pumpVars, claimVars, callsLeft, workerState, stateEpoch,
                 refCount, givenRefs, releaseOnExit, liveWorkers, deinitialized, freed,
                 exitMode>>

\* iree_notification_await(state_notification, is_zombie): the condition is
\* tested before and after a wait is prepared.
AwaitTest(t, from, otherwise) ==
  /\ Goto(t, from, IF workerState[exitIndex] = "ZOMBIE" THEN "request" ELSE otherwise)
  /\ exitIndex' = IF workerState[exitIndex] = "ZOMBIE" THEN exitIndex + 1 ELSE exitIndex
  /\ UNCHANGED <<wakeVars, pumpVars, claimVars, callsLeft, workerState, stateEpoch,
                 refCount, givenRefs, releaseOnExit, liveWorkers, deinitialized, freed,
                 exitMode, awaiting>>

AwaitCheck(t) == AwaitTest(t, "await", "await_prepare")
AwaitRecheck(t) == AwaitTest(t, "await_recheck", "await_sleep")

AwaitPrepare(t) ==
  /\ Goto(t, "await_prepare", "await_recheck")
  /\ token' = [token EXCEPT ![t] = stateEpoch[exitIndex]]
  /\ UNCHANGED <<wakeVars, shutdownVars, epochSeen, isActive, didWork, claimVars, callsLeft>>

AwaitWoken(t) ==
  /\ Goto(t, "await_sleep", "await_prepare")
  /\ stateEpoch[exitIndex] # token[t]
  /\ UNCHANGED <<wakeVars, shutdownVars, pumpVars, claimVars, callsLeft>>

\* Mutant of EveryoneAwaited: the joins start after the first worker exited.
EveryoneAwaitedEarly == awaiting /\ exitIndex > 1

EveryoneAwaited == awaiting /\ exitIndex = WorkerCount + 1

AwaitsDone(t) ==
  /\ EveryoneAwaited
  /\ Goto(t, "request", "finalize")
  /\ exitIndex' = 1
  /\ UNCHANGED <<wakeVars, pumpVars, claimVars, callsLeft, workerState, stateEpoch,
                 refCount, givenRefs, releaseOnExit, liveWorkers, deinitialized, freed,
                 exitMode, awaiting>>

\* iree_thread_release joins the thread, or detaches the calling one.
Joined(t, w) == w = t \/ pc[w] = "done"

\* iree_task_worker_deinitialize, one worker after the other.
FinalizeWorker(t) ==
  /\ pc[t] = "finalize" /\ exitIndex \in Workers /\ Joined(t, exitIndex)
  /\ deinitialized' = deinitialized \cup {exitIndex}
  /\ exitIndex' = exitIndex + 1
  /\ UNCHANGED <<wakeVars, pumpVars, claimVars, callsLeft, pc, workerState, stateEpoch,
                 refCount, givenRefs, releaseOnExit, liveWorkers, freed, exitMode,
                 awaiting>>

FinalizeFree(t) ==
  /\ exitIndex = WorkerCount + 1
  /\ Goto(t, "finalize", "done")
  /\ freed' = TRUE
  /\ UNCHANGED <<wakeVars, pumpVars, claimVars, callsLeft, workerState, stateEpoch,
                 refCount, givenRefs, releaseOnExit, liveWorkers, deinitialized, exitMode,
                 exitIndex, awaiting>>

----------------------------------------------------------------------------
WakeStep(t) ==
  \/ WakeBump(t) \/ WakeLoadMask(t) \/ ClaimPost(t)
  \/ WakeDelivered(t) \/ WakeExhausted(t) \/ WakeDemand(t) \/ WakeSeed(t)
  \/ \E w \in Workers : ClaimBit(t, w) \/ ClaimMiss(t, w)

PumpStep(w) ==
  \/ WorkerStart(w) \/ PrepareWait(w) \/ SnapshotEpoch(w) \/ MarkActive(w)
  \/ RelayClaim(w) \/ RelayDone(w) \/ CheckExit(w) \/ ScanTake(w) \/ ScanEmpty(w)
  \/ MarkIdle(w) \/ RecheckEpoch(w) \/ CommitWait(w)

ExitStep(w) ==
  ExitMarkIdle(w) \/ ExitZombie(w) \/ ExitPostState(w) \/ ExitReadMode(w) \/ ExitCount(w)

DestroyStep(t) ==
  \/ DestroyBegin(t) \/ RequestExit(t) \/ RequestRestore(t) \/ RequestPost(t)
  \/ RequestsDone(t) \/ AwaitCheck(t) \/ AwaitPrepare(t) \/ AwaitRecheck(t)
  \/ AwaitWoken(t) \/ AwaitsDone(t) \/ FinalizeWorker(t) \/ FinalizeFree(t)

Next ==
  \/ \E t \in Threads : \/ WakeStep(t) \/ DestroyStep(t)
                        \/ \E n \in Budgets, keep \in Keeps : CallSchedule(t, n, keep)
  \/ \E w \in Workers : PumpStep(w) \/ ExitStep(w)
                        \/ DrainReturn(w) \/ DrainRelease(w)
  \/ \E t \in Releasers : ProducerRelease(t)

Spec == Init /\ [][Next]_vars

\* A thread inside a call, and a worker that is awake, keeps running.  Nobody
\* has to schedule work or to drop references, and a drain may block.
Fairness ==
  /\ \A t \in Threads : WF_vars(WakeStep(t) \/ DestroyStep(t))
  /\ \A w \in Workers : WF_vars(PumpStep(w) \/ ExitStep(w))

FairSpec == Spec /\ Fairness

\* Workers can only be joined if their drains return (process.h: "Each call
\* should do a bounded amount of work").
ReturningSpec == FairSpec /\ \A w \in Workers : WF_vars(DrainReturn(w))
----------------------------------------------------------------------------
(* Properties.                                                             *)

ShuttingDown == refCount = 0

\* Thread t is inside wake_workers.
Waking(t) == pc[t] \in WakePcs /\ t \notin relaying

\* Worker w is inside a drain, which may block for as long as it likes.
Draining(w) == pc[w] = "drain" \/ Waking(w)

\* Worker w is awake and scans before it sleeps: it is on its way to the
\* scan, or it has scanned already and cannot commit its wait.
WillScan(w) ==
  \/ pc[w] \in {"start", "prepare", "snapshot", "mark_active", "relay", "check_exit", "scan"}
  \/ pc[w] \in {"load_mask", "claim", "post"} /\ w \in relaying
  \/ pc[w] \in {"mark_idle", "recheck"} /\ epochSeen[w] # wakeEpoch
  \/ pc[w] = "asleep" /\ notifyEpoch[w] # token[w]

\* A worker whose sleep is committed can be found: its idle bit is set, or
\* whoever cleared the bit has yet to post its notification.
SleeperIsReachable ==
  \A w \in Workers :
    pc[w] = "asleep" /\ notifyEpoch[w] = token[w] =>
      w \in idleMask \/ \E t \in Threads : pc[t] = "post" /\ target[t] = w

\* Published work never waits for a worker that is blocked in a drain while
\* another one sleeps: once the wake calls have returned, either some worker
\* that is not in a drain is about to scan, or no worker is free (README.md,
\* Sleep publication: "notifying it does not make it available to drain
\* independent work").  And every sleeper can be found by the next wake.
FreeWorkerScans ==
  /\ TypeOK
  /\ SleeperIsReachable
  /\ pending > 0 /\ ~ShuttingDown =>
       \/ \E t \in Threads : Waking(t)
       \/ \E w \in Workers : WillScan(w)
       \/ \A w \in Workers : Draining(w)

\* Thread t is about to use the notifications of worker w.
Uses(t, w) ==
  \/ pc[t] = "post" /\ target[t] = w
  \/ pc[t] = "seed" /\ w = 1
  \/ pc[t] \in RequestPcs \cup AwaitPcs /\ exitIndex = w
  \/ t = w /\ pc[t] \notin {"finalize", "done"}

\* Shutdown never pulls a worker away from under a thread: a worker is
\* deinitialized only when it is a zombie (the assertion in
\* iree_task_worker_deinitialize) and nobody will post it again, and the
\* executor is freed after the last access of every worker.
FinalizeIsSafe ==
  /\ \A w \in deinitialized : workerState[w] = "ZOMBIE" /\ \A t \in Threads : ~Uses(t, w)
  /\ freed => /\ deinitialized = Workers
              /\ \A t \in Threads : pc[t] = "done"

\* The wakes that workers relay to each other die down: once nothing more is
\* published every worker that is not in a drain sleeps or exits for good.
WakesSettle == <>[](\A w \in Workers : pc[w] \in {"asleep", "drain", "done"})

\* Dropping the last reference, from any thread, a worker of the executor
\* included, ends with every worker gone and the storage freed.
ShutdownCompletes == ShuttingDown ~> freed
=============================================================================
