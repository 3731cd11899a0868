---------------------------- MODULE TaskProcess ----------------------------
(***************************************************************************)
(* The life of an immediate (wake_budget = 1) process in the cooperative   *)
(* task scheduler of runtime/src/iree/task:                                *)
(*                                                                         *)
(*   process.c   suspend_count / state / error_status: wake, complete,     *)
(*               resolve, report_error, cancel;                            *)
(*   executor.c  iree_task_executor_schedule_process, immediate branch;    *)
(*   worker.c    iree_task_worker_drain_process.                           *)
(*                                                                         *)
(* One action is one atomic operation of the code (a load, a store, an     *)
(* exchange, a CAS, a list push or pop), or a callback.  Atomics are       *)
(* sequentially consistent here.  The immediate list is an intrusive list  *)
(* under a mutex; it is abstracted to the set of its members, so a pop may *)
(* return any of them (the code returns the most recent one).  Which       *)
(* worker is awake to pop is the subject of module TaskExecutor.           *)
(***************************************************************************)
EXTENDS Integers, FiniteSets, Sequences

CONSTANTS
  Processes,       \* iree_task_process_t objects
  Workers,         \* worker threads
  Callers,         \* other threads: semaphore callbacks, users, cancellation
  NoProcess,       \* NULL
  Dependents,      \* process -> the set of its dependents[]
  ExternalWakes,   \* process -> number of wakes it expects from Callers
  Cancellable,     \* the processes Callers may cancel
  MaxCalls         \* bound: schedule and cancel calls made by each caller

ASSUME ThreadAssumption == Workers \cap Callers = {}
ASSUME ProcessAssumption == IsFiniteSet(Processes) /\ NoProcess \notin Processes
ASSUME DependentsAssumption ==
  /\ Dependents \in [Processes -> SUBSET Processes]
  /\ ExternalWakes \in [Processes -> Nat]
  /\ Cancellable \subseteq Processes
  /\ MaxCalls \in Nat

Threads == Workers \cup Callers

\* The processes that p waits for.
Predecessors(p) == {q \in Processes : p \in Dependents[q]}

\* suspend_count given to iree_task_process_initialize: one per dependency.
InitialSuspendCount(p) == Cardinality(Predecessors(p)) + ExternalWakes[p]

VARIABLES
  state,          \* process -> SUSPENDED | RUNNABLE | COMPLETED | CANCELLED
  suspendCount,   \* process -> outstanding dependencies
  errorStatus,    \* process -> OK (0) or the first error recorded
  scheduleState,  \* process -> IDLE | NOTIFIED | DRAINING
  immediateList,  \* the processes on the executor's immediate_list
  pc,             \* thread -> the operation it performs next
  cur,            \* thread -> process drained (worker) or cancelled (caller)
  quiet,          \* worker -> the last drain() had did_work = keep_active = FALSE
  todo,           \* thread -> dependents still to be woken by resolve
  activated,      \* thread -> the activated list resolve returned
  target,         \* thread -> process being woken or scheduled
  wakesOwed,      \* process -> external wakes not made yet
  callsLeft,      \* caller -> remaining schedule and cancel calls
  launched,       \* process -> its activator has scheduled it
  workPending,    \* process -> work was published and no drain() has seen it
  completions,    \* process -> the statuses completion_fn was called with
  released        \* process -> release_fn was called

processVars == <<state, suspendCount, errorStatus>>
threadVars == <<cur, quiet, todo, activated, target>>
ghostVars == <<wakesOwed, callsLeft, launched, workPending, completions, released>>
vars == <<processVars, scheduleState, immediateList, pc, threadVars, ghostVars>>

ProcessStates == {"SUSPENDED", "RUNNABLE", "COMPLETED", "CANCELLED"}
Statuses == {"OK", "DRAIN_ERROR", "CANCELLED"}
ScheduleStates == {"IDLE", "NOTIFIED", "DRAINING"}

\* Program counters at which a worker holds cur[w] exclusively.
OwnerPcs == {"consume", "drain", "report", "report_state", "check",
             "complete", "complete_store", "resolve", "wake_dependents",
             "wake_cas", "release", "sleep"}
SchedulePcs == {"schedule", "schedule_exchange", "schedule_push"}
CancelPcs == {"cancel", "cancel_suspended", "cancel_runnable"}
Pcs == {"ready", "activate"} \cup OwnerPcs \cup SchedulePcs \cup CancelPcs

TypeOK ==
  /\ state \in [Processes -> ProcessStates]
  /\ suspendCount \in [Processes -> Int]
  /\ errorStatus \in [Processes -> Statuses]
  /\ scheduleState \in [Processes -> ScheduleStates]
  /\ immediateList \subseteq Processes
  /\ pc \in [Threads -> Pcs]
  /\ cur \in [Threads -> Processes \cup {NoProcess}]
  /\ quiet \in [Workers -> BOOLEAN]
  /\ todo \in [Threads -> SUBSET Processes]
  /\ activated \in [Threads -> SUBSET Processes]
  /\ target \in [Threads -> Processes \cup {NoProcess}]
  /\ wakesOwed \in [Processes -> Nat]
  /\ callsLeft \in [Callers -> Nat]
  /\ launched \in [Processes -> BOOLEAN]
  /\ workPending \in [Processes -> BOOLEAN]
  /\ completions \in [Processes -> Seq(Statuses)]
  /\ released \in [Processes -> BOOLEAN]

----------------------------------------------------------------------------
(* iree_task_process_initialize for every process.                         *)
Init ==
  /\ state = [p \in Processes |->
                IF InitialSuspendCount(p) > 0 THEN "SUSPENDED" ELSE "RUNNABLE"]
  /\ suspendCount = [p \in Processes |-> InitialSuspendCount(p)]
  /\ errorStatus = [p \in Processes |-> "OK"]
  /\ scheduleState = [p \in Processes |-> "IDLE"]
  /\ immediateList = {}
  /\ pc = [t \in Threads |-> "ready"]
  /\ cur = [t \in Threads |-> NoProcess]
  /\ quiet = [w \in Workers |-> FALSE]
  /\ todo = [t \in Threads |-> {}]
  /\ activated = [t \in Threads |-> {}]
  /\ target = [t \in Threads |-> NoProcess]
  /\ wakesOwed = ExternalWakes
  /\ callsLeft = [t \in Callers |-> MaxCalls]
  /\ launched = [p \in Processes |-> InitialSuspendCount(p) = 0]
  /\ workPending = [p \in Processes |-> FALSE]
  /\ completions = [p \in Processes |-> <<>>]
  /\ released = [p \in Processes |-> FALSE]

IsTerminal(p) == state[p] \in {"COMPLETED", "CANCELLED"}

Goto(t, from, to) == pc[t] = from /\ pc' = [pc EXCEPT ![t] = to]

----------------------------------------------------------------------------
(* iree_task_executor_schedule_process: the thread schedules target[t].    *)

\* The caller publishes work for p and then calls schedule_process.  Callers
\* keep the process alive and only schedule one its activator has scheduled.
CallSchedule(t, p) ==
  /\ Goto(t, "ready", "schedule")
  /\ callsLeft[t] > 0 /\ launched[p] /\ ~released[p]
  /\ callsLeft' = [callsLeft EXCEPT ![t] = @ - 1]
  /\ target' = [target EXCEPT ![t] = p]
  /\ workPending' = [workPending EXCEPT ![p] = TRUE]
  /\ UNCHANGED <<processVars, scheduleState, immediateList, cur, quiet, todo,
                 activated, wakesOwed, launched, completions, released>>

ScheduleCheckTerminal(t) ==
  /\ Goto(t, "schedule",
          IF IsTerminal(target[t]) THEN "activate" ELSE "schedule_exchange")
  /\ UNCHANGED <<processVars, scheduleState, immediateList, threadVars, ghostVars>>

\* Mutants of OwnsEnqueue: a busy process is enqueued again.
OwnsEnqueueUnlessDraining(previous) == previous # "DRAINING"
OwnsEnqueueAlways(previous) == previous \in ScheduleStates

\* Only the scheduler that moves the process out of IDLE enqueues it.
OwnsEnqueue(previous) == previous = "IDLE"

ScheduleExchange(t) ==
  /\ Goto(t, "schedule_exchange",
          IF OwnsEnqueue(scheduleState[target[t]])
          THEN "schedule_push" ELSE "activate")
  /\ scheduleState' = [scheduleState EXCEPT ![target[t]] = "NOTIFIED"]
  /\ launched' = [launched EXCEPT ![target[t]] = TRUE]
  /\ UNCHANGED <<processVars, immediateList, threadVars, wakesOwed, callsLeft,
                 workPending, completions, released>>

SchedulePush(t) ==
  /\ Goto(t, "schedule_push", "activate")
  /\ immediateList' = immediateList \cup {target[t]}
  /\ UNCHANGED <<processVars, scheduleState, threadVars, ghostVars>>

\* The loop over the activated list after complete() or cancel(); when it is
\* empty (as it is for callers of schedule_process) the thread returns.
ActivateNext(t, d) ==
  /\ d \in activated[t]
  /\ Goto(t, "activate", "schedule")
  /\ target' = [target EXCEPT ![t] = d]
  /\ activated' = [activated EXCEPT ![t] = @ \ {d}]
  /\ UNCHANGED <<processVars, scheduleState, immediateList, cur, quiet, todo, ghostVars>>

ActivateDone(t) ==
  /\ activated[t] = {}
  /\ Goto(t, "activate", "ready")
  /\ target' = [target EXCEPT ![t] = NoProcess]
  /\ UNCHANGED <<processVars, scheduleState, immediateList, cur, quiet, todo,
                 activated, ghostVars>>

----------------------------------------------------------------------------
(* iree_task_process_wake, called by resolve for each dependent and by     *)
(* callers for external dependencies.                                      *)

\* A caller satisfies one external dependency of p.
CallWake(t, p) ==
  /\ Goto(t, "ready", "wake_dependents")
  /\ wakesOwed[p] > 0
  /\ wakesOwed' = [wakesOwed EXCEPT ![p] = @ - 1]
  /\ todo' = [todo EXCEPT ![t] = {p}]
  /\ UNCHANGED <<processVars, scheduleState, immediateList, cur, quiet, activated,
                 target, callsLeft, launched, workPending, completions, released>>

\* Mutants of DroveToZero: off by one in the value fetch_sub returns.
DroveToOne(previous) == previous \in {1, 2}
DroveBelowZero(previous) == previous = 0

\* The fetch_sub returned the value that makes this thread the activator.
DroveToZero(previous) == previous = 1

WakeDecrement(t, d) ==
  /\ d \in todo[t]
  /\ Goto(t, "wake_dependents",
          IF DroveToZero(suspendCount[d]) THEN "wake_cas" ELSE "wake_dependents")
  /\ suspendCount' = [suspendCount EXCEPT ![d] = @ - 1]
  /\ todo' = [todo EXCEPT ![t] = @ \ {d}]
  /\ target' = [target EXCEPT ![t] = d]
  /\ UNCHANGED <<state, errorStatus, scheduleState, immediateList, cur, quiet,
                 activated, ghostVars>>

\* CAS SUSPENDED -> RUNNABLE.
WakeActivate(t) ==
  /\ Goto(t, "wake_cas", "wake_dependents")
  /\ state[target[t]] = "SUSPENDED"
  /\ state' = [state EXCEPT ![target[t]] = "RUNNABLE"]
  /\ activated' = [activated EXCEPT ![t] = @ \cup {target[t]}]
  /\ workPending' = [workPending EXCEPT ![target[t]] = TRUE]
  /\ UNCHANGED <<suspendCount, errorStatus, scheduleState, immediateList, cur, quiet,
                 todo, target, wakesOwed, callsLeft, launched, completions, released>>

\* The CAS fails: the process was cancelled meanwhile.
WakeCancelled(t) ==
  /\ Goto(t, "wake_cas", "wake_dependents")
  /\ state[target[t]] # "SUSPENDED"
  /\ UNCHANGED <<processVars, scheduleState, immediateList, threadVars, ghostVars>>

\* resolve returns: a worker calls release_fn, a canceller does not.
WakeDone(t) ==
  /\ todo[t] = {}
  /\ Goto(t, "wake_dependents", IF t \in Workers THEN "release" ELSE "activate")
  /\ cur' = [cur EXCEPT ![t] = IF t \in Workers THEN @ ELSE NoProcess]
  /\ UNCHANGED <<processVars, scheduleState, immediateList, quiet, todo, activated,
                 target, ghostVars>>

----------------------------------------------------------------------------
(* iree_task_worker_drain_process.                                         *)

WorkerPop(w, p) ==
  /\ p \in immediateList
  /\ Goto(w, "ready", "consume")
  /\ immediateList' = immediateList \ {p}
  /\ cur' = [cur EXCEPT ![w] = p]
  /\ UNCHANGED <<processVars, scheduleState, quiet, todo, activated, target, ghostVars>>

\* The exchange that consumes every wake published so far.
WorkerConsume(w) ==
  /\ Goto(w, "consume", "drain")
  /\ scheduleState' = [scheduleState EXCEPT ![cur[w]] = "DRAINING"]
  /\ UNCHANGED <<processVars, immediateList, threadVars, ghostVars>>

\* process->drain() handles the work published so far and returns.
Drain(w, next, isQuiet) ==
  /\ Goto(w, "drain", next)
  /\ workPending' = [workPending EXCEPT ![cur[w]] = FALSE]
  /\ quiet' = [quiet EXCEPT ![w] = isQuiet]
  /\ UNCHANGED <<processVars, scheduleState, immediateList, cur, todo, activated,
                 target, wakesOwed, callsLeft, launched, completions, released>>

DrainCompleted(w) == Drain(w, "complete", FALSE)
DrainFailed(w)    == Drain(w, "report", FALSE)
DrainDidWork(w)   == Drain(w, "check", FALSE)
DrainNoWork(w)    == Drain(w, "check", TRUE)

WorkerCheck(w) ==
  /\ Goto(w, "check", IF IsTerminal(cur[w]) THEN "complete"
                      ELSE IF quiet[w] THEN "sleep" ELSE "drain")
  /\ UNCHANGED <<processVars, scheduleState, immediateList, threadVars, ghostVars>>

\* Mutant of MaySleep: a store instead of the CAS.
MaySleepUnchecked(p) == scheduleState[p] # "IDLE"

\* CAS DRAINING -> IDLE: it fails if a wake was published during the drain.
MaySleep(p) == scheduleState[p] = "DRAINING"

WorkerSleep(w) ==
  /\ Goto(w, "sleep", "ready")
  /\ MaySleep(cur[w])
  /\ scheduleState' = [scheduleState EXCEPT ![cur[w]] = "IDLE"]
  /\ cur' = [cur EXCEPT ![w] = NoProcess]
  /\ UNCHANGED <<processVars, immediateList, quiet, todo, activated, target, ghostVars>>

WorkerStayAwake(w) ==
  /\ Goto(w, "sleep", "consume")
  /\ ~MaySleep(cur[w])
  /\ UNCHANGED <<processVars, scheduleState, immediateList, threadVars, ghostVars>>

WorkerRelease(w) ==
  /\ Goto(w, "release", "activate")
  /\ released' = [released EXCEPT ![cur[w]] = TRUE]
  /\ cur' = [cur EXCEPT ![w] = NoProcess]
  /\ UNCHANGED <<processVars, scheduleState, immediateList, quiet, todo, activated,
                 target, wakesOwed, callsLeft, launched, workPending, completions>>

----------------------------------------------------------------------------
(* iree_task_process_report_error, _complete and _resolve.                 *)

\* Mutant of RecordError: a late error replaces the first one and is freed.
RecordLastError(p, status) ==
  errorStatus' = [errorStatus EXCEPT ![p] = IF @ = "OK" THEN status ELSE "FREED"]

\* CAS 0 -> status: the first error wins.
RecordError(p, status) ==
  errorStatus' = [errorStatus EXCEPT ![p] = IF @ = "OK" THEN status ELSE @]

ReportError(w) ==
  /\ Goto(w, "report", "report_state")
  /\ RecordError(cur[w], "DRAIN_ERROR")
  /\ UNCHANGED <<state, suspendCount, scheduleState, immediateList, threadVars, ghostVars>>

\* CAS RUNNABLE -> to.
LeaveRunnable(p, to) ==
  state' = [state EXCEPT ![p] = IF @ = "RUNNABLE" THEN to ELSE @]

ReportErrorState(w) ==
  /\ Goto(w, "report_state", "check")
  /\ LeaveRunnable(cur[w], "COMPLETED")
  /\ UNCHANGED <<suspendCount, errorStatus, scheduleState, immediateList, threadVars,
                 ghostVars>>

CompleteCheck(w) ==
  /\ Goto(w, "complete", IF IsTerminal(cur[w]) THEN "resolve" ELSE "complete_store")
  /\ UNCHANGED <<processVars, scheduleState, immediateList, threadVars, ghostVars>>

\* A store, not a CAS: the state checked above may have changed.
CompleteStore(w) ==
  /\ Goto(w, "complete_store", "resolve")
  /\ state' = [state EXCEPT ![cur[w]] = "COMPLETED"]
  /\ UNCHANGED <<suspendCount, errorStatus, scheduleState, immediateList, threadVars,
                 ghostVars>>

\* Loads error_status and calls completion_fn with it.
Resolve(t) ==
  /\ Goto(t, "resolve", "wake_dependents")
  /\ completions' = [completions EXCEPT ![cur[t]] = Append(@, errorStatus[cur[t]])]
  /\ todo' = [todo EXCEPT ![t] = Dependents[cur[t]]]
  /\ UNCHANGED <<processVars, scheduleState, immediateList, cur, quiet, activated,
                 target, wakesOwed, callsLeft, launched, workPending, released>>

----------------------------------------------------------------------------
(* iree_task_process_cancel.                                               *)

CallCancel(t, p) ==
  /\ Goto(t, "ready", "cancel")
  /\ callsLeft[t] > 0 /\ p \in Cancellable /\ ~released[p]
  /\ callsLeft' = [callsLeft EXCEPT ![t] = @ - 1]
  /\ cur' = [cur EXCEPT ![t] = p]
  /\ UNCHANGED <<processVars, scheduleState, immediateList, quiet, todo, activated,
                 target, wakesOwed, launched, workPending, completions, released>>

CancelRecord(t) ==
  /\ Goto(t, "cancel", "cancel_suspended")
  /\ RecordError(cur[t], "CANCELLED")
  /\ UNCHANGED <<state, suspendCount, scheduleState, immediateList, threadVars, ghostVars>>

\* Mutant of CancelResolves: a runnable process is resolved inline as well.
CancelResolvesRunnable(p) == ~IsTerminal(p)

\* CAS SUSPENDED -> CANCELLED: on success this thread resolves the process.
CancelResolves(p) == state[p] = "SUSPENDED"

CancelSuspended(t) ==
  /\ Goto(t, "cancel_suspended", "resolve")
  /\ CancelResolves(cur[t])
  /\ state' = [state EXCEPT ![cur[t]] = "CANCELLED"]
  /\ UNCHANGED <<suspendCount, errorStatus, scheduleState, immediateList, threadVars,
                 ghostVars>>

CancelNotSuspended(t) ==
  /\ Goto(t, "cancel_suspended", "cancel_runnable")
  /\ ~CancelResolves(cur[t])
  /\ UNCHANGED <<processVars, scheduleState, immediateList, threadVars, ghostVars>>

\* CAS RUNNABLE -> CANCELLED, or nothing if the process is already terminal.
CancelRunnable(t) ==
  /\ Goto(t, "cancel_runnable", "ready")
  /\ LeaveRunnable(cur[t], "CANCELLED")
  /\ cur' = [cur EXCEPT ![t] = NoProcess]
  /\ UNCHANGED <<suspendCount, errorStatus, scheduleState, immediateList, quiet, todo,
                 activated, target, ghostVars>>

----------------------------------------------------------------------------
ThreadStep(t) ==
  \/ ScheduleCheckTerminal(t) \/ ScheduleExchange(t) \/ SchedulePush(t)
  \/ ActivateDone(t) \/ WakeActivate(t) \/ WakeCancelled(t) \/ WakeDone(t) \/ Resolve(t)
  \/ \E d \in Processes : ActivateNext(t, d) \/ WakeDecrement(t, d)

DrainReturns(w) ==
  DrainCompleted(w) \/ DrainFailed(w) \/ DrainDidWork(w) \/ DrainNoWork(w)

WorkerStep(w) ==
  \/ \E p \in Processes : WorkerPop(w, p)
  \/ WorkerConsume(w) \/ DrainReturns(w) \/ WorkerCheck(w)
  \/ WorkerSleep(w) \/ WorkerStayAwake(w)
  \/ ReportError(w) \/ ReportErrorState(w)
  \/ CompleteCheck(w) \/ CompleteStore(w) \/ WorkerRelease(w)

CancelStep(t) ==
  CancelRecord(t) \/ CancelSuspended(t) \/ CancelNotSuspended(t) \/ CancelRunnable(t)

Call(t) == \E p \in Processes :
             CallSchedule(t, p) \/ CallWake(t, p) \/ CallCancel(t, p)

Next ==
  \/ \E t \in Threads : ThreadStep(t)
  \/ \E w \in Workers : WorkerStep(w)
  \/ \E t \in Callers : CancelStep(t) \/ Call(t)

Spec == Init /\ [][Next]_vars

\* A thread inside an operation, and a worker with a non-empty list, keeps
\* running.  A drain() that is called again and again does not report work
\* for ever: it runs out of work (process.h: "Each call should do a bounded
\* amount of work").  Nothing obliges callers to make calls, except that the
\* wakes a process was created to wait for do arrive.
Fairness ==
  /\ \A t \in Threads : WF_vars(ThreadStep(t))
  /\ \A w \in Workers : WF_vars(WorkerStep(w)) /\ SF_vars(DrainNoWork(w))
  /\ \A t \in Callers : WF_vars(CancelStep(t))
                        /\ WF_vars(\E p \in Processes : CallWake(t, p))

FairSpec == Spec /\ Fairness
----------------------------------------------------------------------------
(* Properties.                                                             *)

\* Thread t may touch process p without p being on a list: a worker that
\* popped it, or a scheduler that is about to push it.
Holds(t, p) ==
  \/ t \in Workers /\ cur[t] = p
  \/ pc[t] = "schedule_push" /\ target[t] = p

\* A process is never drained by two workers at once, never pushed while it is
\* already linked into the immediate list, and never on the list while a
\* worker owns it: schedule_state hands out ownership to one holder at a time
\* (executor.c schedule_process, worker.c drain_process).
SingleHolder ==
  \A p \in Processes : \A t \in Threads :
    Holds(t, p) => /\ p \notin immediateList
                   /\ \A u \in Threads : Holds(u, p) => u = t

\* After release_fn, which may free the process, no worker still has it, no
\* scheduler pushes it and it is on no list, whatever wakes race with its
\* completion (worker.c: "release is safe immediately after completion").
NoAccessAfterRelease ==
  \A p \in Processes : released[p] =>
    p \notin immediateList /\ \A t \in Threads : ~Holds(t, p)

\* Thread t is about to schedule p.
OnItsWay(t, p) ==
  (target[t] = p /\ pc[t] \in SchedulePcs) \/ p \in activated[t]

\* Worker w owns p and drains it before it can let go of it.
OwnerWillDrain(w, p) ==
  cur[w] = p /\ (pc[w] \in {"consume", "drain"} \/ scheduleState[p] = "NOTIFIED")

Carried(p) ==
  \/ p \in immediateList
  \/ \E t \in Threads : OnItsWay(t, p)
  \/ \E w \in Workers : OwnerWillDrain(w, p)

\* A wake is never lost: published work of a live process always has someone
\* who will drain it, either a scheduler or an activator on its way, or the
\* list, or the owning worker, which has yet to drain or cannot go to sleep.
NoLostWake ==
  \A p \in Processes : workPending[p] /\ ~IsTerminal(p) => Carried(p)

\* completion_fn is called at most once, however cancel, report_error, complete
\* and wake race (process.h: "Called exactly once when a process completes").
CompletedOnce == \A p \in Processes : Len(completions[p]) <= 1

\* suspend_count is exactly the number of wakes still to come, so it is never
\* decremented below zero (the assertion in iree_task_process_wake) and the
\* last wake is the one that activates.
SuspendCountAccounting ==
  \A p \in Processes :
    suspendCount[p] =
      wakesOwed[p] + Cardinality({q \in Predecessors(p) : completions[q] = <<>>})
                   + Cardinality({t \in Threads : p \in todo[t]})

\* A process becomes runnable only after every process it depends on has been
\* resolved, its completion callback included, and the wakes still to come are
\* counted exactly, so that the last one and no other activates it.
DependencyOrder ==
  /\ SuspendCountAccounting
  /\ \A p \in Processes : state[p] = "RUNNABLE" =>
       \A q \in Predecessors(p) : completions[q] # <<>>

\* Once all its predecessors are resolved a process leaves SUSPENDED.
DependentsActivate ==
  \A p \in Processes :
    (\A q \in Predecessors(p) : completions[q] # <<>>) ~> state[p] # "SUSPENDED"
=============================================================================
