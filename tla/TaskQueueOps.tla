---------------------------- MODULE TaskQueueOps ----------------------------
(***************************************************************************)
(* The operations of a task queue and its shutdown                         *)
(* (hal/driver/task/queue/queue.c): submission, the semaphore waits that   *)
(* make an operation ready, the control process that issues ready          *)
(* operations, their completion on the control worker, a compute worker or *)
(* the proactor, and the shutdown that starts when the last operation      *)
(* retires and ends when nobody can touch the queue any more.              *)
(*                                                                         *)
(* Every agent runs the same procedures, so pc labels are shared: an agent *)
(* in op_destroy is at "settle", "free", "end", whoever it is.  Semaphores *)
(* are external: a registered wait resolves once, with success or failure, *)
(* on a thread of its own, or at once, inside the registration.            *)
(* Scheduling a process is the abstraction TaskExecutor and                *)
(* TaskComputeSlots justify: it sets a flag after which the process is     *)
(* drained again, and the call still touches the queue until it returns.   *)
(* TaskQueueCompute models the compute process in detail; here one compute *)
(* worker finishes the operations handed to it.                            *)
(*                                                                         *)
(* The operation types are five kinds: "inline" finishes on the control    *)
(* worker, "call" is a host call and "post" a NON_BLOCKING one, "io" is    *)
(* finished by the proactor and "compute" by the compute process.  Two     *)
(* types are coarser here than in the code: ALLOCA may wait for memory and *)
(* become ready again, any number of times, and MAP runs as a process of   *)
(* its own; each ends in op_complete or op_fail like the kind "io".        *)
(***************************************************************************)
EXTENDS Integers, Sequences, FiniteSets

CONSTANTS Ops,      \* operations to submit
          KindsOf,  \* [Ops -> SUBSET Kinds]: the kinds each of them may be
          WaitsOf,  \* [Ops -> Nat]: the number of semaphores each waits for
          Fallible, \* operations whose steps may fail
          NoOp      \* not an operation

Kinds == {"inline", "call", "post", "io", "compute"}

ASSUME QueueAssumption ==
    /\ KindsOf \in [Ops -> SUBSET Kinds]
    /\ WaitsOf \in [Ops -> Nat]
    /\ Fallible \subseteq Ops
    /\ NoOp \notin Ops /\ IsFiniteSet(Ops)

Submitter(o) == <<"submit", o, 0>>
Callback(o, i) == <<"wait", o, i>>
Control == <<"control", NoOp, 0>>
Compute == <<"compute", NoOp, 0>>
Proactor == <<"proactor", NoOp, 0>>
Destroyer == <<"destroy", NoOp, 0>>

Callbacks == UNION {{Callback(o, i) : i \in 1 .. WaitsOf[o]} : o \in Ops}
Agents == {Submitter(o) : o \in Ops} \cup Callbacks
              \cup {Control, Compute, Proactor, Destroyer}

VARIABLES pc,         \* where each agent is
          arg,        \* the operation each agent works on
          status,     \* the status each agent carries: "ok" or "failed"
          kind,       \* operation->type, as far as it decides who finishes it
          memory,     \* the arena of each operation: "none", "live", "freed"
          waitCount,  \* operation->wait_count
          left,       \* waits enqueue_waits still has to register
          errorStatus,\* operation->error_status is set
          flagged,    \* operations with OP_FLAG_COMPLETING_IO
          ready,      \* queue->ready_list, newest first
          issued,     \* operations owned by the compute process or the proactor
          count,      \* queue->pending_operation_count
          phase,      \* queue->shutdown_phase
          retiring,   \* queue->pending_shutdown_count
          scheduled,  \* processes scheduled and not drained since
          released,   \* processes whose release callback has run
          shutdown,   \* the shutdown block: [lock, completed]
          queue,      \* the queue's memory: "live", "freed"
          outcome     \* what the queue did to each operation's signal semaphores
                      \* (history): nothing yet, signalled or failed them, or
                      \* left them to a deferred host call

op == <<kind, memory, waitCount, left, errorStatus, flagged, outcome>>
life == <<count, phase, retiring, scheduled, released, shutdown, queue>>
agent == <<arg, status>>
vars == <<pc, agent, op, ready, issued, life>>

\* Initial pending_shutdown_count: two releases and the scheduling tail.
Participants == 3

Init ==
    /\ pc = [a \in Agents |->
                CASE a[1] = "submit" -> "begin" [] a[1] = "destroy" -> "close"
                  [] a[1] = "wait" -> "unregistered" [] OTHER -> "idle"]
    /\ arg = [a \in Agents |-> a[2]]
    /\ status = [a \in Agents |-> "ok"]
    /\ kind = [o \in Ops |-> "none"] /\ memory = [o \in Ops |-> "none"]
    /\ waitCount = [o \in Ops |-> 0] /\ left = [o \in Ops |-> 0]
    /\ errorStatus = [o \in Ops |-> FALSE]
    /\ flagged = {} /\ ready = <<>> /\ issued = {}
    /\ count = 1                      \* the admission reference
    /\ phase = "running"
    /\ retiring = Participants
    /\ scheduled = {} /\ released = {}
    /\ shutdown = [lock |-> FALSE, completed |-> FALSE]
    /\ queue = "live"
    /\ outcome = [o \in Ops |-> "none"]

Goto(a, label) == pc' = [pc EXCEPT ![a] = label]
With(a, label, o, s) ==
    /\ Goto(a, label)
    /\ arg' = [arg EXCEPT ![a] = o]
    /\ status' = [status EXCEPT ![a] = s]

\* Where an agent goes when its procedure returns.
Return(a) == CASE a \in released -> "done"
               [] a = Control /\ a \notin released -> "pop"
               [] a \in {Compute, Proactor} \ released -> "idle"
               [] a = Destroyer -> "await"
               [] OTHER -> "done"

(***************************************************************************)
(* submit_op_begin, submit_op_finish and enqueue_waits.                    *)
(***************************************************************************)
\* op_allocate and operation_begin.  The caller owns the queue.
SubmitBegin(o) ==
    LET a == Submitter(o) IN
    /\ pc[a] = "begin"
    /\ pc[Destroyer] = "close"
    /\ \E k \in KindsOf[o] : kind' = [kind EXCEPT ![o] = k]
    /\ memory' = [memory EXCEPT ![o] = "live"]
    /\ count' = count + 1
    /\ Goto(a, "finish")
    /\ UNCHANGED <<agent, waitCount, left, errorStatus, flagged, outcome, ready, issued,
                   phase, retiring, scheduled, released, shutdown, queue>>

\* The operation cannot be captured and is discarded: op_discard frees it and
\* leaves its semaphores alone.
SubmitDiscard(o) ==
    /\ pc[Submitter(o)] = "finish"
    /\ o \in Fallible
    /\ With(Submitter(o), "free", o, "discarded")
    /\ UNCHANGED <<op, ready, issued, life>>

\* A queried semaphore has failed, or a resource cannot be retained: the
\* operation is destroyed with the error.
SubmitFails(o) ==
    /\ pc[Submitter(o)] = "finish"
    /\ WaitsOf[o] > 0 \/ o \in Fallible
    /\ With(Submitter(o), "settle", o, "failed")
    /\ UNCHANGED <<op, ready, issued, life>>

\* Mutant: wait_count starts at one, whatever the number of waits.
StoredOne(n) == 1

\* The wait_count stored for n unsatisfied waits.
Stored(n) == n

\* try_satisfy_waits leaves n of the waits unsatisfied.  With none left the
\* submitter publishes the operation; otherwise their number is stored before
\* the first of them is registered.
SubmitFinish(o) ==
    /\ pc[Submitter(o)] = "finish"
    /\ \E n \in 0 .. WaitsOf[o] :
          /\ waitCount' = [waitCount EXCEPT ![o] = Stored(n)]
          /\ left' = [left EXCEPT ![o] = n]
          /\ Goto(Submitter(o), IF n = 0 THEN "push" ELSE "register")
    /\ UNCHANGED <<kind, agent, memory, errorStatus, flagged, outcome, ready, issued, life>>

\* One turn of the loop of enqueue_waits.
Register(o) ==
    /\ pc[Submitter(o)] = "register"
    /\ left' = [left EXCEPT ![o] = @ - 1]
    /\ pc' = [pc EXCEPT ![Submitter(o)] = IF left[o] = 1 THEN "done" ELSE "register",
                        ![Callback(o, left[o])] = "registered"]
    /\ UNCHANGED <<kind, agent, memory, waitCount, errorStatus, flagged, outcome,
                   ready, issued, life>>

\* A registration fails: the error is recorded if it is the first.
RegisterFails(o) ==
    /\ pc[Submitter(o)] = "register"
    /\ o \in Fallible
    /\ errorStatus' = [errorStatus EXCEPT ![o] = TRUE]
    /\ Goto(Submitter(o), "subtract")
    /\ UNCHANGED <<kind, agent, memory, waitCount, left, flagged, outcome, ready, issued, life>>

\* Whether every registered wait had already fired.
AllFired(previous, unregistered) == previous = unregistered

\* The wait that failed and those after it leave the count; the last to leave
\* destroys the operation.
Subtract(o) ==
    LET a == Submitter(o) IN
    /\ pc[a] = "subtract"
    /\ waitCount' = [waitCount EXCEPT ![o] = @ - left[o]]
    /\ IF AllFired(waitCount[o], left[o]) THEN With(a, "settle", o, "failed")
       ELSE Goto(a, "done") /\ UNCHANGED agent
    /\ UNCHANGED <<kind, memory, left, errorStatus, flagged, outcome, ready, issued, life>>

(***************************************************************************)
(* wait_resolved and schedule_ready.                                       *)
(***************************************************************************)
\* dispatch_detached of the semaphore (AsyncSemaphore) resolves the wait.
Resolve(a) ==
    /\ pc[a] = "registered"
    /\ \E s \in {"ok", "failed"} : With(a, "record", a[2], s)
    /\ UNCHANGED <<op, ready, issued, life>>

\* Mutant: the failure of a wait is not recorded.
FirstErrorLost(e, s) == e

\* The compare-exchange that records the first failure.
FirstError(e, s) == e \/ s = "failed"

Record(a) ==
    /\ pc[a] = "record"
    /\ errorStatus' = [errorStatus EXCEPT ![a[2]] = FirstError(@, status[a])]
    /\ Goto(a, "decrement")
    /\ UNCHANGED <<kind, agent, memory, waitCount, left, flagged, outcome, ready, issued, life>>

\* Whether this was the last wait.
LastWait(previous) == previous = 1

Decrement(a) ==
    /\ pc[a] = "decrement"
    /\ waitCount' = [waitCount EXCEPT ![a[2]] = @ - 1]
    /\ Goto(a, IF LastWait(waitCount[a[2]]) THEN "last" ELSE "done")
    /\ UNCHANGED <<kind, agent, memory, left, errorStatus, flagged, outcome, ready, issued, life>>

\* The exchange of error_status: destroy the operation or make it ready.
Last(a) ==
    /\ pc[a] = "last"
    /\ errorStatus' = [errorStatus EXCEPT ![a[2]] = FALSE]
    /\ Goto(a, IF errorStatus[a[2]] THEN "settle" ELSE "hold")
    /\ status' = [status EXCEPT ![a] = IF errorStatus[a[2]] THEN "failed" ELSE @]
    /\ UNCHANGED <<kind, arg, memory, waitCount, left, flagged, outcome, ready, issued, life>>

\* operation_begin in schedule_ready.
Held(n) == n + 1

Hold(a) ==
    /\ pc[a] = "hold"
    /\ count' = Held(count)
    /\ Goto(a, "push")
    /\ UNCHANGED <<agent, op, ready, issued, phase, retiring, scheduled, released,
                   shutdown, queue>>

\* publish_ready: the push, then schedule_process, which returns a step later.
Push(a) ==
    /\ pc[a] = "push"
    /\ ready' = <<arg[a]>> \o ready
    /\ Goto(a, "wake")
    /\ UNCHANGED <<agent, op, issued, life>>

Wake(a) ==
    /\ pc[a] = "wake"
    /\ scheduled' = scheduled \cup {Control}
    /\ Goto(a, "woken")
    /\ UNCHANGED <<agent, op, ready, issued, count, phase, retiring, released, shutdown, queue>>

\* The submitter owns the queue and returns; the others drop their hold.
Woken(a) ==
    /\ pc[a] = "woken"
    /\ Goto(a, IF a[1] = "submit" THEN "done" ELSE "end")
    /\ UNCHANGED <<agent, op, ready, issued, life>>

(***************************************************************************)
(* process_drain: the control process.                                     *)
(***************************************************************************)
ControlRun ==
    /\ pc[Control] = "idle"
    /\ Control \in scheduled
    /\ scheduled' = scheduled \ {Control}
    /\ Goto(Control, "pop")
    /\ UNCHANGED <<agent, op, ready, issued, count, phase, retiring, released, shutdown, queue>>

\* The newest ready operation is issued, called, finished inline or failed (its
\* barrier or its issue fails); one whose I/O has completed is finished.
ControlPop ==
    /\ pc[Control] = "pop"
    /\ ready # <<>>
    /\ ready' = Tail(ready)
    /\ LET o == Head(ready) IN
       \/ /\ o \in flagged \/ kind[o] = "inline"
          /\ With(Control, "complete", o, "ok")
          /\ UNCHANGED issued
       \/ /\ o \notin flagged
          /\ \/ kind[o] = "post" /\ With(Control, "announce", o, "ok")
             \/ kind[o] = "call" /\ With(Control, "call", o, "ok")
          /\ UNCHANGED issued
       \/ /\ o \notin flagged /\ kind[o] \in {"io", "compute"}
          /\ issued' = issued \cup {o}
          /\ UNCHANGED <<pc, agent>>
       \/ /\ o \in Fallible /\ o \notin flagged
          /\ With(Control, "settle", o, "failed")
          /\ UNCHANGED issued
    /\ UNCHANGED <<op, life>>

\* drain_host_call: a NON_BLOCKING call signals before its function runs, and
\* the function does not run if that fails.
SignalFirst ==
    LET o == arg[Control] IN
    /\ pc[Control] = "announce"
    /\ \/ /\ outcome' = [outcome EXCEPT ![o] = "ok"]
          /\ Goto(Control, "call")
          /\ UNCHANGED agent
       \/ /\ o \in Fallible
          /\ With(Control, "settle", o, "failed")
          /\ UNCHANGED outcome
    /\ UNCHANGED <<kind, memory, waitCount, left, errorStatus, flagged, ready, issued, life>>

\* Mutant: the semaphores of a deferred call are signalled when it returns.
AfterDeferredSignals == "complete"

\* Where drain_host_call goes on when the function has returned DEFERRED: the
\* semaphores are now the callback's to signal or fail, and only its own.
AfterDeferred == "free"

\* drain_host_call: the user's function returns.  What it returns is dropped if
\* the call is NON_BLOCKING; otherwise OK signals the semaphores, DEFERRED
\* leaves them to the callback and an error fails them.
HostCall ==
    LET o == arg[Control] IN
    /\ pc[Control] = "call"
    /\ \/ /\ kind[o] = "post"
          /\ Goto(Control, "free")
          /\ UNCHANGED <<agent, outcome>>
       \/ /\ kind[o] = "call"
          /\ Goto(Control, "complete")
          /\ UNCHANGED <<agent, outcome>>
       \/ /\ kind[o] = "call"
          /\ Goto(Control, AfterDeferred)
          /\ outcome' = [outcome EXCEPT ![o] = "deferred"]
          /\ UNCHANGED agent
       \/ /\ kind[o] = "call" /\ o \in Fallible
          /\ With(Control, "settle", o, "failed")
          /\ UNCHANGED outcome
    /\ UNCHANGED <<kind, memory, waitCount, left, errorStatus, flagged, ready, issued, life>>

ControlEmpty ==
    /\ pc[Control] = "pop"
    /\ ready = <<>>
    /\ Goto(Control, "check")
    /\ UNCHANGED <<agent, op, ready, issued, life>>

\* Mutant: the control process waits for the phase that follows it.
ShuttingDownCompute(p) == p = "compute"

\* iree_hal_task_queue_is_shutting_down.
ShuttingDown(p) == p # "running"

\* The load of shutdown_phase: the process completes or goes back to sleep.
ControlCheck ==
    /\ pc[Control] = "check"
    /\ Goto(Control, IF ShuttingDown(phase) THEN "stop" ELSE "idle")
    /\ UNCHANGED <<agent, op, ready, issued, life>>

\* process_release: phase COMPUTE, the compute process is scheduled, retire.
ControlStop ==
    /\ pc[Control] = "stop"
    /\ phase' = "compute"
    /\ released' = released \cup {Control}
    /\ Goto(Control, "rouse")
    /\ UNCHANGED <<agent, op, ready, issued, count, retiring, scheduled, shutdown, queue>>

ControlRouse ==
    /\ pc[Control] = "rouse"
    /\ scheduled' = scheduled \cup {Compute}
    /\ Goto(Control, "stopped")
    /\ UNCHANGED <<agent, op, ready, issued, count, phase, retiring, released, shutdown, queue>>

ControlStopped ==
    /\ pc[Control] = "stopped"
    /\ Goto(Control, "retire")
    /\ UNCHANGED <<agent, op, ready, issued, life>>

(***************************************************************************)
(* The compute process and the proactor finish issued operations.          *)
(***************************************************************************)
ComputeFinish(o) ==
    /\ pc[Compute] = "idle"
    /\ o \in issued /\ kind[o] = "compute"
    /\ phase # "compute"
    /\ issued' = issued \ {o}
    /\ \/ With(Compute, "complete", o, "ok")
       \/ o \in Fallible /\ With(Compute, "settle", o, "failed")
    /\ UNCHANGED <<op, ready, life>>

\* compute_process_drain completes in phase COMPUTE; its release callback
\* retires.
ComputeStop ==
    /\ pc[Compute] = "idle"
    /\ Compute \in scheduled
    /\ phase = "compute"
    /\ released' = released \cup {Compute}
    /\ Goto(Compute, "retire")
    /\ UNCHANGED <<agent, op, ready, issued, count, phase, retiring, scheduled, shutdown, queue>>

\* The final completion of a read or write (a partial one only resubmits): the
\* operation completes here, or on the control worker if its file needs one.
ProactorFinish(o) ==
    /\ pc[Proactor] = "idle"
    /\ o \in issued /\ kind[o] = "io"
    /\ issued' = issued \ {o}
    /\ \/ With(Proactor, "complete", o, "ok") /\ UNCHANGED flagged
       \/ With(Proactor, "hold", o, "ok") /\ flagged' = flagged \cup {o}
       \/ o \in Fallible /\ With(Proactor, "settle", o, "failed") /\ UNCHANGED flagged
    /\ UNCHANGED <<kind, memory, waitCount, left, errorStatus, outcome, ready, life>>

(***************************************************************************)
(* op_complete, op_fail, op_destroy and operation_end.                     *)
(***************************************************************************)
\* The signal semaphores are signalled; an operation whose barrier or signal
\* fails is failed instead.
CompleteOp(a) ==
    /\ pc[a] = "complete"
    /\ \/ /\ outcome' = [outcome EXCEPT ![arg[a]] = "ok"]
          /\ Goto(a, "free")
          /\ UNCHANGED agent
       \/ /\ arg[a] \in Fallible
          /\ With(a, "settle", arg[a], "failed")
          /\ UNCHANGED outcome
    /\ UNCHANGED <<kind, memory, waitCount, left, errorStatus, flagged, ready, issued, life>>

\* op_destroy with an error fails the signal semaphores.
Settle(a) ==
    /\ pc[a] = "settle"
    /\ outcome' = [outcome EXCEPT ![arg[a]] = "failed"]
    /\ Goto(a, "free")
    /\ UNCHANGED <<kind, agent, memory, waitCount, left, errorStatus, flagged, ready, issued, life>>

\* The arena goes, and the operation with it.
Free(a) ==
    /\ pc[a] = "free"
    /\ memory' = [memory EXCEPT ![arg[a]] = "freed"]
    /\ Goto(a, "end")
    /\ UNCHANGED <<kind, agent, waitCount, left, errorStatus, flagged, outcome,
                   ready, issued, life>>

\* operation_end: the last reference starts the shutdown.
OperationEnd(a) ==
    /\ pc[a] = "end"
    /\ count' = count - 1
    /\ Goto(a, IF count = 1 THEN "phase" ELSE Return(a))
    /\ UNCHANGED <<agent, op, ready, issued, phase, retiring, scheduled, released,
                   shutdown, queue>>

StorePhase(a) ==
    /\ pc[a] = "phase"
    /\ phase' = "control"
    /\ Goto(a, "schedule")
    /\ UNCHANGED <<agent, op, ready, issued, count, retiring, scheduled, released,
                   shutdown, queue>>

ScheduleControl(a) ==
    /\ pc[a] = "schedule"
    /\ scheduled' = scheduled \cup {Control}
    /\ Goto(a, "tail")
    /\ UNCHANGED <<agent, op, ready, issued, count, phase, retiring, released, shutdown, queue>>

ScheduleTail(a) ==
    /\ pc[a] = "tail"
    /\ Goto(a, "retire")
    /\ UNCHANGED <<agent, op, ready, issued, life>>

(***************************************************************************)
(* shutdown_retire and deinitialize.                                       *)
(***************************************************************************)
Retire(a) ==
    /\ pc[a] = "retire"
    /\ retiring' = retiring - 1
    /\ Goto(a, IF retiring = 1 THEN "lock" ELSE Return(a))
    /\ UNCHANGED <<agent, op, ready, issued, count, phase, scheduled, released,
                   shutdown, queue>>

ShutdownLock(a) ==
    /\ pc[a] = "lock"
    /\ ~shutdown.lock
    /\ shutdown' = [lock |-> TRUE, completed |-> TRUE]
    /\ Goto(a, "post")
    /\ UNCHANGED <<agent, op, ready, issued, count, phase, retiring, scheduled, released, queue>>

\* The post on the notification, before the mutex is released.
ShutdownPost(a) ==
    /\ pc[a] = "post"
    /\ Goto(a, "unlock")
    /\ UNCHANGED <<agent, op, ready, issued, life>>

ShutdownUnlock(a) ==
    /\ pc[a] = "unlock"
    /\ shutdown' = [shutdown EXCEPT !.lock = FALSE]
    /\ Goto(a, Return(a))
    /\ UNCHANGED <<agent, op, ready, issued, count, phase, retiring, scheduled, released, queue>>

\* The last owner of the queue lets go once its own calls have returned.
Close ==
    /\ pc[Destroyer] = "close"
    /\ \A o \in Ops : pc[Submitter(o)] \in {"begin", "done"}
    /\ Goto(Destroyer, "end")
    /\ UNCHANGED <<agent, op, ready, issued, life>>

\* Mutant: the condition of the await is read without the mutex.
ShutdownSeenUnlocked(s) == s.completed

\* iree_hal_task_queue_shutdown_completed: the mutex is taken to read it.
ShutdownSeen(s) == s.completed /\ ~s.lock

\* The await returns; the shutdown block and the queue are gone.
Await ==
    /\ pc[Destroyer] = "await"
    /\ ShutdownSeen(shutdown)
    /\ queue' = "freed"
    /\ Goto(Destroyer, "done")
    /\ UNCHANGED <<agent, op, ready, issued, count, phase, retiring, scheduled, released, shutdown>>

Submit(o) == \/ SubmitBegin(o) \/ SubmitDiscard(o) \/ SubmitFails(o) \/ SubmitFinish(o)
             \/ Register(o) \/ RegisterFails(o) \/ Subtract(o)
Callbacked(a) == Record(a) \/ Decrement(a) \/ Last(a)
ControlStep == ControlRun \/ ControlPop \/ SignalFirst \/ HostCall \/ ControlEmpty
                   \/ ControlCheck \/ ControlStop \/ ControlRouse \/ ControlStopped
ComputeStep == ComputeStop \/ \E o \in Ops : ComputeFinish(o)
ProactorStep == \E o \in Ops : ProactorFinish(o)
Shared(a) == \/ Hold(a) \/ Push(a) \/ Wake(a) \/ Woken(a)
             \/ CompleteOp(a) \/ Settle(a) \/ Free(a) \/ OperationEnd(a)
             \/ StorePhase(a) \/ ScheduleControl(a) \/ ScheduleTail(a)
             \/ Retire(a) \/ ShutdownLock(a) \/ ShutdownPost(a) \/ ShutdownUnlock(a)

Next ==
    \/ \E o \in Ops : Submit(o)
    \/ \E a \in Callbacks : Resolve(a) \/ Callbacked(a)
    \/ ControlStep \/ ComputeStep \/ ProactorStep
    \/ \E a \in Agents : Shared(a)
    \/ Close \/ Await

Spec == Init /\ [][Next]_vars

\* Threads run, the executor drains a scheduled process, I/O completes, the
\* semaphores waited for are eventually signalled or failed, a call that was
\* made returns, and the owner eventually lets go of the queue.
FairSpec ==
    /\ Spec
    /\ \A o \in Ops : WF_vars(pc[Submitter(o)] # "begin" /\ Submit(o))
    /\ \A a \in Callbacks : WF_vars(Resolve(a) \/ Callbacked(a))
    /\ WF_vars(ControlStep) /\ WF_vars(ComputeStep) /\ WF_vars(ProactorStep)
    /\ \A a \in Agents : WF_vars(Shared(a))
    /\ WF_vars(Close) /\ WF_vars(Await)

(***************************************************************************)
(* Properties.                                                             *)
(***************************************************************************)
OpLabels == {"finish", "register", "subtract", "record", "decrement", "last",
             "hold", "push", "announce", "call", "complete", "settle", "free"}
QueueLabels == {"hold", "push", "wake", "woken", "end", "phase", "schedule", "tail",
                "retire", "lock", "post", "unlock", "pop", "check", "stop",
                "rouse", "stopped"}
Labels == OpLabels \cup QueueLabels
              \cup {"begin", "unregistered", "registered", "idle", "close", "await", "done"}

TypeOK ==
    /\ pc \in [Agents -> Labels] /\ arg \in [Agents -> Ops \cup {NoOp}]
    /\ status \in [Agents -> {"ok", "failed", "discarded"}]
    /\ kind \in [Ops -> Kinds \cup {"none"}]
    /\ memory \in [Ops -> {"none", "live", "freed"}]
    /\ waitCount \in [Ops -> Int] /\ left \in [Ops -> Nat]
    /\ errorStatus \in [Ops -> BOOLEAN]
    /\ flagged \subseteq Ops /\ issued \subseteq Ops /\ ready \in Seq(Ops)
    /\ count \in Nat /\ retiring \in 0 .. 3
    /\ phase \in {"running", "control", "compute"}
    /\ scheduled \subseteq {Control, Compute} /\ released \subseteq {Control, Compute}
    /\ shutdown \in [lock : BOOLEAN, completed : BOOLEAN]
    /\ queue \in {"live", "freed"}
    /\ outcome \in [Ops -> {"none", "ok", "failed", "deferred"}]

\* Nobody touches an operation after its arena is gone: not a wait that fires
\* late, not the submitter whose registration failed, not a list it is still on.
OpOutlivesUse ==
    /\ \A a \in Agents : pc[a] \in OpLabels => memory[arg[a]] = "live"
    /\ \A o \in Ops : (o \in issued \/ \E k \in 1 .. Len(ready) : ready[k] = o)
                          => memory[o] = "live"

\* The queue, its executor reference and the shutdown block on the destroyer's
\* stack outlive every tail: a readiness callback that still wakes the control
\* process, the release callbacks, the scheduling of the shutdown, the unlock.
QueueOutlivesUse == queue = "freed" => \A a \in Agents : pc[a] \notin QueueLabels

\* Who may decide what becomes of operation o next.
Owners(o) ==
    {a \in Agents : arg[a] = o /\ pc[a] \in {"last", "hold", "push", "announce", "call",
                                            "complete", "settle", "free"}}
        \cup {k \in 1 .. Len(ready) : ready[k] = o}
        \cup (IF o \in issued THEN {"issued"} ELSE {})

\* An operation has one owner at a time and reaches its owner once: it is not
\* ready twice, not ready and issued, not destroyed by two waits.
OneOwner == \A o \in Ops : Cardinality(Owners(o)) <= 1

\* Operations change hands safely: one owner, and no use after the last.
OperationsAreOwned == TypeOK /\ OpOutlivesUse /\ OneOwner

\* Success is signalled, and a host call gets to take the semaphores over, only
\* if no wait failed and the operation was accepted.  An operation that is gone
\* has told its waiters so or has left that to its host call, unless it was
\* discarded before anybody could wait for it.  Nobody is about to settle what
\* is settled or was left to the host call: a NON_BLOCKING call that fails, and
\* a deferred one, leave the semaphores alone (hal/queue.h: DEFERRED "transfers
\* completion ownership to the callback").
OutcomeIsTrue ==
    \A o \in Ops :
        /\ outcome[o] \in {"ok", "deferred"} =>
               \A i \in 1 .. WaitsOf[o] :
                   \/ pc[Callback(o, i)] = "unregistered"
                   \/ pc[Callback(o, i)] # "registered" /\ status[Callback(o, i)] = "ok"
        /\ memory[o] = "freed" =>
               (outcome[o] = "none" <=> status[Submitter(o)] = "discarded")
        /\ \A a \in Agents :
               arg[a] = o /\ pc[a] \in {"announce", "complete", "settle"} =>
                   outcome[o] = "none"

\* Shutdown begins only when nothing accepted is left: no operation, no entry on
\* a list, no callback on its way to the queue.
ShutdownIsLast ==
    phase # "running" =>
        /\ \A o \in Ops : memory[o] # "live"
        /\ ready = <<>> /\ issued = {}
        /\ \A a \in Agents : pc[a] \notin {"hold", "push", "wake", "woken"}

\* Shutdown starts after the last operation and ends after the last use.
ShutdownIsOrderly == ShutdownIsLast /\ QueueOutlivesUse

\* Once the owner lets go, and every wait resolves, the queue is torn down:
\* the operations drain, control stops, then compute, and the destroyer wakes.
QueueShutsDown == <>(queue = "freed")
=============================================================================
