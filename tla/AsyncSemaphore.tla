--------------------------- MODULE AsyncSemaphore ---------------------------
(***************************************************************************)
(* runtime/src/iree/async/semaphore.c: timeline semaphores whose value and *)
(* failure are lock-free atomics, and whose pending timepoints and         *)
(* frontier are guarded by a mutex.  Callbacks run with no lock held, on   *)
(* the thread that signals, fails or registers; the callback of a link     *)
(* signals or fails another semaphore, so calls nest.                      *)
(*                                                                         *)
(* A thread has a stack of frames, the top frame's pc says which atomic    *)
(* operation or which critical section comes next.  The four-way heap of   *)
(* pending timepoints is the set of its members (callback order is         *)
(* unspecified); a frontier is a function from axes to epochs, 0 where it  *)
(* has no entry.  A CAS loop is the CAS that ends it.                      *)
(***************************************************************************)
EXTENDS Integers, Sequences, FiniteSets

CONSTANTS
  Semaphores, Timepoints, Threads,
  Axes,              \* axes a frontier may mention
  FrontierCapacity,  \* frontier_capacity of every semaphore
  InlineCapacity,    \* IREE_ASYNC_SEMAPHORE_INLINE_TIMEPOINT_CAPACITY
  Failures,          \* statuses a client fails a semaphore with
  Scripts            \* what the threads call, one sequence of calls each

None == "none"
InvalidArgument == "invalid_argument"
AllFailures == Failures \cup {InvalidArgument, "cancelled"}

\* The calls of the API, with their arguments; an operand of a multi-wait is a
\* semaphore, the value waited for and the timepoint that waits.
Operands == [sem : Semaphores, value : Nat, tp : Timepoints]
Calls ==
  [op : {"signal", "untainted", "publish", "taint", "merge_frontier"},
   sem : Semaphores, value : Nat, frontier : [Axes -> Nat]]
  \cup [op : {"fail"}, sem : Semaphores, status : Failures]
  \cup [op : {"release"}, sem : Semaphores]
  \cup [op : {"acquire", "resolve"}, tp : Timepoints, sem : Semaphores, value : Nat,
        target : {None}, targetValue : {0}]
  \cup [op : {"link"}, tp : Timepoints, sem : Semaphores, value : Nat,
        target : Semaphores, targetValue : Nat]
  \cup [op : {"cancel"}, tp : Timepoints]
  \cup [op : {"wait"}, mode : {"all", "any"}, operands : Seq(Operands),
        timeout : {"immediate", "finite", "infinite"}]

ASSUME SemaphoreAssumption ==
  /\ \A script \in Scripts : script \in [Threads -> Seq(Calls)]
  /\ IsFiniteSet(Semaphores) /\ IsFiniteSet(Timepoints)
  /\ None \notin Threads \cup Timepoints \cup Semaphores
  /\ InlineCapacity \in Nat \ {0} /\ FrontierCapacity \in Nat
  /\ "ok" \notin AllFailures

VARIABLES
  timeline_value,        \* semaphore -> value
  failure_status,        \* semaphore -> "ok" or the status that failed it
  last_untainted_value,  \* semaphore -> watermark
  frontier,              \* semaphore -> axis -> epoch
  timepoints,            \* semaphore -> pending timepoints (the heap's members)
  capacity,              \* semaphore -> allocated heap entries
  mutex,                 \* semaphore -> holder or None
  alive,                 \* semaphore -> not destroyed
  tp,                    \* timepoint -> record
  stack,                 \* thread -> frames, innermost first
  todo                   \* thread -> calls it still makes

semVars == <<timeline_value, failure_status, last_untainted_value, frontier, timepoints,
             capacity, mutex, alive>>
vars == <<timeline_value, failure_status, last_untainted_value, frontier, timepoints,
          capacity, mutex, alive, tp, stack, todo>>

NoFrontier == [a \in Axes |-> 0]

\* A timepoint: where it is in its life, what it waits for and its callback:
\* "user" (the client is told), "link" (relayed to another semaphore) or
\* "wait" (an operand of a multi-wait).
IdleTimepoint ==
  [state |-> "idle", sem |-> None, min |-> 0, late |-> FALSE, status |-> "ok",
   callback |-> "user", target |-> None, targetValue |-> 0]

Ended == {"idle", "answered", "withdrawn"}
TimepointStates == {"acquiring", "pending", "detached"} \cup Ended

\* A frame: the next step, its semaphore, the value and frontier of a signal
\* or the status of a failure, the timepoints it has detached, the timepoint
\* it registers; kind tells the three signal operations apart, relay a signal
\* made by a link.
Frame(pc, s) ==
  [pc |-> pc, sem |-> s, value |-> 0, frontier |-> NoFrontier, status |-> "ok",
   list |-> {}, tp |-> None, kind |-> "signal", relay |-> FALSE]

SignalFrame(kind, s, v, f) ==
  [Frame(IF kind = "untainted" THEN "cas" ELSE "check", s) EXCEPT
     !.kind = kind, !.value = v, !.frontier = f]
FailFrame(s, status) == [Frame("fail", s) EXCEPT !.status = status]
DispatchFrame(s, list, status) ==
  [Frame("dispatch", s) EXCEPT !.list = list, !.status = status]

Init ==
  /\ timeline_value = [s \in Semaphores |-> 0]
  /\ last_untainted_value = [s \in Semaphores |-> 0]
  /\ failure_status = [s \in Semaphores |-> "ok"]
  /\ frontier = [s \in Semaphores |-> NoFrontier]
  /\ timepoints = [s \in Semaphores |-> {}]
  /\ capacity = [s \in Semaphores |-> InlineCapacity]
  /\ mutex = [s \in Semaphores |-> None]
  /\ alive = [s \in Semaphores |-> TRUE]
  /\ tp = [p \in Timepoints |-> IdleTimepoint]
  /\ stack = [t \in Threads |-> <<>>]
  /\ todo \in Scripts

----------------------------------------------------------------------------
(* Frames.                                                                 *)

Top(t) == Head(stack[t])
At(t, pc) == stack[t] # <<>> /\ Top(t).pc = pc
Become(t, f) == stack' = [stack EXCEPT ![t] = <<f>> \o Tail(@)]
Goto(t, pc) == Become(t, [Top(t) EXCEPT !.pc = pc])
Return(t) == stack' = [stack EXCEPT ![t] = Tail(@)]

\* A signal that returns an error; link_callback then fails its target.
ReturnError(t, status) ==
  IF Top(t).relay THEN Become(t, FailFrame(Top(t).sem, status)) ELSE Return(t)

Unlocked(s) == mutex[s] = None

\* The thread is in a call on the semaphore.
Inside(t, s) == \E i \in 1..Len(stack[t]) : stack[t][i].sem = s

----------------------------------------------------------------------------
(* iree_async_semaphore_signal (default_signal: advance_timeline, then     *)
(* dispatch_timepoints), _signal_untainted and _publish_untainted.         *)

Failed(s) == failure_status[s] # "ok"

\* signal and publish return the failure of a failed semaphore; publish looks
\* a second time after its CAS.
SignalCheck(t) ==
  LET s == Top(t).sem
  IN  /\ At(t, "check") \/ At(t, "recheck")
      /\ IF Failed(s) THEN ReturnError(t, failure_status[s])
                      ELSE Goto(t, IF Top(t).pc = "check" THEN "cas" ELSE "merge")
      /\ UNCHANGED <<semVars, tp, todo>>

Passes(s, v) == v > timeline_value[s]

SignalCas(t) ==
  LET f == Top(t)
      s == f.sem
  IN  /\ At(t, "cas") /\ Passes(s, f.value)
      /\ timeline_value' = [timeline_value EXCEPT ![s] = f.value]
      /\ Goto(t, IF f.kind = "publish" THEN "recheck" ELSE "merge")
      /\ UNCHANGED <<failure_status, last_untainted_value, frontier, timepoints, capacity,
                     mutex, alive, tp, todo>>

\* Strict signals of a value that was already passed are errors, a
\* publication of it is not.
SignalPast(t) ==
  /\ At(t, "cas") /\ ~Passes(Top(t).sem, Top(t).value)
  /\ IF Top(t).kind = "publish" THEN Return(t) ELSE ReturnError(t, InvalidArgument)
  /\ UNCHANGED <<semVars, tp, todo>>

\* iree_async_frontier_merge: component-wise maximum, if it fits.
Merged(f, g) == [a \in Axes |-> IF f[a] > g[a] THEN f[a] ELSE g[a]]
Fits(f) == Cardinality({a \in Axes : f[a] # 0}) <= FrontierCapacity

\* The watermark moves only if the frontier of the signal was taken in.
AfterMerge(f, merged) == IF merged /\ f.kind # "signal" THEN "mark" ELSE "collect"

\* An empty frontier is not merged and takes no lock.
SignalMerge(t) ==
  LET f == Top(t)
      s == f.sem
  IN  /\ At(t, "merge") /\ (f.frontier # NoFrontier => Unlocked(s))
      /\ frontier' = [frontier EXCEPT ![s] =
                        IF Fits(Merged(@, f.frontier)) THEN Merged(@, f.frontier) ELSE @]
      /\ Goto(t, AfterMerge(f, Fits(Merged(frontier[s], f.frontier))))
      /\ UNCHANGED <<timeline_value, failure_status, last_untainted_value, timepoints,
                     capacity, mutex, alive, tp, todo>>

SignalMark(t) ==
  /\ At(t, "mark")
  /\ last_untainted_value' = [last_untainted_value EXCEPT ![Top(t).sem] =
                                IF Top(t).value > @ THEN Top(t).value ELSE @]
  /\ Goto(t, "collect")
  /\ UNCHANGED <<timeline_value, failure_status, frontier, timepoints, capacity, mutex,
                 alive, tp, todo>>

Due(s, v) == {p \in timepoints[s] : tp[p].min <= v}

Detach(list) == tp' = [p \in Timepoints |->
                         IF p \in list THEN [tp[p] EXCEPT !.state = "detached"] ELSE tp[p]]

\* dispatch_timepoints, phase 1.
Collect(t) ==
  LET f == Top(t)
      s == f.sem
  IN  /\ At(t, "collect") /\ Unlocked(s)
      /\ Detach(Due(s, f.value))
      /\ timepoints' = [timepoints EXCEPT ![s] = @ \ Due(s, f.value)]
      /\ Become(t, DispatchFrame(s, Due(s, f.value), "ok"))
      /\ UNCHANGED <<timeline_value, failure_status, last_untainted_value, frontier,
                     capacity, mutex, alive, todo>>

----------------------------------------------------------------------------
(* iree_async_semaphore_fail and _deinitialize.                            *)

\* Mutant of FailWins: a later failure replaces the first one.
FailWinsLast(s) == TRUE

FailWins(s) == ~Failed(s)

FailCas(t) ==
  LET s == Top(t).sem
  IN  /\ At(t, "fail")
      /\ IF FailWins(s)
         THEN failure_status' = [failure_status EXCEPT ![s] = Top(t).status] /\ Goto(t, "flush")
         ELSE UNCHANGED failure_status /\ Return(t)
      /\ UNCHANGED <<timeline_value, last_untainted_value, frontier, timepoints, capacity,
                     mutex, alive, tp, todo>>

\* detach_all_locked for dispatch_timepoints_failed; deinitialize does the
\* same with CANCELLED.
DetachAll(t, status) ==
  LET s == Top(t).sem
  IN  /\ Unlocked(s)
      /\ Detach(timepoints[s])
      /\ timepoints' = [timepoints EXCEPT ![s] = {}]
      /\ Become(t, DispatchFrame(s, timepoints[s], status))
      /\ UNCHANGED <<timeline_value, failure_status, last_untainted_value, frontier,
                     capacity, mutex, alive, todo>>

FailFlush(t) == At(t, "flush") /\ DetachAll(t, Top(t).status)
Deinitialize(t) == At(t, "deinit") /\ DetachAll(t, "cancelled")

----------------------------------------------------------------------------
(* dispatch_detached: callbacks, one after the other, with no lock held.   *)

\* What the callback runs: link_callback signals or fails its target.
Callback(p, status) ==
  CASE tp[p].callback = "user" -> <<>>
    [] tp[p].callback = "link" ->
         IF status = "ok"
         THEN << [SignalFrame("signal", tp[p].target, tp[p].targetValue, NoFrontier)
                    EXCEPT !.relay = TRUE] >>
         ELSE << FailFrame(tp[p].target, status) >>
    [] tp[p].callback = "wait" -> << [Frame("cb_failure", tp[p].sem) EXCEPT
                                        !.tp = p, !.status = status] >>

Answer(p, status) == tp' = [tp EXCEPT ![p].state = "answered", ![p].status = status]

Dispatch(t) ==
  /\ At(t, "dispatch")
  /\ \E p \in Top(t).list :
       LET f == [Top(t) EXCEPT !.list = @ \ {p}]
       IN  /\ Answer(p, f.status)
           /\ stack' = [stack EXCEPT ![t] = Callback(p, f.status) \o <<f>> \o Tail(@)]
  /\ UNCHANGED <<semVars, todo>>

DispatchEnd(t) ==
  /\ At(t, "dispatch") /\ Top(t).list = {}
  /\ Return(t)
  /\ UNCHANGED <<semVars, tp, todo>>

----------------------------------------------------------------------------
(* iree_async_semaphore_acquire_timepoint and _resolve.                    *)

\* Answers the timepoint on the calling thread.
AnswerNow(t, status) ==
  /\ Become(t, [DispatchFrame(Top(t).sem, {Top(t).tp}, status) EXCEPT !.tp = Top(t).tp])
  /\ Detach({Top(t).tp})

Reached(t) == timeline_value[Top(t).sem] >= tp[Top(t).tp].min

\* The two checks before the lock; resolve makes them once more of its own.
AcquireFailure(t) ==
  /\ At(t, "resolve_failure") \/ At(t, "acquire_failure")
  /\ IF Failed(Top(t).sem)
     THEN AnswerNow(t, failure_status[Top(t).sem])
     ELSE /\ Goto(t, IF Top(t).pc = "resolve_failure" THEN "resolve_value" ELSE "acquire_value")
          /\ UNCHANGED tp
  /\ UNCHANGED <<semVars, todo>>

AcquireValue(t) ==
  /\ At(t, "resolve_value") \/ At(t, "acquire_value")
  /\ IF Reached(t)
     THEN AnswerNow(t, "ok")
     ELSE /\ Goto(t, IF Top(t).pc = "resolve_value" THEN "resolve_alloc" ELSE "acquire_lock")
          /\ UNCHANGED tp
  /\ UNCHANGED <<semVars, todo>>

\* Nothing was registered: the caller keeps the timepoint.
Refuse(t) == Return(t) /\ tp' = [tp EXCEPT ![Top(t).tp].state = "withdrawn"]

\* The wrapper of a resolve is allocated, or not.
ResolveAllocate(t) ==
  /\ At(t, "resolve_alloc")
  /\ (Goto(t, "acquire_failure") /\ UNCHANGED tp) \/ Refuse(t)
  /\ UNCHANGED <<semVars, todo>>

\* Mutant of RecheckPasses: the value is not read again under the lock.
RecheckPassesNever(t) == FALSE

\* "A publisher updates the value before taking this mutex to dispatch."
RecheckPasses(t) == Reached(t)

AcquireLock(t) ==
  LET s == Top(t).sem
  IN  /\ At(t, "acquire_lock") /\ Unlocked(s)
      /\ IF RecheckPasses(t)
         THEN AnswerNow(t, "ok") /\ UNCHANGED mutex
         ELSE Goto(t, "acquire_insert") /\ mutex' = [mutex EXCEPT ![s] = t] /\ UNCHANGED tp
      /\ UNCHANGED <<timeline_value, failure_status, last_untainted_value, frontier,
                     timepoints, capacity, alive, todo>>

\* Still locked: look for a failure once more, index the timepoint, unlock.
AcquireAnswered(t) ==
  LET s == Top(t).sem
  IN  /\ At(t, "acquire_insert") /\ Failed(s)
      /\ AnswerNow(t, failure_status[s])
      /\ mutex' = [mutex EXCEPT ![s] = None]
      /\ UNCHANGED <<timeline_value, failure_status, last_untainted_value, frontier,
                     timepoints, capacity, alive, todo>>

InsertChecks(s) == ~Failed(s)

Full(s) == Cardinality(timepoints[s]) = capacity[s]

\* grow_timepoints_locked doubles a full index, or the allocation fails.
AcquireInsert(t) ==
  LET s == Top(t).sem
      p == Top(t).tp
  IN  /\ At(t, "acquire_insert") /\ InsertChecks(s)
      /\ \/ /\ timepoints' = [timepoints EXCEPT ![s] = @ \cup {p}]
            /\ capacity' = [capacity EXCEPT ![s] = IF Full(s) THEN 2 * @ ELSE @]
            /\ tp' = [tp EXCEPT ![p].state = "pending"]
            /\ Return(t)
         \/ Full(s) /\ Refuse(t) /\ UNCHANGED <<timepoints, capacity>>
      /\ mutex' = [mutex EXCEPT ![s] = None]
      /\ UNCHANGED <<timeline_value, failure_status, last_untainted_value, frontier, alive,
                     todo>>

----------------------------------------------------------------------------
(* iree_async_semaphore_cancel_timepoint (and _unlink).                    *)

\* heap_index says whether the timepoint is still in the heap.
Cancellable(p) == tp[p].state = "pending"

\* One critical section; the timepoint will not be called back if it was
\* still pending.
CancelTimepoint(p) ==
  /\ Unlocked(tp[p].sem)
  /\ timepoints' = [timepoints EXCEPT ![tp[p].sem] = @ \ {p}]
  /\ tp' = [tp EXCEPT ![p].state = IF Cancellable(p) THEN "withdrawn" ELSE @]
  /\ UNCHANGED <<timeline_value, failure_status, last_untainted_value, frontier, capacity,
                 mutex, alive>>

\* The thread that cancels joined acquire_timepoint before, and the semaphore
\* is alive.
Cancel(t) ==
  /\ At(t, "cancel") /\ CancelTimepoint(Top(t).tp)
  /\ Return(t)
  /\ UNCHANGED todo

----------------------------------------------------------------------------
(* iree_async_semaphore_mark_tainted_above and _merge_frontier.            *)

Lowered(watermark, threshold) == IF threshold < watermark THEN threshold ELSE watermark

MarkTainted(t) ==
  /\ At(t, "taint")
  /\ last_untainted_value' =
       [last_untainted_value EXCEPT ![Top(t).sem] = Lowered(@, Top(t).value)]
  /\ Return(t)
  /\ UNCHANGED <<timeline_value, failure_status, frontier, timepoints, capacity, mutex,
                 alive, tp, todo>>

MergeFrontier(t) ==
  LET f == Top(t)
      s == f.sem
  IN  /\ At(t, "merge_frontier") /\ (f.frontier # NoFrontier => Unlocked(s))
      /\ frontier' = [frontier EXCEPT ![s] =
                        IF Fits(Merged(@, f.frontier)) THEN Merged(@, f.frontier) ELSE @]
      /\ Return(t)
      /\ UNCHANGED <<timeline_value, failure_status, last_untainted_value, timepoints,
                     capacity, mutex, alive, tp, todo>>

----------------------------------------------------------------------------
(* Calls.  A client calls on live semaphores only; the last reference is   *)
(* released when nobody is inside, and no link still points at it; a       *)
(* timepoint is registered by its owner, and cancelled by a thread that    *)
(* knows its registration has returned.                                    *)

Acquiring(s, min) ==
  [IdleTimepoint EXCEPT !.state = "acquiring", !.sem = s, !.min = min, !.late = Failed(s)]

Quiescent(s) ==
  /\ \A t \in Threads : ~Inside(t, s)
  /\ \A p \in Timepoints : tp[p].target = s => tp[p].state \in Ended

Begin(t, f) ==
  /\ stack' = [stack EXCEPT ![t] = <<f>>]
  /\ todo' = [todo EXCEPT ![t] = Tail(@)]

CallSignal(t, c) ==
  /\ c.op \in {"signal", "untainted", "publish"} /\ alive[c.sem]
  /\ Begin(t, SignalFrame(c.op, c.sem, c.value, c.frontier))
  /\ UNCHANGED <<semVars, tp>>

CallFail(t, c) ==
  /\ c.op = "fail" /\ alive[c.sem]
  /\ Begin(t, FailFrame(c.sem, c.status))
  /\ UNCHANGED <<semVars, tp>>

CallTaint(t, c) ==
  /\ c.op \in {"taint", "merge_frontier"} /\ alive[c.sem]
  /\ Begin(t, [Frame(c.op, c.sem) EXCEPT !.value = c.value, !.frontier = c.frontier])
  /\ UNCHANGED <<semVars, tp>>

CallRelease(t, c) ==
  /\ c.op = "release" /\ alive[c.sem] /\ Quiescent(c.sem)
  /\ alive' = [alive EXCEPT ![c.sem] = FALSE]
  /\ Begin(t, Frame("deinit", c.sem))
  /\ UNCHANGED <<timeline_value, failure_status, last_untainted_value, frontier, timepoints,
                 capacity, mutex, tp>>

CallAcquire(t, c) ==
  /\ c.op \in {"acquire", "resolve", "link"} /\ alive[c.sem]
  /\ tp[c.tp].state \in Ended /\ (c.op = "link" => alive[c.target])
  /\ tp' = [tp EXCEPT ![c.tp] =
              [Acquiring(c.sem, c.value) EXCEPT
                 !.callback = IF c.op = "link" THEN "link" ELSE "user",
                 !.target = c.target, !.targetValue = c.targetValue]]
  /\ Begin(t, [Frame(IF c.op = "resolve" THEN "resolve_failure" ELSE "acquire_failure", c.sem)
                 EXCEPT !.tp = c.tp])
  /\ UNCHANGED semVars

CallCancel(t, c) ==
  /\ c.op = "cancel" /\ tp[c.tp].state \notin {"idle", "acquiring"} /\ alive[tp[c.tp].sem]
  /\ \A u \in Threads : \A i \in 1..Len(stack[u]) : stack[u][i].tp # c.tp
  /\ Begin(t, [Frame("cancel", tp[c.tp].sem) EXCEPT !.tp = c.tp])
  /\ UNCHANGED <<semVars, tp>>

Call(t) ==
  /\ stack[t] = <<>> /\ todo[t] # <<>>
  /\ LET c == Head(todo[t])
     IN  \/ CallSignal(t, c) \/ CallFail(t, c) \/ CallTaint(t, c) \/ CallRelease(t, c)
         \/ CallAcquire(t, c) \/ CallCancel(t, c)

----------------------------------------------------------------------------
Step(t) ==
  \/ SignalCheck(t) \/ SignalCas(t) \/ SignalPast(t) \/ SignalMerge(t) \/ SignalMark(t)
  \/ Collect(t) \/ FailCas(t) \/ FailFlush(t) \/ Deinitialize(t)
  \/ Dispatch(t) \/ DispatchEnd(t)
  \/ AcquireFailure(t) \/ AcquireValue(t) \/ ResolveAllocate(t)
  \/ AcquireLock(t) \/ AcquireAnswered(t) \/ AcquireInsert(t)
  \/ Cancel(t) \/ MarkTainted(t) \/ MergeFrontier(t)

Next == \E t \in Threads : Call(t) \/ Step(t)

Spec == Init /\ [][Next]_vars

\* A thread inside a call keeps running; clients may stop calling.
FairSpec == Spec /\ \A t \in Threads : WF_vars(Step(t))
----------------------------------------------------------------------------
(* Properties.                                                             *)

TypeOK ==
  /\ timeline_value \in [Semaphores -> Nat]
  /\ last_untainted_value \in [Semaphores -> Nat]
  /\ failure_status \in [Semaphores -> {"ok"} \cup AllFailures]
  /\ frontier \in [Semaphores -> [Axes -> Nat]]
  /\ timepoints \in [Semaphores -> SUBSET Timepoints]
  /\ capacity \in [Semaphores -> Nat]
  /\ mutex \in [Semaphores -> Threads \cup {None}]
  /\ alive \in [Semaphores -> BOOLEAN]
  /\ \A p \in Timepoints : tp[p].state \in TimepointStates
  /\ \A s \in Semaphores : /\ Cardinality(timepoints[s]) <= capacity[s]
                            /\ last_untainted_value[s] <= timeline_value[s]

\* What the thread still has to do will reach the timepoints of s waiting for
\* at most v.
WillCollect(s, v) ==
  \E t \in Threads : \E i \in 1..Len(stack[t]) :
    LET f == stack[t][i]
    IN  /\ f.sem = s
        /\ \/ f.pc \in {"merge", "mark", "collect"} /\ f.value >= v
           \/ f.pc = "recheck" /\ f.value >= v /\ ~Failed(s)
           \/ f.pc = "flush"

\* No timepoint is left behind in the heap: when the value it waits for has
\* been published, or the semaphore has failed, some thread is on its way to
\* the critical section that takes it out (the lock-free publication and the
\* registration under the lock cannot miss each other).
NoTimepointIsStranded ==
  \A s \in Semaphores : \A p \in timepoints[s] :
    Failed(s) \/ timeline_value[s] >= tp[p].min => WillCollect(s, tp[p].min)

\* Who will call the timepoint back: dispatch lists of the threads' frames.
Dispatchers(p) ==
  UNION {{<<t, i>> : i \in {j \in 1..Len(stack[t]) : p \in stack[t][j].list}} : t \in Threads}

\* A timepoint is in the heap, or on exactly one dispatch list, or back with
\* its owner: its callback runs at most once, and not after a cancellation
\* that reported success.
OneOwner ==
  \A p \in Timepoints :
    /\ \A s \in Semaphores : p \in timepoints[s] <=> tp[p].state = "pending" /\ tp[p].sem = s
    /\ Cardinality(Dispatchers(p)) = IF tp[p].state = "detached" THEN 1 ELSE 0

\* The promise a timepoint stands for.
Promise(p) ==
  CASE tp[p].state \in {"acquiring", "pending", "detached"} ->
         [state |-> "waiting", sem |-> tp[p].sem, min |-> tp[p].min, late |-> tp[p].late]
    [] tp[p].state = "answered" -> [state |-> "answered", status |-> tp[p].status]
    [] OTHER -> [state |-> "idle"]

Timeline ==
  INSTANCE AsyncTimeline WITH
    Failures <- AllFailures,
    timeline <- timeline_value,
    failure <- failure_status,
    destroyed <- {s \in Semaphores : ~alive[s]},
    promise <- [p \in Timepoints |-> Promise(p)]

\* The semaphores keep what semaphore.h promises: monotone timelines, the
\* first failure wins, every accepted timepoint is called back once and for a
\* reason that holds, or cancelled and never called back, and a timepoint
\* registered after the failure only ever hears of the failure.
ImplementsTimeline == Timeline!Spec
=============================================================================
