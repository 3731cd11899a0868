--------------------------- MODULE AsyncMultiWait ---------------------------
(***************************************************************************)
(* iree_async_semaphore_multi_wait (runtime/src/iree/async/semaphore.c): a *)
(* thread blocks until all, or any, of several semaphores reach their      *)
(* values.  It registers one timepoint per semaphore; the callbacks, on    *)
(* the signaling threads, count down in a state on the waiter's stack and  *)
(* post its notification.  A waiter that leaves early takes its timepoints *)
(* back and joins the callbacks that are already under way.                *)
(***************************************************************************)
EXTENDS AsyncSemaphore, ThreadNotification

\* The calls of a script, and the timepoints a call names.
CallsOf(script, t) == {script[t][k] : k \in 1..Len(script[t])}
Registered(c) ==
  CASE c.op \in {"acquire", "resolve", "link"} -> {c.tp}
    [] c.op = "wait" -> {c.operands[i].tp : i \in 1..Len(c.operands)}
    [] OTHER -> {}

\* A multi-wait allocates its timepoints, one per semaphore: nobody else
\* registers them.  It has operands (a wait for none returns at once), and its
\* own statuses are none that a client fails a semaphore with.
ASSUME WaitAssumption ==
  /\ \A script \in Scripts : \A t \in Threads : \A c \in CallsOf(script, t) :
       c.op = "wait" =>
         /\ c.operands # <<>>
         /\ \A i, j \in 1..Len(c.operands) : c.operands[i].tp = c.operands[j].tp => i = j
         /\ \A u \in Threads : \A d \in CallsOf(script, u) :
              Registered(c) \cap Registered(d) # {} => u = t /\ d.op = "wait"
  /\ {None, "deadline_exceeded", "resource_exhausted"} \cap AllFailures = {}

VARIABLE wait   \* thread -> its multi-wait

allVars == <<vars, wait>>

\* operands: sequence of [sem, value, tp]; live: the state on the stack is in
\* use; remaining, failure, note: iree_async_multi_wait_state_t; completed: the
\* operands' completed flags; next: the loop index; reached: operands a poll
\* found reached; polled: the value the poll has just read is enough.
NoWait ==
  [mode |-> "all", operands |-> <<>>, timeout |-> "infinite", live |-> FALSE,
   remaining |-> 0, failure |-> "ok", note |-> notification_initialize, completed |-> {},
   token |-> 0, next |-> 1, registered |-> 0, reached |-> 0, polled |-> FALSE,
   status |-> "ok", result |-> None]

WaitInit == Init /\ wait = [t \in Threads |-> NoWait]

Operand(t) == wait[t].operands[wait[t].next]
Count(t) == Len(wait[t].operands)
AtEnd(t) == wait[t].next > Count(t)

\* The wait whose timepoint this is.
WaiterOf(p) ==
  CHOOSE t \in Threads : \E i \in 1..Count(t) : wait[t].operands[i].tp = p

Set(t, w) == wait' = [wait EXCEPT ![t] = w]

\* The wait returns a status to its caller.
Finish(t, status) ==
  Return(t) /\ Set(t, [wait[t] EXCEPT !.live = FALSE, !.result = status])

----------------------------------------------------------------------------
(* Polling: a single operand, or an immediate timeout.                     *)

CallWait(t, c) ==
  /\ c.op = "wait" /\ \A i \in 1..Len(c.operands) : alive[c.operands[i].sem]
  /\ \A i \in 1..Len(c.operands) : tp[c.operands[i].tp].state \in Ended
  /\ Begin(t, Frame(IF Len(c.operands) = 1 \/ c.timeout = "immediate"
                    THEN "poll_value" ELSE "register", None))
  /\ Set(t, [NoWait EXCEPT !.mode = c.mode, !.operands = c.operands, !.timeout = c.timeout,
                           !.live = TRUE, !.remaining = Len(c.operands)])
  /\ UNCHANGED <<semVars, tp>>

\* The value is read before the failure.
PollValue(t) ==
  /\ At(t, "poll_value") /\ ~AtEnd(t)
  /\ Set(t, [wait[t] EXCEPT !.polled = timeline_value[Operand(t).sem] >= Operand(t).value])
  /\ Goto(t, "poll_failure")
  /\ UNCHANGED <<semVars, tp, todo>>

PollFailure(t) ==
  /\ At(t, "poll_failure")
  /\ IF Failed(Operand(t).sem)
     THEN Finish(t, failure_status[Operand(t).sem])
     ELSE /\ Set(t, [wait[t] EXCEPT !.next = @ + 1,
                                    !.reached = IF wait[t].polled THEN @ + 1 ELSE @])
          /\ Goto(t, "poll_value")
  /\ UNCHANGED <<semVars, tp, todo>>

PollEnd(t) ==
  LET w == wait[t]
      satisfied == IF w.mode = "all" THEN w.reached = Count(t) ELSE w.reached # 0
  IN  /\ At(t, "poll_value") /\ AtEnd(t)
      /\ CASE satisfied -> Finish(t, "ok")
           [] ~satisfied /\ w.timeout = "immediate" -> Finish(t, "deadline_exceeded")
           [] OTHER -> Set(t, [w EXCEPT !.next = 1]) /\ Goto(t, "register")
      /\ UNCHANGED <<semVars, tp, todo>>

----------------------------------------------------------------------------
(* Registration and the blocking loop.                                     *)

\* Calls acquire_timepoint for the next operand.
WaitRegister(t) ==
  LET o == Operand(t)
  IN  /\ At(t, "register") /\ ~AtEnd(t)
      /\ tp' = [tp EXCEPT ![o.tp] = [Acquiring(o.sem, o.value) EXCEPT !.callback = "wait"]]
      /\ stack' = [stack EXCEPT ![t] =
                     << [Frame("acquire_failure", o.sem) EXCEPT !.tp = o.tp],
                        [Top(t) EXCEPT !.pc = "registered"] >> \o Tail(@)]
      /\ UNCHANGED <<semVars, todo, wait>>

\* A refused registration ends the wait.
WaitRegistered(t) ==
  /\ At(t, "registered")
  /\ IF tp[Operand(t).tp].state = "withdrawn"
     THEN Set(t, [wait[t] EXCEPT !.status = "resource_exhausted", !.next = 1])
          /\ Goto(t, "cleanup")
     ELSE Set(t, [wait[t] EXCEPT !.registered = @ + 1, !.next = @ + 1]) /\ Goto(t, "register")
  /\ UNCHANGED <<semVars, tp, todo>>

\* iree_async_multi_wait_condition_fn: each load is monotone.
Condition(t) ==
  \/ wait[t].failure # "ok"
  \/ IF wait[t].mode = "all" THEN wait[t].remaining <= 0 ELSE wait[t].remaining < Count(t)

WaitCheck(t) ==
  /\ At(t, "register") /\ AtEnd(t)
  /\ Goto(t, IF Condition(t) THEN "status" ELSE "prepare")
  /\ UNCHANGED <<semVars, tp, todo, wait>>

WaitPrepare(t) ==
  /\ At(t, "prepare")
  /\ Set(t, [wait[t] EXCEPT !.token = wait[t].note.epoch, !.note = prepare_wait(@)])
  /\ Goto(t, "recheck_condition")
  /\ UNCHANGED <<semVars, tp, todo>>

\* Mutant of RecheckCondition: straight from prepare to commit.
RecheckConditionNever(t) == FALSE

RecheckCondition(t) == Condition(t)

WaitRecheck(t) ==
  /\ At(t, "recheck_condition")
  /\ IF RecheckCondition(t)
     THEN Set(t, [wait[t] EXCEPT !.note = cancel_wait(@)]) /\ Goto(t, "status")
     ELSE UNCHANGED wait /\ Goto(t, "commit")
  /\ UNCHANGED <<semVars, tp, todo>>

\* iree_notification_commit_wait: the epoch has moved, or the thread sleeps.
WaitCommit(t) ==
  /\ At(t, "commit")
  /\ IF Resolved(wait[t].note, wait[t].token)
     THEN Set(t, [wait[t] EXCEPT !.note = cancel_wait(@)]) /\ Goto(t, "prepare")
     ELSE Set(t, [wait[t] EXCEPT !.note = futex_wait(@, t, wait[t].token)]) /\ Goto(t, "asleep")
  /\ UNCHANGED <<semVars, tp, todo>>

WaitWoken(t) ==
  /\ At(t, "asleep") /\ t \notin wait[t].note.asleep
  /\ Goto(t, "commit")
  /\ UNCHANGED <<semVars, tp, todo, wait>>

\* The kernel may wake a thread for no reason.
WaitWokenSpuriously(t) ==
  /\ At(t, "asleep") /\ t \in wait[t].note.asleep
  /\ Set(t, [wait[t] EXCEPT !.note.asleep = {}])
  /\ UNCHANGED <<semVars, tp, todo, stack>>

\* The deadline passes during the wait; the condition is not read again.
WaitExpire(t) ==
  /\ At(t, "asleep") /\ wait[t].timeout = "finite"
  /\ Set(t, [wait[t] EXCEPT !.note = cancel_wait([@ EXCEPT !.asleep = {}]),
                            !.status = "deadline_exceeded", !.next = 1])
  /\ Goto(t, "cleanup")
  /\ UNCHANGED <<semVars, tp, todo>>

WaitStatus(t) ==
  /\ At(t, "status")
  /\ Set(t, [wait[t] EXCEPT !.status = wait[t].failure, !.next = 1])
  /\ Goto(t, "cleanup")
  /\ UNCHANGED <<semVars, tp, todo>>

----------------------------------------------------------------------------
(* Cleanup: cancel every registered timepoint, or join its callback.       *)

WaitCancel(t) ==
  /\ At(t, "cleanup") /\ wait[t].next <= wait[t].registered
  /\ CancelTimepoint(Operand(t).tp)
  /\ IF Cancellable(Operand(t).tp)
     THEN Set(t, [wait[t] EXCEPT !.next = @ + 1]) /\ UNCHANGED stack
     ELSE UNCHANGED wait /\ Goto(t, "join")
  /\ UNCHANGED todo

\* Mutant of Joined: the waiter trusts that a dispatched callback is over.
JoinedAlways(t) == TRUE

Joined(t) == Operand(t).tp \in wait[t].completed

WaitJoin(t) ==
  /\ At(t, "join") /\ Joined(t)
  /\ Set(t, [wait[t] EXCEPT !.next = @ + 1])
  /\ Goto(t, "cleanup")
  /\ UNCHANGED <<semVars, tp, todo>>

WaitEnd(t) ==
  /\ At(t, "cleanup") /\ wait[t].next > wait[t].registered
  /\ Finish(t, wait[t].status)
  /\ UNCHANGED <<semVars, tp, todo>>

----------------------------------------------------------------------------
(* iree_async_multi_wait_timepoint_callback, on the dispatching thread.    *)

CallbackStep(t, from, to, w) ==
  /\ At(t, from) /\ Goto(t, to)
  /\ Set(WaiterOf(Top(t).tp), w)
  /\ UNCHANGED <<semVars, tp, todo>>

Waited(t) == wait[WaiterOf(Top(t).tp)]

\* Mutant of RecordFailure: a failure is counted but not recorded.
RecordFailureMissing(t) == Waited(t).failure

\* The first failure is kept.
RecordFailure(t) == IF Waited(t).failure = "ok" THEN Top(t).status ELSE Waited(t).failure

CallbackFailure(t) ==
  CallbackStep(t, "cb_failure", "cb_count", [Waited(t) EXCEPT !.failure = RecordFailure(t)])

CallbackCount(t) ==
  CallbackStep(t, "cb_count", "cb_post", [Waited(t) EXCEPT !.remaining = @ - 1])

CallbackPost(t) ==
  CallbackStep(t, "cb_post", IF MustWake(Waited(t).note) THEN "cb_wake" ELSE "cb_complete",
               [Waited(t) EXCEPT !.note = post(@)])

CallbackWake(t) ==
  CallbackStep(t, "cb_wake", "cb_complete", [Waited(t) EXCEPT !.note = futex_wake(@)])

CallbackComplete(t) ==
  /\ At(t, "cb_complete") /\ Return(t)
  /\ Set(WaiterOf(Top(t).tp), [Waited(t) EXCEPT !.completed = @ \cup {Top(t).tp}])
  /\ UNCHANGED <<semVars, tp, todo>>

----------------------------------------------------------------------------
WaitStep(t) ==
  \/ PollValue(t) \/ PollFailure(t) \/ PollEnd(t)
  \/ WaitRegister(t) \/ WaitRegistered(t) \/ WaitCheck(t)
  \/ WaitPrepare(t) \/ WaitRecheck(t) \/ WaitCommit(t) \/ WaitWoken(t)
  \/ WaitStatus(t) \/ WaitCancel(t) \/ WaitJoin(t) \/ WaitEnd(t)
  \/ CallbackFailure(t) \/ CallbackCount(t) \/ CallbackPost(t) \/ CallbackWake(t)
  \/ CallbackComplete(t)

\* A semaphore outlives the waits on it.
WaitedOn(s) ==
  \E t \in Threads : wait[t].live /\ \E i \in 1..Count(t) : wait[t].operands[i].sem = s

CallOther(t) ==
  /\ Call(t) /\ (Head(todo[t]).op = "release" => ~WaitedOn(Head(todo[t]).sem))
  /\ UNCHANGED wait

WaitNext ==
  \E t \in Threads :
    \/ CallOther(t)
    \/ stack[t] = <<>> /\ todo[t] # <<>> /\ CallWait(t, Head(todo[t]))
    \/ Step(t) /\ UNCHANGED wait
    \/ WaitStep(t)
    \/ WaitWokenSpuriously(t) \/ WaitExpire(t)

WaitSpec == WaitInit /\ [][WaitNext]_allVars

\* A thread inside a call keeps running.  Deadlines and spurious wakes may
\* never come.
FairWaitSpec ==
  /\ WaitSpec
  /\ \A t \in Threads : WF_allVars((Step(t) /\ UNCHANGED wait) \/ WaitStep(t))
----------------------------------------------------------------------------
(* Properties.                                                             *)

CallbackPcs == {"cb_failure", "cb_count", "cb_post", "cb_wake", "cb_complete"}

\* A timepoint has one owner at a time, and the state of a multi-wait is on
\* the waiter's stack: when the wait has returned, no callback that would
\* touch it is running, is on a dispatch list or is still indexed.
WaitOutlivesCallbacks ==
  /\ TypeOK
  /\ OneOwner
  /\ \A t \in Threads : ~wait[t].live =>
       \A i \in 1..Count(t) :
         LET p == wait[t].operands[i].tp
         IN  /\ tp[p].callback = "wait" => tp[p].state \in Ended
             /\ \A u \in Threads : \A j \in 1..Len(stack[u]) :
                  stack[u][j].tp = p => stack[u][j].pc \notin CallbackPcs

OperandReached(o) == timeline_value[o.sem] >= o.value

\* A wait for all returns OK only if every operand was reached, a wait for any
\* only if one was, and an error only if an operand failed with it (however
\* callbacks of several semaphores, failures and the deadline interleave).
WaitResultIsTrue ==
  \A t \in Threads :
    LET w == wait[t]
        ops == {w.operands[i] : i \in 1..Count(t)}
    IN  /\ w.result = "ok" => IF w.mode = "all" THEN \A o \in ops : OperandReached(o)
                                                ELSE \E o \in ops : OperandReached(o)
        /\ w.result \in AllFailures => \E o \in ops : failure_status[o.sem] = w.result

\* A blocked multi-wait whose condition holds returns: no wake is lost between
\* the callbacks' posts and the waiter's prepare and commit, and the join with
\* callbacks under way ends.
WaitIsDue(t) ==
  LET ops == {wait[t].operands[i] : i \in 1..Count(t)}
  IN  \/ \E o \in ops : Failed(o.sem)
      \/ IF wait[t].mode = "all" THEN \A o \in ops : OperandReached(o)
                                 ELSE \E o \in ops : OperandReached(o)

WaitReturns == \A t \in Threads : wait[t].live /\ WaitIsDue(t) ~> ~wait[t].live
=============================================================================
