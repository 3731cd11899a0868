------------------------ MODULE TaskProcessProofs ------------------------
(***************************************************************************)
(* TLAPS proofs about module TaskProcess, for any finite set of processes,   *)
(* any sets of workers and callers and any dependency graph.               *)
(***************************************************************************)
EXTENDS TaskProcess, FiniteSetTheorems, SequenceTheorems, TLAPS

----------------------------------------------------------------------------
(* The inductive invariant.                                                *)

\* Where in the code each kind of thread can be, and which of its process
\* pointers are set there.  A worker holds a process exactly in OwnerPcs.
ControlInv ==
  /\ \A w \in Workers :
       /\ pc[w] \notin CancelPcs
       /\ pc[w] \in OwnerPcs <=> cur[w] # NoProcess
  /\ \A c \in Callers :
       /\ pc[c] \in {"ready", "activate", "resolve", "wake_dependents", "wake_cas"}
                      \cup SchedulePcs \cup CancelPcs
       /\ pc[c] \in CancelPcs \cup {"resolve"} => cur[c] # NoProcess
  /\ \A t \in Threads : pc[t] \in SchedulePcs \cup {"wake_cas"} => target[t] # NoProcess

\* A process whose schedule_state is IDLE is on no list and nobody holds it:
\* this is what entitles the scheduler that leaves IDLE to enqueue it.
IdleIsFree ==
  \A p \in Processes : scheduleState[p] = "IDLE" =>
    p \notin immediateList /\ \A t \in Threads : ~Holds(t, p)

\* A released process keeps a non-idle schedule_state, so a late wake finds
\* nothing to enqueue.
ReleasedIsBusy ==
  \A p \in Processes : released[p] => scheduleState[p] # "IDLE"

Custody == IdleIsFree /\ SingleHolder /\ ReleasedIsBusy /\ NoAccessAfterRelease

\* No thread has ever scheduled p or is on its way to.
NeverScheduled(p) ==
  /\ ~launched[p]
  /\ \A t \in Threads : p \notin activated[t] /\ (target[t] = p => pc[t] \notin SchedulePcs)

\* A process that still waits for dependencies was never scheduled.
SuspendedIsUnscheduled ==
  \A p \in Processes :
    /\ state[p] = "SUSPENDED" => NeverScheduled(p) /\ completions[p] = <<>>
    /\ scheduleState[p] # "IDLE" => launched[p]

\* A canceller resolves a process only if it won the CAS out of SUSPENDED: no
\* other canceller resolves it and no worker ever gets it.
CancellerResolvesAlone ==
  \A c \in Callers : pc[c] = "resolve" =>
    /\ state[cur[c]] = "CANCELLED" /\ NeverScheduled(cur[c]) /\ completions[cur[c]] = <<>>
    /\ \A b \in Callers : pc[b] = "resolve" /\ cur[b] = cur[c] => b = c

\* A process is resolved when it is neither queued nor about to be drained.
UnresolvedPcs == {"consume", "drain", "report", "report_state", "check",
                  "complete", "complete_store", "resolve", "sleep"}
QueuedIsUnresolved ==
  /\ \A p \in immediateList : completions[p] = <<>>
  /\ \A w \in Workers : pc[w] \in UnresolvedPcs => completions[cur[w]] = <<>>
  /\ \A t \in Threads : pc[t] = "schedule_push" => completions[target[t]] = <<>>

\* A resolved process is never enqueued again: its schedule_state stays busy,
\* or it was cancelled while suspended and nobody has a reason to schedule it.
ResolvedIsNotIdle ==
  \A p \in Processes : completions[p] # <<>> =>
    scheduleState[p] # "IDLE" \/ NeverScheduled(p)

Resolution == /\ SuspendedIsUnscheduled
              /\ CancellerResolvesAlone
              /\ QueuedIsUnresolved
              /\ ResolvedIsNotIdle
              /\ CompletedOnce

\* A process whose schedule_state is not IDLE is on the list, held, or done:
\* this is why a scheduler that finds it busy may leave the wake to others.
BusyIsHeld ==
  \A p \in Processes : scheduleState[p] # "IDLE" =>
    p \in immediateList \/ (\E t \in Threads : Holds(t, p)) \/ released[p]

\* Only terminal processes are resolved and released.
ReleasedIsTerminal ==
  /\ \A p \in Processes : released[p] => IsTerminal(p)
  /\ \A w \in Workers : pc[w] \in {"resolve", "wake_dependents", "wake_cas", "release"} =>
                          IsTerminal(cur[w])

Delivery == BusyIsHeld /\ ReleasedIsTerminal /\ NoLostWake

Inv == TypeOK /\ ControlInv /\ Custody

FullInv == Inv /\ Resolution /\ Delivery

----------------------------------------------------------------------------
(* Typing and control.                                                     *)

\* Initially every variable has its type.
LEMMA InitTypeOK == Init => TypeOK
<1>. SUFFICES ASSUME Init PROVE TypeOK
  OBVIOUS
<1>1. ASSUME NEW p \in Processes PROVE InitialSuspendCount(p) \in Int
  <2>1. IsFiniteSet(Predecessors(p))
    BY ProcessAssumption, FS_Subset DEF Predecessors
  <2>. QED
    BY <2>1, FS_CardinalityType, DependentsAssumption DEF InitialSuspendCount
<1>. QED
  BY <1>1, DependentsAssumption
  DEF Init, TypeOK, Threads, Pcs, OwnerPcs, SchedulePcs, CancelPcs, Statuses, ScheduleStates,
     ProcessStates

\* A step from a typed state with consistent control leads to a typed state.
LEMMA NextTypeOK ==
  ASSUME TypeOK, ControlInv, [Next]_vars PROVE TypeOK'
<1>. USE TypeOK, ControlInv, ProcessAssumption, DependentsAssumption DEF Goto,
     processVars, threadVars, ghostVars, ControlInv, TypeOK, Threads, Pcs,
     OwnerPcs, SchedulePcs, CancelPcs, Statuses, ScheduleStates, ProcessStates
<1>1. ASSUME NEW t \in Threads, ScheduleCheckTerminal(t) PROVE TypeOK'
  BY <1>1 DEF ScheduleCheckTerminal
<1>2. ASSUME NEW t \in Threads, ScheduleExchange(t) PROVE TypeOK'
  BY <1>2 DEF ScheduleExchange
<1>3. ASSUME NEW t \in Threads, SchedulePush(t) PROVE TypeOK'
  BY <1>3 DEF SchedulePush
<1>4. ASSUME NEW t \in Threads, ActivateDone(t) PROVE TypeOK'
  BY <1>4 DEF ActivateDone
<1>5. ASSUME NEW t \in Threads, NEW d \in Processes, ActivateNext(t, d) PROVE TypeOK'
  BY <1>5 DEF ActivateNext
<1>6. ASSUME NEW t \in Threads, NEW d \in Processes, WakeDecrement(t, d) PROVE TypeOK'
  BY <1>6 DEF WakeDecrement
<1>7. ASSUME NEW t \in Threads, WakeActivate(t) PROVE TypeOK'
  BY <1>7 DEF WakeActivate
<1>8. ASSUME NEW t \in Threads, WakeCancelled(t) PROVE TypeOK'
  BY <1>8 DEF WakeCancelled
<1>9. ASSUME NEW t \in Threads, WakeDone(t) PROVE TypeOK'
  BY <1>9 DEF WakeDone
<1>10. ASSUME NEW t \in Threads, Resolve(t) PROVE TypeOK'
  BY <1>10 DEF Resolve
<1>11. ASSUME NEW w \in Workers, NEW p \in Processes, WorkerPop(w, p) PROVE TypeOK'
  BY <1>11 DEF WorkerPop
<1>12. ASSUME NEW w \in Workers, WorkerConsume(w) PROVE TypeOK'
  BY <1>12 DEF WorkerConsume
<1>13. ASSUME NEW w \in Workers, DrainReturns(w) PROVE TypeOK'
  <2>1. CASE DrainCompleted(w)
    BY <2>1 DEF DrainCompleted, Drain
  <2>2. CASE DrainFailed(w)
    BY <2>2 DEF DrainFailed, Drain
  <2>3. CASE DrainDidWork(w)
    BY <2>3 DEF DrainDidWork, Drain
  <2>4. CASE DrainNoWork(w)
    BY <2>4 DEF DrainNoWork, Drain
  <2>. QED BY <1>13, <2>1, <2>2, <2>3, <2>4 DEF DrainReturns
<1>14. ASSUME NEW w \in Workers, WorkerCheck(w) PROVE TypeOK'
  BY <1>14 DEF WorkerCheck
<1>15. ASSUME NEW w \in Workers, WorkerSleep(w) PROVE TypeOK'
  BY <1>15 DEF WorkerSleep
<1>16. ASSUME NEW w \in Workers, WorkerStayAwake(w) PROVE TypeOK'
  BY <1>16 DEF WorkerStayAwake
<1>17. ASSUME NEW w \in Workers, ReportError(w) PROVE TypeOK'
  BY <1>17 DEF ReportError, RecordError
<1>18. ASSUME NEW w \in Workers, ReportErrorState(w) PROVE TypeOK'
  BY <1>18 DEF ReportErrorState, LeaveRunnable
<1>19. ASSUME NEW w \in Workers, CompleteCheck(w) PROVE TypeOK'
  BY <1>19 DEF CompleteCheck
<1>20. ASSUME NEW w \in Workers, CompleteStore(w) PROVE TypeOK'
  BY <1>20 DEF CompleteStore
<1>21. ASSUME NEW w \in Workers, WorkerRelease(w) PROVE TypeOK'
  BY <1>21 DEF WorkerRelease
<1>22. ASSUME NEW c \in Callers, CancelRecord(c) PROVE TypeOK'
  BY <1>22 DEF CancelRecord, RecordError
<1>23. ASSUME NEW c \in Callers, CancelSuspended(c) PROVE TypeOK'
  BY <1>23 DEF CancelSuspended
<1>24. ASSUME NEW c \in Callers, CancelNotSuspended(c) PROVE TypeOK'
  BY <1>24 DEF CancelNotSuspended
<1>25. ASSUME NEW c \in Callers, CancelRunnable(c) PROVE TypeOK'
  BY <1>25 DEF CancelRunnable, LeaveRunnable
<1>26. ASSUME NEW c \in Callers, NEW p \in Processes, CallSchedule(c, p) PROVE TypeOK'
  BY <1>26 DEF CallSchedule
<1>27. ASSUME NEW c \in Callers, NEW p \in Processes, CallWake(c, p) PROVE TypeOK'
  BY <1>27 DEF CallWake
<1>28. ASSUME NEW c \in Callers, NEW p \in Processes, CallCancel(c, p) PROVE TypeOK'
  BY <1>28 DEF CallCancel
<1>29. CASE UNCHANGED vars
  BY <1>29 DEF vars
<1>. QED
  BY <1>1, <1>2, <1>3, <1>4, <1>5, <1>6, <1>7, <1>8, <1>9, <1>10, <1>11,
       <1>12, <1>13, <1>14, <1>15, <1>16, <1>17, <1>18, <1>19, <1>20, <1>21,
       <1>22, <1>23, <1>24, <1>25, <1>26, <1>27, <1>28, <1>29 DEF Next,
       ThreadStep, WorkerStep, CancelStep, Call

\* Such a step also keeps control consistent.
LEMMA NextControl ==
  ASSUME TypeOK, ControlInv, [Next]_vars PROVE ControlInv'
<1>. USE TypeOK, ControlInv, ProcessAssumption, ThreadAssumption DEF Goto,
     processVars, threadVars, ghostVars, ControlInv, TypeOK, Threads, Pcs,
     OwnerPcs, SchedulePcs, CancelPcs, Statuses, ScheduleStates, ProcessStates
<1>1. ASSUME NEW t \in Threads, ScheduleCheckTerminal(t) PROVE ControlInv'
  BY <1>1 DEF ScheduleCheckTerminal
<1>2. ASSUME NEW t \in Threads, ScheduleExchange(t) PROVE ControlInv'
  BY <1>2 DEF ScheduleExchange
<1>3. ASSUME NEW t \in Threads, SchedulePush(t) PROVE ControlInv'
  BY <1>3 DEF SchedulePush
<1>4. ASSUME NEW t \in Threads, ActivateDone(t) PROVE ControlInv'
  BY <1>4 DEF ActivateDone
<1>5. ASSUME NEW t \in Threads, NEW d \in Processes, ActivateNext(t, d) PROVE ControlInv'
  BY <1>5 DEF ActivateNext
<1>6. ASSUME NEW t \in Threads, NEW d \in Processes, WakeDecrement(t, d) PROVE ControlInv'
  BY <1>6 DEF WakeDecrement
<1>7. ASSUME NEW t \in Threads, WakeActivate(t) PROVE ControlInv'
  BY <1>7 DEF WakeActivate
<1>8. ASSUME NEW t \in Threads, WakeCancelled(t) PROVE ControlInv'
  BY <1>8 DEF WakeCancelled
<1>9. ASSUME NEW t \in Threads, WakeDone(t) PROVE ControlInv'
  BY <1>9 DEF WakeDone
<1>10. ASSUME NEW t \in Threads, Resolve(t) PROVE ControlInv'
  BY <1>10 DEF Resolve
<1>11. ASSUME NEW w \in Workers, NEW p \in Processes, WorkerPop(w, p) PROVE ControlInv'
  BY <1>11 DEF WorkerPop
<1>12. ASSUME NEW w \in Workers, WorkerConsume(w) PROVE ControlInv'
  BY <1>12 DEF WorkerConsume
<1>13. ASSUME NEW w \in Workers, DrainReturns(w) PROVE ControlInv'
  <2>1. CASE DrainCompleted(w)
    BY <2>1 DEF DrainCompleted, Drain
  <2>2. CASE DrainFailed(w)
    BY <2>2 DEF DrainFailed, Drain
  <2>3. CASE DrainDidWork(w)
    BY <2>3 DEF DrainDidWork, Drain
  <2>4. CASE DrainNoWork(w)
    BY <2>4 DEF DrainNoWork, Drain
  <2>. QED BY <1>13, <2>1, <2>2, <2>3, <2>4 DEF DrainReturns
<1>14. ASSUME NEW w \in Workers, WorkerCheck(w) PROVE ControlInv'
  BY <1>14 DEF WorkerCheck
<1>15. ASSUME NEW w \in Workers, WorkerSleep(w) PROVE ControlInv'
  BY <1>15 DEF WorkerSleep
<1>16. ASSUME NEW w \in Workers, WorkerStayAwake(w) PROVE ControlInv'
  BY <1>16 DEF WorkerStayAwake
<1>17. ASSUME NEW w \in Workers, ReportError(w) PROVE ControlInv'
  BY <1>17 DEF ReportError
<1>18. ASSUME NEW w \in Workers, ReportErrorState(w) PROVE ControlInv'
  BY <1>18 DEF ReportErrorState
<1>19. ASSUME NEW w \in Workers, CompleteCheck(w) PROVE ControlInv'
  BY <1>19 DEF CompleteCheck
<1>20. ASSUME NEW w \in Workers, CompleteStore(w) PROVE ControlInv'
  BY <1>20 DEF CompleteStore
<1>21. ASSUME NEW w \in Workers, WorkerRelease(w) PROVE ControlInv'
  BY <1>21 DEF WorkerRelease
<1>22. ASSUME NEW c \in Callers, CancelRecord(c) PROVE ControlInv'
  BY <1>22 DEF CancelRecord
<1>23. ASSUME NEW c \in Callers, CancelSuspended(c) PROVE ControlInv'
  BY <1>23 DEF CancelSuspended
<1>24. ASSUME NEW c \in Callers, CancelNotSuspended(c) PROVE ControlInv'
  BY <1>24 DEF CancelNotSuspended
<1>25. ASSUME NEW c \in Callers, CancelRunnable(c) PROVE ControlInv'
  BY <1>25 DEF CancelRunnable
<1>26. ASSUME NEW c \in Callers, NEW p \in Processes, CallSchedule(c, p) PROVE ControlInv'
  BY <1>26 DEF CallSchedule
<1>27. ASSUME NEW c \in Callers, NEW p \in Processes, CallWake(c, p) PROVE ControlInv'
  BY <1>27 DEF CallWake
<1>28. ASSUME NEW c \in Callers, NEW p \in Processes, CallCancel(c, p) PROVE ControlInv'
  BY <1>28 DEF CallCancel
<1>29. CASE UNCHANGED vars
  BY <1>29 DEF vars
<1>. QED
  BY <1>1, <1>2, <1>3, <1>4, <1>5, <1>6, <1>7, <1>8, <1>9, <1>10, <1>11,
       <1>12, <1>13, <1>14, <1>15, <1>16, <1>17, <1>18, <1>19, <1>20, <1>21,
       <1>22, <1>23, <1>24, <1>25, <1>26, <1>27, <1>28, <1>29 DEF Next,
       ThreadStep, WorkerStep, CancelStep, Call

\* The CAS from RUNNABLE makes no process suspended and undoes no cancellation.
LEMMA LeaveRunnableEffect ==
  ASSUME TypeOK, NEW p, NEW to, to \in {"COMPLETED", "CANCELLED"}, LeaveRunnable(p, to)
  PROVE  \A q \in Processes : /\ state'[q] = "SUSPENDED" => state[q] = "SUSPENDED"
                              /\ state[q] = "CANCELLED" => state'[q] = "CANCELLED"
                              /\ state[q] = "COMPLETED" => state'[q] = "COMPLETED"
BY DEF TypeOK, LeaveRunnable

----------------------------------------------------------------------------
(* Ownership: schedule_state hands a process to one holder at a time.      *)

\* A step keeps custody of every process with at most one holder.
LEMMA NextCustody ==
  ASSUME Inv, [Next]_vars PROVE Custody'
<1>. USE Inv, ProcessAssumption, ThreadAssumption DEF Goto, processVars,
     threadVars, ghostVars, Inv, ControlInv, Custody, IdleIsFree,
     SingleHolder, ReleasedIsBusy, NoAccessAfterRelease, Holds, TypeOK,
     Threads, Pcs, OwnerPcs, SchedulePcs, CancelPcs, Statuses, ScheduleStates,
     ProcessStates
<1>1. ASSUME NEW t \in Threads, ScheduleCheckTerminal(t) PROVE Custody'
  BY <1>1 DEF ScheduleCheckTerminal
<1>2. ASSUME NEW t \in Threads, ScheduleExchange(t) PROVE Custody'
  BY <1>2 DEF ScheduleExchange, OwnsEnqueue
<1>3. ASSUME NEW t \in Threads, SchedulePush(t) PROVE Custody'
  BY <1>3 DEF SchedulePush
<1>4. ASSUME NEW t \in Threads, ActivateDone(t) PROVE Custody'
  BY <1>4 DEF ActivateDone
<1>5. ASSUME NEW t \in Threads, NEW d \in Processes, ActivateNext(t, d) PROVE Custody'
  BY <1>5 DEF ActivateNext
<1>6. ASSUME NEW t \in Threads, NEW d \in Processes, WakeDecrement(t, d) PROVE Custody'
  BY <1>6 DEF WakeDecrement
<1>7. ASSUME NEW t \in Threads, WakeActivate(t) PROVE Custody'
  BY <1>7 DEF WakeActivate
<1>8. ASSUME NEW t \in Threads, WakeCancelled(t) PROVE Custody'
  BY <1>8 DEF WakeCancelled
<1>9. ASSUME NEW t \in Threads, WakeDone(t) PROVE Custody'
  BY <1>9 DEF WakeDone
<1>10. ASSUME NEW t \in Threads, Resolve(t) PROVE Custody'
  BY <1>10 DEF Resolve
<1>11. ASSUME NEW w \in Workers, NEW p \in Processes, WorkerPop(w, p) PROVE Custody'
  BY <1>11 DEF WorkerPop
<1>12. ASSUME NEW w \in Workers, WorkerConsume(w) PROVE Custody'
  BY <1>12 DEF WorkerConsume
<1>13. ASSUME NEW w \in Workers, DrainReturns(w) PROVE Custody'
  <2>1. CASE DrainCompleted(w)
    BY <2>1 DEF DrainCompleted, Drain
  <2>2. CASE DrainFailed(w)
    BY <2>2 DEF DrainFailed, Drain
  <2>3. CASE DrainDidWork(w)
    BY <2>3 DEF DrainDidWork, Drain
  <2>4. CASE DrainNoWork(w)
    BY <2>4 DEF DrainNoWork, Drain
  <2>. QED BY <1>13, <2>1, <2>2, <2>3, <2>4 DEF DrainReturns
<1>14. ASSUME NEW w \in Workers, WorkerCheck(w) PROVE Custody'
  BY <1>14 DEF WorkerCheck
<1>15. ASSUME NEW w \in Workers, WorkerSleep(w) PROVE Custody'
  BY <1>15 DEF WorkerSleep
<1>16. ASSUME NEW w \in Workers, WorkerStayAwake(w) PROVE Custody'
  BY <1>16 DEF WorkerStayAwake
<1>17. ASSUME NEW w \in Workers, ReportError(w) PROVE Custody'
  BY <1>17 DEF ReportError
<1>18. ASSUME NEW w \in Workers, ReportErrorState(w) PROVE Custody'
  BY <1>18 DEF ReportErrorState
<1>19. ASSUME NEW w \in Workers, CompleteCheck(w) PROVE Custody'
  BY <1>19 DEF CompleteCheck
<1>20. ASSUME NEW w \in Workers, CompleteStore(w) PROVE Custody'
  BY <1>20 DEF CompleteStore
<1>21. ASSUME NEW w \in Workers, WorkerRelease(w) PROVE Custody'
  BY <1>21 DEF WorkerRelease
<1>22. ASSUME NEW c \in Callers, CancelRecord(c) PROVE Custody'
  BY <1>22 DEF CancelRecord
<1>23. ASSUME NEW c \in Callers, CancelSuspended(c) PROVE Custody'
  BY <1>23 DEF CancelSuspended
<1>24. ASSUME NEW c \in Callers, CancelNotSuspended(c) PROVE Custody'
  BY <1>24 DEF CancelNotSuspended
<1>25. ASSUME NEW c \in Callers, CancelRunnable(c) PROVE Custody'
  BY <1>25 DEF CancelRunnable
<1>26. ASSUME NEW c \in Callers, NEW p \in Processes, CallSchedule(c, p) PROVE Custody'
  BY <1>26 DEF CallSchedule
<1>27. ASSUME NEW c \in Callers, NEW p \in Processes, CallWake(c, p) PROVE Custody'
  BY <1>27 DEF CallWake
<1>28. ASSUME NEW c \in Callers, NEW p \in Processes, CallCancel(c, p) PROVE Custody'
  BY <1>28 DEF CallCancel
<1>29. CASE UNCHANGED vars
  BY <1>29 DEF vars
<1>. QED
  BY <1>1, <1>2, <1>3, <1>4, <1>5, <1>6, <1>7, <1>8, <1>9, <1>10, <1>11,
       <1>12, <1>13, <1>14, <1>15, <1>16, <1>17, <1>18, <1>19, <1>20, <1>21,
       <1>22, <1>23, <1>24, <1>25, <1>26, <1>27, <1>28, <1>29 DEF Next,
       ThreadStep, WorkerStep, CancelStep, Call

----------------------------------------------------------------------------
(* Resolution: who may call the completion callback.                       *)

\* A step keeps every completion callback called at most once.
LEMMA NextResolution ==
  ASSUME Inv, Resolution, [Next]_vars PROVE Resolution'
<1>. USE Inv, Resolution, ProcessAssumption, ThreadAssumption DEF Goto,
     processVars, threadVars, ghostVars, Inv, ControlInv, Custody, IdleIsFree,
     SingleHolder, ReleasedIsBusy, NoAccessAfterRelease, Holds, TypeOK,
     Threads, Pcs, OwnerPcs, SchedulePcs, CancelPcs, Statuses, ScheduleStates,
     ProcessStates, Resolution, NeverScheduled, SuspendedIsUnscheduled,
     CancellerResolvesAlone, UnresolvedPcs, QueuedIsUnresolved,
     ResolvedIsNotIdle, CompletedOnce
<1>1. ASSUME NEW t \in Threads, ScheduleCheckTerminal(t) PROVE Resolution'
  BY <1>1 DEF ScheduleCheckTerminal
<1>2. ASSUME NEW t \in Threads, ScheduleExchange(t) PROVE Resolution'
  BY <1>2 DEF ScheduleExchange, OwnsEnqueue
<1>3. ASSUME NEW t \in Threads, SchedulePush(t) PROVE Resolution'
  BY <1>3 DEF SchedulePush
<1>4. ASSUME NEW t \in Threads, ActivateDone(t) PROVE Resolution'
  BY <1>4 DEF ActivateDone
<1>5. ASSUME NEW t \in Threads, NEW d \in Processes, ActivateNext(t, d) PROVE Resolution'
  BY <1>5 DEF ActivateNext
<1>6. ASSUME NEW t \in Threads, NEW d \in Processes, WakeDecrement(t, d) PROVE Resolution'
  BY <1>6 DEF WakeDecrement
<1>7. ASSUME NEW t \in Threads, WakeActivate(t) PROVE Resolution'
  BY <1>7 DEF WakeActivate
<1>8. ASSUME NEW t \in Threads, WakeCancelled(t) PROVE Resolution'
  BY <1>8 DEF WakeCancelled
<1>9. ASSUME NEW t \in Threads, WakeDone(t) PROVE Resolution'
  BY <1>9 DEF WakeDone
<1>10. ASSUME NEW t \in Threads, Resolve(t) PROVE Resolution'
  BY <1>10 DEF Resolve
<1>11. ASSUME NEW w \in Workers, NEW p \in Processes, WorkerPop(w, p) PROVE Resolution'
  BY <1>11 DEF WorkerPop
<1>12. ASSUME NEW w \in Workers, WorkerConsume(w) PROVE Resolution'
  BY <1>12 DEF WorkerConsume
<1>13. ASSUME NEW w \in Workers, DrainReturns(w) PROVE Resolution'
  <2>1. CASE DrainCompleted(w)
    BY <2>1 DEF DrainCompleted, Drain
  <2>2. CASE DrainFailed(w)
    BY <2>2 DEF DrainFailed, Drain
  <2>3. CASE DrainDidWork(w)
    BY <2>3 DEF DrainDidWork, Drain
  <2>4. CASE DrainNoWork(w)
    BY <2>4 DEF DrainNoWork, Drain
  <2>. QED BY <1>13, <2>1, <2>2, <2>3, <2>4 DEF DrainReturns
<1>14. ASSUME NEW w \in Workers, WorkerCheck(w) PROVE Resolution'
  BY <1>14 DEF WorkerCheck
<1>15. ASSUME NEW w \in Workers, WorkerSleep(w) PROVE Resolution'
  BY <1>15 DEF WorkerSleep
<1>16. ASSUME NEW w \in Workers, WorkerStayAwake(w) PROVE Resolution'
  BY <1>16 DEF WorkerStayAwake
<1>17. ASSUME NEW w \in Workers, ReportError(w) PROVE Resolution'
  BY <1>17 DEF ReportError
<1>18. ASSUME NEW w \in Workers, ReportErrorState(w) PROVE Resolution'
  <2>1. \A p \in Processes : /\ state'[p] = "SUSPENDED" => state[p] = "SUSPENDED"
                             /\ state[p] = "CANCELLED" => state'[p] = "CANCELLED"
    BY <1>18, LeaveRunnableEffect DEF ReportErrorState
  <2>2. SuspendedIsUnscheduled'
    BY <1>18, <2>1, SMTT(60) DEF ReportErrorState
  <2>3. CancellerResolvesAlone'
    BY <1>18, <2>1, SMTT(60) DEF ReportErrorState
  <2>4. QueuedIsUnresolved'
    BY <1>18 DEF ReportErrorState
  <2>5. ResolvedIsNotIdle' /\ CompletedOnce'
    BY <1>18 DEF ReportErrorState
  <2>. QED
    BY <2>2, <2>3, <2>4, <2>5
<1>19. ASSUME NEW w \in Workers, CompleteCheck(w) PROVE Resolution'
  BY <1>19 DEF CompleteCheck
<1>20. ASSUME NEW w \in Workers, CompleteStore(w) PROVE Resolution'
  BY <1>20 DEF CompleteStore
<1>21. ASSUME NEW w \in Workers, WorkerRelease(w) PROVE Resolution'
  BY <1>21 DEF WorkerRelease
<1>22. ASSUME NEW c \in Callers, CancelRecord(c) PROVE Resolution'
  BY <1>22 DEF CancelRecord
<1>23. ASSUME NEW c \in Callers, CancelSuspended(c) PROVE Resolution'
  BY <1>23 DEF CancelSuspended, CancelResolves
<1>24. ASSUME NEW c \in Callers, CancelNotSuspended(c) PROVE Resolution'
  BY <1>24 DEF CancelNotSuspended
<1>25. ASSUME NEW c \in Callers, CancelRunnable(c) PROVE Resolution'
  BY <1>25 DEF CancelRunnable, LeaveRunnable
<1>26. ASSUME NEW c \in Callers, NEW p \in Processes, CallSchedule(c, p) PROVE Resolution'
  BY <1>26 DEF CallSchedule
<1>27. ASSUME NEW c \in Callers, NEW p \in Processes, CallWake(c, p) PROVE Resolution'
  BY <1>27 DEF CallWake
<1>28. ASSUME NEW c \in Callers, NEW p \in Processes, CallCancel(c, p) PROVE Resolution'
  BY <1>28 DEF CallCancel
<1>29. CASE UNCHANGED vars
  BY <1>29 DEF vars
<1>. QED
  BY <1>1, <1>2, <1>3, <1>4, <1>5, <1>6, <1>7, <1>8, <1>9, <1>10, <1>11,
       <1>12, <1>13, <1>14, <1>15, <1>16, <1>17, <1>18, <1>19, <1>20, <1>21,
       <1>22, <1>23, <1>24, <1>25, <1>26, <1>27, <1>28, <1>29 DEF Next,
       ThreadStep, WorkerStep, CancelStep, Call

----------------------------------------------------------------------------
(* Delivery: why no wake is lost.                                          *)

\* Released processes are terminal and stay so.
LEMMA NextReleasedIsTerminal ==
  ASSUME Inv, ReleasedIsTerminal, [Next]_vars PROVE ReleasedIsTerminal'
<1>. USE Inv, ReleasedIsTerminal, ProcessAssumption, ThreadAssumption DEF
     Goto, processVars, threadVars, ghostVars, Inv, ControlInv,
     ReleasedIsTerminal, IsTerminal, TypeOK, Threads, Pcs, OwnerPcs,
     SchedulePcs, CancelPcs, Statuses, ScheduleStates, ProcessStates
<1>1. ASSUME NEW t \in Threads, ScheduleCheckTerminal(t) PROVE ReleasedIsTerminal'
  BY <1>1 DEF ScheduleCheckTerminal
<1>2. ASSUME NEW t \in Threads, ScheduleExchange(t) PROVE ReleasedIsTerminal'
  BY <1>2 DEF ScheduleExchange, OwnsEnqueue
<1>3. ASSUME NEW t \in Threads, SchedulePush(t) PROVE ReleasedIsTerminal'
  BY <1>3 DEF SchedulePush
<1>4. ASSUME NEW t \in Threads, ActivateDone(t) PROVE ReleasedIsTerminal'
  BY <1>4 DEF ActivateDone
<1>5. ASSUME NEW t \in Threads, NEW d \in Processes, ActivateNext(t, d) PROVE ReleasedIsTerminal'
  BY <1>5 DEF ActivateNext
<1>6. ASSUME NEW t \in Threads, NEW d \in Processes, WakeDecrement(t, d) PROVE ReleasedIsTerminal'
  BY <1>6 DEF WakeDecrement
<1>7. ASSUME NEW t \in Threads, WakeActivate(t) PROVE ReleasedIsTerminal'
  BY <1>7 DEF WakeActivate
<1>8. ASSUME NEW t \in Threads, WakeCancelled(t) PROVE ReleasedIsTerminal'
  BY <1>8 DEF WakeCancelled
<1>9. ASSUME NEW t \in Threads, WakeDone(t) PROVE ReleasedIsTerminal'
  BY <1>9 DEF WakeDone
<1>10. ASSUME NEW t \in Threads, Resolve(t) PROVE ReleasedIsTerminal'
  BY <1>10 DEF Resolve
<1>11. ASSUME NEW w \in Workers, NEW p \in Processes, WorkerPop(w, p) PROVE ReleasedIsTerminal'
  BY <1>11 DEF WorkerPop
<1>12. ASSUME NEW w \in Workers, WorkerConsume(w) PROVE ReleasedIsTerminal'
  BY <1>12 DEF WorkerConsume
<1>13. ASSUME NEW w \in Workers, DrainReturns(w) PROVE ReleasedIsTerminal'
  <2>1. CASE DrainCompleted(w)
    BY <2>1 DEF DrainCompleted, Drain
  <2>2. CASE DrainFailed(w)
    BY <2>2 DEF DrainFailed, Drain
  <2>3. CASE DrainDidWork(w)
    BY <2>3 DEF DrainDidWork, Drain
  <2>4. CASE DrainNoWork(w)
    BY <2>4 DEF DrainNoWork, Drain
  <2>. QED BY <1>13, <2>1, <2>2, <2>3, <2>4 DEF DrainReturns
<1>14. ASSUME NEW w \in Workers, WorkerCheck(w) PROVE ReleasedIsTerminal'
  BY <1>14 DEF WorkerCheck
<1>15. ASSUME NEW w \in Workers, WorkerSleep(w) PROVE ReleasedIsTerminal'
  BY <1>15 DEF WorkerSleep
<1>16. ASSUME NEW w \in Workers, WorkerStayAwake(w) PROVE ReleasedIsTerminal'
  BY <1>16 DEF WorkerStayAwake
<1>17. ASSUME NEW w \in Workers, ReportError(w) PROVE ReleasedIsTerminal'
  BY <1>17 DEF ReportError
<1>18. ASSUME NEW w \in Workers, ReportErrorState(w) PROVE ReleasedIsTerminal'
  BY <1>18 DEF ReportErrorState, LeaveRunnable
<1>19. ASSUME NEW w \in Workers, CompleteCheck(w) PROVE ReleasedIsTerminal'
  BY <1>19 DEF CompleteCheck
<1>20. ASSUME NEW w \in Workers, CompleteStore(w) PROVE ReleasedIsTerminal'
  BY <1>20 DEF CompleteStore
<1>21. ASSUME NEW w \in Workers, WorkerRelease(w) PROVE ReleasedIsTerminal'
  BY <1>21 DEF WorkerRelease
<1>22. ASSUME NEW c \in Callers, CancelRecord(c) PROVE ReleasedIsTerminal'
  BY <1>22 DEF CancelRecord
<1>23. ASSUME NEW c \in Callers, CancelSuspended(c) PROVE ReleasedIsTerminal'
  BY <1>23 DEF CancelSuspended, CancelResolves
<1>24. ASSUME NEW c \in Callers, CancelNotSuspended(c) PROVE ReleasedIsTerminal'
  BY <1>24 DEF CancelNotSuspended
<1>25. ASSUME NEW c \in Callers, CancelRunnable(c) PROVE ReleasedIsTerminal'
  BY <1>25 DEF CancelRunnable, LeaveRunnable
<1>26. ASSUME NEW c \in Callers, NEW p \in Processes, CallSchedule(c, p) PROVE ReleasedIsTerminal'
  BY <1>26 DEF CallSchedule
<1>27. ASSUME NEW c \in Callers, NEW p \in Processes, CallWake(c, p) PROVE ReleasedIsTerminal'
  BY <1>27 DEF CallWake
<1>28. ASSUME NEW c \in Callers, NEW p \in Processes, CallCancel(c, p) PROVE ReleasedIsTerminal'
  BY <1>28 DEF CallCancel
<1>29. CASE UNCHANGED vars
  BY <1>29 DEF vars
<1>. QED
  BY <1>1, <1>2, <1>3, <1>4, <1>5, <1>6, <1>7, <1>8, <1>9, <1>10, <1>11,
       <1>12, <1>13, <1>14, <1>15, <1>16, <1>17, <1>18, <1>19, <1>20, <1>21,
       <1>22, <1>23, <1>24, <1>25, <1>26, <1>27, <1>28, <1>29 DEF Next,
       ThreadStep, WorkerStep, CancelStep, Call

\* A process with a busy schedule_state stays on the list or held, or is done.
LEMMA NextBusyIsHeld ==
  ASSUME Inv, BusyIsHeld, [Next]_vars,
         NEW q \in Processes, scheduleState'[q] # "IDLE"
  PROVE  q \in immediateList' \/ (\E t \in Threads : Holds(t, q)') \/ released'[q]
<1>. DEFINE HeldNext ==
       q \in immediateList' \/ (\E t \in Threads : Holds(t, q)') \/ released'[q]
<1>. USE Inv, BusyIsHeld, ProcessAssumption, ThreadAssumption DEF Goto,
     processVars, threadVars, ghostVars, Inv, ControlInv, BusyIsHeld, Holds,
     TypeOK, Threads, Pcs, OwnerPcs, SchedulePcs, CancelPcs, Statuses,
     ScheduleStates, ProcessStates
<1>1. ASSUME NEW t \in Threads, ScheduleCheckTerminal(t) PROVE HeldNext
  BY <1>1 DEF ScheduleCheckTerminal
<1>2. ASSUME NEW t \in Threads, ScheduleExchange(t) PROVE HeldNext
  BY <1>2 DEF ScheduleExchange, OwnsEnqueue
<1>3. ASSUME NEW t \in Threads, SchedulePush(t) PROVE HeldNext
  BY <1>3 DEF SchedulePush
<1>4. ASSUME NEW t \in Threads, ActivateDone(t) PROVE HeldNext
  BY <1>4 DEF ActivateDone
<1>5. ASSUME NEW t \in Threads, NEW d \in Processes, ActivateNext(t, d) PROVE HeldNext
  BY <1>5 DEF ActivateNext
<1>6. ASSUME NEW t \in Threads, NEW d \in Processes, WakeDecrement(t, d) PROVE HeldNext
  BY <1>6 DEF WakeDecrement
<1>7. ASSUME NEW t \in Threads, WakeActivate(t) PROVE HeldNext
  BY <1>7 DEF WakeActivate
<1>8. ASSUME NEW t \in Threads, WakeCancelled(t) PROVE HeldNext
  BY <1>8 DEF WakeCancelled
<1>9. ASSUME NEW t \in Threads, WakeDone(t) PROVE HeldNext
  <2>1. \A u \in Threads : Holds(u, q) => Holds(u, q)'
    BY <1>9 DEF WakeDone
  <2>. QED
    BY <1>9, <2>1 DEF WakeDone
<1>10. ASSUME NEW t \in Threads, Resolve(t) PROVE HeldNext
  BY <1>10 DEF Resolve
<1>11. ASSUME NEW w \in Workers, NEW p \in Processes, WorkerPop(w, p) PROVE HeldNext
  <2>1. CASE q = p
    BY <1>11, <2>1 DEF WorkerPop
  <2>2. CASE q # p
    <3>1. cur[w] = NoProcess /\ pc[w] = "ready"
      BY <1>11 DEF WorkerPop
    <3>2. ASSUME NEW u \in Threads, Holds(u, q) PROVE Holds(u, q)'
      <4>1. u # w
        BY <3>1, <3>2
      <4>. QED
        BY <1>11, <3>2, <4>1 DEF WorkerPop
    <3>. QED
      BY <1>11, <2>2, <3>2 DEF WorkerPop
  <2>. QED BY <2>1, <2>2
<1>12. ASSUME NEW w \in Workers, WorkerConsume(w) PROVE HeldNext
  BY <1>12 DEF WorkerConsume
<1>13. ASSUME NEW w \in Workers, DrainReturns(w) PROVE HeldNext
  <2>1. CASE DrainCompleted(w)
    BY <2>1 DEF DrainCompleted, Drain
  <2>2. CASE DrainFailed(w)
    BY <2>2 DEF DrainFailed, Drain
  <2>3. CASE DrainDidWork(w)
    BY <2>3 DEF DrainDidWork, Drain
  <2>4. CASE DrainNoWork(w)
    BY <2>4 DEF DrainNoWork, Drain
  <2>. QED BY <1>13, <2>1, <2>2, <2>3, <2>4 DEF DrainReturns
<1>14. ASSUME NEW w \in Workers, WorkerCheck(w) PROVE HeldNext
  BY <1>14 DEF WorkerCheck
<1>15. ASSUME NEW w \in Workers, WorkerSleep(w) PROVE HeldNext
  BY <1>15 DEF WorkerSleep
<1>16. ASSUME NEW w \in Workers, WorkerStayAwake(w) PROVE HeldNext
  BY <1>16 DEF WorkerStayAwake
<1>17. ASSUME NEW w \in Workers, ReportError(w) PROVE HeldNext
  BY <1>17 DEF ReportError
<1>18. ASSUME NEW w \in Workers, ReportErrorState(w) PROVE HeldNext
  BY <1>18 DEF ReportErrorState, LeaveRunnable
<1>19. ASSUME NEW w \in Workers, CompleteCheck(w) PROVE HeldNext
  BY <1>19 DEF CompleteCheck
<1>20. ASSUME NEW w \in Workers, CompleteStore(w) PROVE HeldNext
  BY <1>20 DEF CompleteStore
<1>21. ASSUME NEW w \in Workers, WorkerRelease(w) PROVE HeldNext
  BY <1>21 DEF WorkerRelease
<1>22. ASSUME NEW c \in Callers, CancelRecord(c) PROVE HeldNext
  BY <1>22 DEF CancelRecord
<1>23. ASSUME NEW c \in Callers, CancelSuspended(c) PROVE HeldNext
  BY <1>23 DEF CancelSuspended, CancelResolves
<1>24. ASSUME NEW c \in Callers, CancelNotSuspended(c) PROVE HeldNext
  BY <1>24 DEF CancelNotSuspended
<1>25. ASSUME NEW c \in Callers, CancelRunnable(c) PROVE HeldNext
  BY <1>25 DEF CancelRunnable, LeaveRunnable
<1>26. ASSUME NEW c \in Callers, NEW p \in Processes, CallSchedule(c, p) PROVE HeldNext
  BY <1>26 DEF CallSchedule
<1>27. ASSUME NEW c \in Callers, NEW p \in Processes, CallWake(c, p) PROVE HeldNext
  BY <1>27 DEF CallWake
<1>28. ASSUME NEW c \in Callers, NEW p \in Processes, CallCancel(c, p) PROVE HeldNext
  BY <1>28 DEF CallCancel
<1>29. CASE UNCHANGED vars
  BY <1>29 DEF vars
<1>. QED
  BY <1>1, <1>2, <1>3, <1>4, <1>5, <1>6, <1>7, <1>8, <1>9, <1>10, <1>11,
       <1>12, <1>13, <1>14, <1>15, <1>16, <1>17, <1>18, <1>19, <1>20, <1>21,
       <1>22, <1>23, <1>24, <1>25, <1>26, <1>27, <1>28, <1>29 DEF Next,
       ThreadStep, WorkerStep, CancelStep, Call

\* A step leaves no live process with published work that nobody carries.
LEMMA NextNoLostWake ==
  ASSUME Inv, BusyIsHeld, ReleasedIsTerminal, NoLostWake, [Next]_vars,
         NEW q \in Processes, workPending'[q], ~IsTerminal(q)'
  PROVE  Carried(q)'
<1>. USE Inv, ProcessAssumption, ThreadAssumption DEF Goto, processVars,
     threadVars, ghostVars, Inv, ControlInv, IsTerminal, TypeOK, Threads, Pcs,
     OwnerPcs, SchedulePcs, CancelPcs, Statuses, ScheduleStates, ProcessStates
<1>1. ASSUME NEW t \in Threads, ScheduleCheckTerminal(t) PROVE Carried(q)'
  <2>1. q \in immediateList => q \in immediateList'
    BY <1>1 DEF ScheduleCheckTerminal
  <2>2. ASSUME NEW u \in Threads, OnItsWay(u, q) PROVE OnItsWay(u, q)'
    BY <1>1, <2>2 DEF ScheduleCheckTerminal, OnItsWay
  <2>3. ASSUME NEW u \in Workers, OwnerWillDrain(u, q) PROVE OwnerWillDrain(u, q)'
    BY <1>1, <2>3 DEF ScheduleCheckTerminal, OwnerWillDrain
  <2>4. workPending[q] /\ ~IsTerminal(q)
    BY <1>1 DEF ScheduleCheckTerminal
  <2>. QED BY <2>1, <2>2, <2>3, <2>4 DEF NoLostWake, Carried
<1>2. ASSUME NEW t \in Threads, ScheduleExchange(t) PROVE Carried(q)'
  <2>1. q \in immediateList => q \in immediateList'
    BY <1>2 DEF ScheduleExchange, OwnsEnqueue
  <2>2. ASSUME NEW u \in Threads, OnItsWay(u, q) PROVE Carried(q)'
    <3>1. CASE u = t /\ target[t] = q
      <4>1. CASE scheduleState[q] = "IDLE"
        BY <1>2, <3>1, <4>1 DEF ScheduleExchange, OwnsEnqueue, Carried, OnItsWay
      <4>2. CASE scheduleState[q] # "IDLE"
        <5>1. scheduleState'[q] = "NOTIFIED" /\ UNCHANGED <<immediateList, cur, target, released, state>>
          BY <1>2, <3>1 DEF ScheduleExchange
        <5>2. ~released[q]
          BY <5>1 DEF ReleasedIsTerminal, IsTerminal
        <5>3. CASE q \in immediateList
          BY <5>1, <5>3 DEF Carried
        <5>4. ASSUME NEW x \in Threads, Holds(x, q) PROVE Carried(q)'
          <6>1. CASE x \in Workers /\ cur[x] = q
            BY <5>1, <6>1 DEF Carried, OwnerWillDrain
          <6>2. CASE pc[x] = "schedule_push" /\ target[x] = q
            BY <1>2, <5>1, <6>2 DEF ScheduleExchange, Carried, OnItsWay
          <6>. QED BY <5>4, <6>1, <6>2 DEF Holds
        <5>. QED BY <4>2, <5>2, <5>3, <5>4 DEF BusyIsHeld
      <4>. QED BY <4>1, <4>2
    <3>2. CASE ~(u = t /\ target[t] = q)
      <4>1. OnItsWay(u, q)'
        BY <1>2, <2>2, <3>2 DEF ScheduleExchange, OnItsWay
      <4>. QED BY <4>1 DEF Carried
    <3>. QED BY <3>1, <3>2
  <2>3. ASSUME NEW u \in Workers, OwnerWillDrain(u, q) PROVE OwnerWillDrain(u, q)'
    BY <1>2, <2>3 DEF ScheduleExchange, OwnsEnqueue, OwnerWillDrain
  <2>4. workPending[q] /\ ~IsTerminal(q)
    BY <1>2 DEF ScheduleExchange, OwnsEnqueue
  <2>. QED BY <2>1, <2>2, <2>3, <2>4 DEF NoLostWake, Carried
<1>3. ASSUME NEW t \in Threads, SchedulePush(t) PROVE Carried(q)'
  <2>1. q \in immediateList => q \in immediateList'
    BY <1>3 DEF SchedulePush
  <2>2. ASSUME NEW u \in Threads, OnItsWay(u, q) PROVE q \in immediateList' \/ OnItsWay(u, q)'
    BY <1>3, <2>2 DEF SchedulePush, OnItsWay
  <2>3. ASSUME NEW u \in Workers, OwnerWillDrain(u, q) PROVE OwnerWillDrain(u, q)'
    BY <1>3, <2>3 DEF SchedulePush, OwnerWillDrain
  <2>4. workPending[q] /\ ~IsTerminal(q)
    BY <1>3 DEF SchedulePush
  <2>. QED BY <2>1, <2>2, <2>3, <2>4 DEF NoLostWake, Carried
<1>4. ASSUME NEW t \in Threads, ActivateDone(t) PROVE Carried(q)'
  <2>1. q \in immediateList => q \in immediateList'
    BY <1>4 DEF ActivateDone
  <2>2. ASSUME NEW u \in Threads, OnItsWay(u, q) PROVE OnItsWay(u, q)'
    BY <1>4, <2>2 DEF ActivateDone, OnItsWay
  <2>3. ASSUME NEW u \in Workers, OwnerWillDrain(u, q) PROVE OwnerWillDrain(u, q)'
    BY <1>4, <2>3 DEF ActivateDone, OwnerWillDrain
  <2>4. workPending[q] /\ ~IsTerminal(q)
    BY <1>4 DEF ActivateDone
  <2>. QED BY <2>1, <2>2, <2>3, <2>4 DEF NoLostWake, Carried
<1>5. ASSUME NEW t \in Threads, NEW d \in Processes, ActivateNext(t, d) PROVE Carried(q)'
  <2>1. q \in immediateList => q \in immediateList'
    BY <1>5 DEF ActivateNext
  <2>2. ASSUME NEW u \in Threads, OnItsWay(u, q) PROVE OnItsWay(u, q)'
    BY <1>5, <2>2 DEF ActivateNext, OnItsWay
  <2>3. ASSUME NEW u \in Workers, OwnerWillDrain(u, q) PROVE OwnerWillDrain(u, q)'
    BY <1>5, <2>3 DEF ActivateNext, OwnerWillDrain
  <2>4. workPending[q] /\ ~IsTerminal(q)
    BY <1>5 DEF ActivateNext
  <2>. QED BY <2>1, <2>2, <2>3, <2>4 DEF NoLostWake, Carried
<1>6. ASSUME NEW t \in Threads, NEW d \in Processes, WakeDecrement(t, d) PROVE Carried(q)'
  <2>1. q \in immediateList => q \in immediateList'
    BY <1>6 DEF WakeDecrement
  <2>2. ASSUME NEW u \in Threads, OnItsWay(u, q) PROVE OnItsWay(u, q)'
    BY <1>6, <2>2 DEF WakeDecrement, OnItsWay
  <2>3. ASSUME NEW u \in Workers, OwnerWillDrain(u, q) PROVE OwnerWillDrain(u, q)'
    BY <1>6, <2>3 DEF WakeDecrement, OwnerWillDrain
  <2>4. workPending[q] /\ ~IsTerminal(q)
    BY <1>6 DEF WakeDecrement
  <2>. QED BY <2>1, <2>2, <2>3, <2>4 DEF NoLostWake, Carried
<1>7. ASSUME NEW t \in Threads, WakeActivate(t) PROVE Carried(q)'
  <2>1. q \in immediateList => q \in immediateList'
    BY <1>7 DEF WakeActivate
  <2>2. ASSUME NEW u \in Threads, OnItsWay(u, q) PROVE OnItsWay(u, q)'
    BY <1>7, <2>2 DEF WakeActivate, OnItsWay
  <2>3. ASSUME NEW u \in Workers, OwnerWillDrain(u, q) PROVE OwnerWillDrain(u, q)'
    BY <1>7, <2>3 DEF WakeActivate, OwnerWillDrain
  <2>4. CASE workPending[q]
    BY <1>7, <2>1, <2>2, <2>3, <2>4 DEF WakeActivate, NoLostWake, Carried
  <2>5. CASE ~workPending[q]
    BY <1>7, <2>5 DEF WakeActivate, OnItsWay, Carried
  <2>. QED BY <2>4, <2>5
<1>8. ASSUME NEW t \in Threads, WakeCancelled(t) PROVE Carried(q)'
  <2>1. q \in immediateList => q \in immediateList'
    BY <1>8 DEF WakeCancelled
  <2>2. ASSUME NEW u \in Threads, OnItsWay(u, q) PROVE OnItsWay(u, q)'
    BY <1>8, <2>2 DEF WakeCancelled, OnItsWay
  <2>3. ASSUME NEW u \in Workers, OwnerWillDrain(u, q) PROVE OwnerWillDrain(u, q)'
    BY <1>8, <2>3 DEF WakeCancelled, OwnerWillDrain
  <2>4. workPending[q] /\ ~IsTerminal(q)
    BY <1>8 DEF WakeCancelled
  <2>. QED BY <2>1, <2>2, <2>3, <2>4 DEF NoLostWake, Carried
<1>9. ASSUME NEW t \in Threads, WakeDone(t) PROVE Carried(q)'
  <2>1. q \in immediateList => q \in immediateList'
    BY <1>9 DEF WakeDone
  <2>2. ASSUME NEW u \in Threads, OnItsWay(u, q) PROVE OnItsWay(u, q)'
    BY <1>9, <2>2 DEF WakeDone, OnItsWay
  <2>3. ASSUME NEW u \in Workers, OwnerWillDrain(u, q) PROVE OwnerWillDrain(u, q)'
    BY <1>9, <2>3 DEF WakeDone, OwnerWillDrain
  <2>4. workPending[q] /\ ~IsTerminal(q)
    BY <1>9 DEF WakeDone
  <2>. QED BY <2>1, <2>2, <2>3, <2>4 DEF NoLostWake, Carried
<1>10. ASSUME NEW t \in Threads, Resolve(t) PROVE Carried(q)'
  <2>1. q \in immediateList => q \in immediateList'
    BY <1>10 DEF Resolve
  <2>2. ASSUME NEW u \in Threads, OnItsWay(u, q) PROVE OnItsWay(u, q)'
    BY <1>10, <2>2 DEF Resolve, OnItsWay
  <2>3. ASSUME NEW u \in Workers, OwnerWillDrain(u, q) PROVE OwnerWillDrain(u, q)'
    BY <1>10, <2>3 DEF Resolve, OwnerWillDrain
  <2>4. workPending[q] /\ ~IsTerminal(q)
    BY <1>10 DEF Resolve
  <2>. QED BY <2>1, <2>2, <2>3, <2>4 DEF NoLostWake, Carried
<1>11. ASSUME NEW w \in Workers, NEW p \in Processes, WorkerPop(w, p) PROVE Carried(q)'
  <2>1. q \in immediateList => q \in immediateList' \/ OwnerWillDrain(w, q)'
    BY <1>11 DEF WorkerPop, OwnerWillDrain
  <2>2. ASSUME NEW u \in Threads, OnItsWay(u, q) PROVE OnItsWay(u, q)'
    BY <1>11, <2>2 DEF WorkerPop, OnItsWay
  <2>3. ASSUME NEW u \in Workers, OwnerWillDrain(u, q) PROVE OwnerWillDrain(u, q)'
    BY <1>11, <2>3 DEF WorkerPop, OwnerWillDrain
  <2>4. workPending[q] /\ ~IsTerminal(q)
    BY <1>11 DEF WorkerPop
  <2>. QED BY <2>1, <2>2, <2>3, <2>4 DEF NoLostWake, Carried
<1>12. ASSUME NEW w \in Workers, WorkerConsume(w) PROVE Carried(q)'
  <2>1. q \in immediateList => q \in immediateList'
    BY <1>12 DEF WorkerConsume
  <2>2. ASSUME NEW u \in Threads, OnItsWay(u, q) PROVE OnItsWay(u, q)'
    BY <1>12, <2>2 DEF WorkerConsume, OnItsWay
  <2>3. ASSUME NEW u \in Workers, OwnerWillDrain(u, q) PROVE OwnerWillDrain(u, q)'
    <3>1. CASE u = w
      BY <1>12, <2>3, <3>1 DEF WorkerConsume, OwnerWillDrain
    <3>2. CASE u # w
      <4>1. cur[w] # q
        BY <2>3, <3>2 DEF OwnerWillDrain, Custody, SingleHolder, Holds
      <4>. QED
        BY <1>12, <2>3, <3>2, <4>1 DEF WorkerConsume, OwnerWillDrain
    <3>. QED BY <3>1, <3>2
  <2>4. workPending[q] /\ ~IsTerminal(q)
    BY <1>12 DEF WorkerConsume
  <2>. QED BY <2>1, <2>2, <2>3, <2>4 DEF NoLostWake, Carried
<1>13. ASSUME NEW w \in Workers, DrainReturns(w) PROVE Carried(q)'
  <2>1. CASE DrainCompleted(w)
    <3>1. q \in immediateList => q \in immediateList'
      BY <2>1 DEF DrainCompleted, Drain
    <3>2. ASSUME NEW u \in Threads, OnItsWay(u, q) PROVE OnItsWay(u, q)'
      BY <2>1, <3>2 DEF DrainCompleted, Drain, OnItsWay
    <3>3. ASSUME NEW u \in Workers, OwnerWillDrain(u, q) PROVE OwnerWillDrain(u, q)'
      BY <2>1, <3>3 DEF DrainCompleted, Drain, OwnerWillDrain
    <3>4. workPending[q] /\ ~IsTerminal(q)
      BY <2>1 DEF DrainCompleted, Drain
    <3>. QED BY <3>1, <3>2, <3>3, <3>4 DEF NoLostWake, Carried
  <2>2. CASE DrainFailed(w)
    <3>1. q \in immediateList => q \in immediateList'
      BY <2>2 DEF DrainFailed, Drain
    <3>2. ASSUME NEW u \in Threads, OnItsWay(u, q) PROVE OnItsWay(u, q)'
      BY <2>2, <3>2 DEF DrainFailed, Drain, OnItsWay
    <3>3. ASSUME NEW u \in Workers, OwnerWillDrain(u, q) PROVE OwnerWillDrain(u, q)'
      BY <2>2, <3>3 DEF DrainFailed, Drain, OwnerWillDrain
    <3>4. workPending[q] /\ ~IsTerminal(q)
      BY <2>2 DEF DrainFailed, Drain
    <3>. QED BY <3>1, <3>2, <3>3, <3>4 DEF NoLostWake, Carried
  <2>3. CASE DrainDidWork(w)
    <3>1. q \in immediateList => q \in immediateList'
      BY <2>3 DEF DrainDidWork, Drain
    <3>2. ASSUME NEW u \in Threads, OnItsWay(u, q) PROVE OnItsWay(u, q)'
      BY <2>3, <3>2 DEF DrainDidWork, Drain, OnItsWay
    <3>3. ASSUME NEW u \in Workers, OwnerWillDrain(u, q) PROVE OwnerWillDrain(u, q)'
      BY <2>3, <3>3 DEF DrainDidWork, Drain, OwnerWillDrain
    <3>4. workPending[q] /\ ~IsTerminal(q)
      BY <2>3 DEF DrainDidWork, Drain
    <3>. QED BY <3>1, <3>2, <3>3, <3>4 DEF NoLostWake, Carried
  <2>4. CASE DrainNoWork(w)
    <3>1. q \in immediateList => q \in immediateList'
      BY <2>4 DEF DrainNoWork, Drain
    <3>2. ASSUME NEW u \in Threads, OnItsWay(u, q) PROVE OnItsWay(u, q)'
      BY <2>4, <3>2 DEF DrainNoWork, Drain, OnItsWay
    <3>3. ASSUME NEW u \in Workers, OwnerWillDrain(u, q) PROVE OwnerWillDrain(u, q)'
      BY <2>4, <3>3 DEF DrainNoWork, Drain, OwnerWillDrain
    <3>4. workPending[q] /\ ~IsTerminal(q)
      BY <2>4 DEF DrainNoWork, Drain
    <3>. QED BY <3>1, <3>2, <3>3, <3>4 DEF NoLostWake, Carried
  <2>. QED BY <1>13, <2>1, <2>2, <2>3, <2>4 DEF DrainReturns
<1>14. ASSUME NEW w \in Workers, WorkerCheck(w) PROVE Carried(q)'
  <2>1. q \in immediateList => q \in immediateList'
    BY <1>14 DEF WorkerCheck
  <2>2. ASSUME NEW u \in Threads, OnItsWay(u, q) PROVE OnItsWay(u, q)'
    BY <1>14, <2>2 DEF WorkerCheck, OnItsWay
  <2>3. ASSUME NEW u \in Workers, OwnerWillDrain(u, q) PROVE OwnerWillDrain(u, q)'
    BY <1>14, <2>3 DEF WorkerCheck, OwnerWillDrain
  <2>4. workPending[q] /\ ~IsTerminal(q)
    BY <1>14 DEF WorkerCheck
  <2>. QED BY <2>1, <2>2, <2>3, <2>4 DEF NoLostWake, Carried
<1>15. ASSUME NEW w \in Workers, WorkerSleep(w) PROVE Carried(q)'
  <2>1. q \in immediateList => q \in immediateList'
    BY <1>15 DEF WorkerSleep, MaySleep
  <2>2. ASSUME NEW u \in Threads, OnItsWay(u, q) PROVE OnItsWay(u, q)'
    BY <1>15, <2>2 DEF WorkerSleep, MaySleep, OnItsWay
  <2>3. ASSUME NEW u \in Workers, OwnerWillDrain(u, q) PROVE OwnerWillDrain(u, q)'
    <3>1. u # w
      BY <1>15, <2>3 DEF WorkerSleep, MaySleep, OwnerWillDrain
    <3>2. cur[w] # q
      BY <2>3, <3>1 DEF OwnerWillDrain, Custody, SingleHolder, Holds
    <3>. QED
      BY <1>15, <2>3, <3>1, <3>2 DEF WorkerSleep, OwnerWillDrain
  <2>4. workPending[q] /\ ~IsTerminal(q)
    BY <1>15 DEF WorkerSleep, MaySleep
  <2>. QED BY <2>1, <2>2, <2>3, <2>4 DEF NoLostWake, Carried
<1>16. ASSUME NEW w \in Workers, WorkerStayAwake(w) PROVE Carried(q)'
  <2>1. q \in immediateList => q \in immediateList'
    BY <1>16 DEF WorkerStayAwake
  <2>2. ASSUME NEW u \in Threads, OnItsWay(u, q) PROVE OnItsWay(u, q)'
    BY <1>16, <2>2 DEF WorkerStayAwake, OnItsWay
  <2>3. ASSUME NEW u \in Workers, OwnerWillDrain(u, q) PROVE OwnerWillDrain(u, q)'
    BY <1>16, <2>3 DEF WorkerStayAwake, OwnerWillDrain
  <2>4. workPending[q] /\ ~IsTerminal(q)
    BY <1>16 DEF WorkerStayAwake
  <2>. QED BY <2>1, <2>2, <2>3, <2>4 DEF NoLostWake, Carried
<1>17. ASSUME NEW w \in Workers, ReportError(w) PROVE Carried(q)'
  <2>1. q \in immediateList => q \in immediateList'
    BY <1>17 DEF ReportError
  <2>2. ASSUME NEW u \in Threads, OnItsWay(u, q) PROVE OnItsWay(u, q)'
    BY <1>17, <2>2 DEF ReportError, OnItsWay
  <2>3. ASSUME NEW u \in Workers, OwnerWillDrain(u, q) PROVE OwnerWillDrain(u, q)'
    BY <1>17, <2>3 DEF ReportError, OwnerWillDrain
  <2>4. workPending[q] /\ ~IsTerminal(q)
    BY <1>17 DEF ReportError
  <2>. QED BY <2>1, <2>2, <2>3, <2>4 DEF NoLostWake, Carried
<1>18. ASSUME NEW w \in Workers, ReportErrorState(w) PROVE Carried(q)'
  <2>1. q \in immediateList => q \in immediateList'
    BY <1>18 DEF ReportErrorState, LeaveRunnable
  <2>2. ASSUME NEW u \in Threads, OnItsWay(u, q) PROVE OnItsWay(u, q)'
    BY <1>18, <2>2 DEF ReportErrorState, LeaveRunnable, OnItsWay
  <2>3. ASSUME NEW u \in Workers, OwnerWillDrain(u, q) PROVE OwnerWillDrain(u, q)'
    BY <1>18, <2>3 DEF ReportErrorState, LeaveRunnable, OwnerWillDrain
  <2>4. workPending[q] /\ ~IsTerminal(q)
    BY <1>18 DEF ReportErrorState, LeaveRunnable
  <2>. QED BY <2>1, <2>2, <2>3, <2>4 DEF NoLostWake, Carried
<1>19. ASSUME NEW w \in Workers, CompleteCheck(w) PROVE Carried(q)'
  <2>1. q \in immediateList => q \in immediateList'
    BY <1>19 DEF CompleteCheck
  <2>2. ASSUME NEW u \in Threads, OnItsWay(u, q) PROVE OnItsWay(u, q)'
    BY <1>19, <2>2 DEF CompleteCheck, OnItsWay
  <2>3. ASSUME NEW u \in Workers, OwnerWillDrain(u, q) PROVE OwnerWillDrain(u, q)'
    BY <1>19, <2>3 DEF CompleteCheck, OwnerWillDrain
  <2>4. workPending[q] /\ ~IsTerminal(q)
    BY <1>19 DEF CompleteCheck
  <2>. QED BY <2>1, <2>2, <2>3, <2>4 DEF NoLostWake, Carried
<1>20. ASSUME NEW w \in Workers, CompleteStore(w) PROVE Carried(q)'
  <2>1. q \in immediateList => q \in immediateList'
    BY <1>20 DEF CompleteStore
  <2>2. ASSUME NEW u \in Threads, OnItsWay(u, q) PROVE OnItsWay(u, q)'
    BY <1>20, <2>2 DEF CompleteStore, OnItsWay
  <2>3. ASSUME NEW u \in Workers, OwnerWillDrain(u, q) PROVE OwnerWillDrain(u, q)'
    BY <1>20, <2>3 DEF CompleteStore, OwnerWillDrain
  <2>4. workPending[q] /\ ~IsTerminal(q)
    BY <1>20 DEF CompleteStore
  <2>. QED BY <2>1, <2>2, <2>3, <2>4 DEF NoLostWake, Carried
<1>21. ASSUME NEW w \in Workers, WorkerRelease(w) PROVE Carried(q)'
  <2>0. cur[w] # q
    BY <1>21 DEF WorkerRelease, ReleasedIsTerminal
  <2>1. q \in immediateList => q \in immediateList'
    BY <1>21 DEF WorkerRelease
  <2>2. ASSUME NEW u \in Threads, OnItsWay(u, q) PROVE OnItsWay(u, q)'
    BY <1>21, <2>2 DEF WorkerRelease, OnItsWay
  <2>3. ASSUME NEW u \in Workers, OwnerWillDrain(u, q) PROVE OwnerWillDrain(u, q)'
    BY <1>21, <2>3, <2>0 DEF WorkerRelease, OwnerWillDrain
  <2>4. workPending[q] /\ ~IsTerminal(q)
    BY <1>21 DEF WorkerRelease
  <2>. QED BY <2>1, <2>2, <2>3, <2>4 DEF NoLostWake, Carried
<1>22. ASSUME NEW c \in Callers, CancelRecord(c) PROVE Carried(q)'
  <2>1. q \in immediateList => q \in immediateList'
    BY <1>22 DEF CancelRecord
  <2>2. ASSUME NEW u \in Threads, OnItsWay(u, q) PROVE OnItsWay(u, q)'
    BY <1>22, <2>2 DEF CancelRecord, OnItsWay
  <2>3. ASSUME NEW u \in Workers, OwnerWillDrain(u, q) PROVE OwnerWillDrain(u, q)'
    BY <1>22, <2>3 DEF CancelRecord, OwnerWillDrain
  <2>4. workPending[q] /\ ~IsTerminal(q)
    BY <1>22 DEF CancelRecord
  <2>. QED BY <2>1, <2>2, <2>3, <2>4 DEF NoLostWake, Carried
<1>23. ASSUME NEW c \in Callers, CancelSuspended(c) PROVE Carried(q)'
  <2>1. q \in immediateList => q \in immediateList'
    BY <1>23 DEF CancelSuspended, CancelResolves
  <2>2. ASSUME NEW u \in Threads, OnItsWay(u, q) PROVE OnItsWay(u, q)'
    BY <1>23, <2>2 DEF CancelSuspended, CancelResolves, OnItsWay
  <2>3. ASSUME NEW u \in Workers, OwnerWillDrain(u, q) PROVE OwnerWillDrain(u, q)'
    BY <1>23, <2>3 DEF CancelSuspended, CancelResolves, OwnerWillDrain
  <2>4. workPending[q] /\ ~IsTerminal(q)
    BY <1>23 DEF CancelSuspended, CancelResolves
  <2>. QED BY <2>1, <2>2, <2>3, <2>4 DEF NoLostWake, Carried
<1>24. ASSUME NEW c \in Callers, CancelNotSuspended(c) PROVE Carried(q)'
  <2>1. q \in immediateList => q \in immediateList'
    BY <1>24 DEF CancelNotSuspended
  <2>2. ASSUME NEW u \in Threads, OnItsWay(u, q) PROVE OnItsWay(u, q)'
    BY <1>24, <2>2 DEF CancelNotSuspended, OnItsWay
  <2>3. ASSUME NEW u \in Workers, OwnerWillDrain(u, q) PROVE OwnerWillDrain(u, q)'
    BY <1>24, <2>3 DEF CancelNotSuspended, OwnerWillDrain
  <2>4. workPending[q] /\ ~IsTerminal(q)
    BY <1>24 DEF CancelNotSuspended
  <2>. QED BY <2>1, <2>2, <2>3, <2>4 DEF NoLostWake, Carried
<1>25. ASSUME NEW c \in Callers, CancelRunnable(c) PROVE Carried(q)'
  <2>1. q \in immediateList => q \in immediateList'
    BY <1>25 DEF CancelRunnable, LeaveRunnable
  <2>2. ASSUME NEW u \in Threads, OnItsWay(u, q) PROVE OnItsWay(u, q)'
    BY <1>25, <2>2 DEF CancelRunnable, LeaveRunnable, OnItsWay
  <2>3. ASSUME NEW u \in Workers, OwnerWillDrain(u, q) PROVE OwnerWillDrain(u, q)'
    BY <1>25, <2>3 DEF CancelRunnable, LeaveRunnable, OwnerWillDrain
  <2>4. workPending[q] /\ ~IsTerminal(q)
    BY <1>25 DEF CancelRunnable, LeaveRunnable
  <2>. QED BY <2>1, <2>2, <2>3, <2>4 DEF NoLostWake, Carried
<1>26. ASSUME NEW c \in Callers, NEW p \in Processes, CallSchedule(c, p) PROVE Carried(q)'
  <2>1. q \in immediateList => q \in immediateList'
    BY <1>26 DEF CallSchedule
  <2>2. ASSUME NEW u \in Threads, OnItsWay(u, q) PROVE OnItsWay(u, q)'
    BY <1>26, <2>2 DEF CallSchedule, OnItsWay
  <2>3. ASSUME NEW u \in Workers, OwnerWillDrain(u, q) PROVE OwnerWillDrain(u, q)'
    BY <1>26, <2>3 DEF CallSchedule, OwnerWillDrain
  <2>4. CASE workPending[q]
    BY <1>26, <2>1, <2>2, <2>3, <2>4 DEF CallSchedule, NoLostWake, Carried
  <2>5. CASE ~workPending[q]
    BY <1>26, <2>5 DEF CallSchedule, OnItsWay, Carried
  <2>. QED BY <2>4, <2>5
<1>27. ASSUME NEW c \in Callers, NEW p \in Processes, CallWake(c, p) PROVE Carried(q)'
  <2>1. q \in immediateList => q \in immediateList'
    BY <1>27 DEF CallWake
  <2>2. ASSUME NEW u \in Threads, OnItsWay(u, q) PROVE OnItsWay(u, q)'
    BY <1>27, <2>2 DEF CallWake, OnItsWay
  <2>3. ASSUME NEW u \in Workers, OwnerWillDrain(u, q) PROVE OwnerWillDrain(u, q)'
    BY <1>27, <2>3 DEF CallWake, OwnerWillDrain
  <2>4. workPending[q] /\ ~IsTerminal(q)
    BY <1>27 DEF CallWake
  <2>. QED BY <2>1, <2>2, <2>3, <2>4 DEF NoLostWake, Carried
<1>28. ASSUME NEW c \in Callers, NEW p \in Processes, CallCancel(c, p) PROVE Carried(q)'
  <2>1. q \in immediateList => q \in immediateList'
    BY <1>28 DEF CallCancel
  <2>2. ASSUME NEW u \in Threads, OnItsWay(u, q) PROVE OnItsWay(u, q)'
    BY <1>28, <2>2 DEF CallCancel, OnItsWay
  <2>3. ASSUME NEW u \in Workers, OwnerWillDrain(u, q) PROVE OwnerWillDrain(u, q)'
    BY <1>28, <2>3 DEF CallCancel, OwnerWillDrain
  <2>4. workPending[q] /\ ~IsTerminal(q)
    BY <1>28 DEF CallCancel
  <2>. QED BY <2>1, <2>2, <2>3, <2>4 DEF NoLostWake, Carried
<1>29. CASE UNCHANGED vars
  BY <1>29, NoLostWake DEF vars, NoLostWake, Carried, OnItsWay, OwnerWillDrain
<1>. QED
  BY <1>1, <1>2, <1>3, <1>4, <1>5, <1>6, <1>7, <1>8, <1>9, <1>10, <1>11,
       <1>12, <1>13, <1>14, <1>15, <1>16, <1>17, <1>18, <1>19, <1>20, <1>21,
       <1>22, <1>23, <1>24, <1>25, <1>26, <1>27, <1>28, <1>29 DEF Next,
       ThreadStep, WorkerStep, CancelStep, Call

----------------------------------------------------------------------------
(* The theorems.                                                           *)

\* The invariant holds initially.
LEMMA InitFullInv == Init => FullInv
<1>. SUFFICES ASSUME Init PROVE FullInv
  OBVIOUS
<1>1. TypeOK
  BY InitTypeOK
<1>2. ControlInv
  BY DEF Init, ControlInv, Threads, OwnerPcs, SchedulePcs, CancelPcs
<1>3. \A p \in Processes, t \in Threads : ~Holds(t, p)
  BY ProcessAssumption DEF Init, Holds, Threads
<1>4. Custody
  BY <1>3 DEF Init, Custody, IdleIsFree, SingleHolder, ReleasedIsBusy, NoAccessAfterRelease
<1>5. Resolution
  <2>1. SuspendedIsUnscheduled
    <3>. SUFFICES ASSUME NEW p \in Processes
                  PROVE  /\ state[p] = "SUSPENDED" => NeverScheduled(p) /\ completions[p] = <<>>
                         /\ scheduleState[p] # "IDLE" => launched[p]
      BY DEF SuspendedIsUnscheduled
    <3>1. InitialSuspendCount(p) \in Int
      BY <1>1 DEF Init, TypeOK
    <3>2. state[p] = "SUSPENDED" => InitialSuspendCount(p) # 0
      BY <3>1 DEF Init
    <3>3. state[p] = "SUSPENDED" => ~launched[p]
      BY <3>2 DEF Init
    <3>. QED
      BY <3>3 DEF Init, NeverScheduled, Threads, SchedulePcs
  <2>2. CancellerResolvesAlone /\ QueuedIsUnresolved
    BY DEF Init, CancellerResolvesAlone, QueuedIsUnresolved, UnresolvedPcs, Threads
  <2>3. ResolvedIsNotIdle /\ CompletedOnce
    BY DEF Init, ResolvedIsNotIdle, CompletedOnce
  <2>. QED
    BY <2>1, <2>2, <2>3 DEF Resolution
<1>6. Delivery
  BY DEF Init, Delivery, BusyIsHeld, ReleasedIsTerminal, NoLostWake, Threads
<1>. QED
  BY <1>1, <1>2, <1>4, <1>5, <1>6 DEF FullInv, Inv

\* The invariant is preserved by every step.
LEMMA NextFullInv == FullInv /\ [Next]_vars => FullInv'
<1>. SUFFICES ASSUME FullInv, [Next]_vars PROVE FullInv'
  OBVIOUS
<1>1. Inv /\ Resolution /\ Delivery /\ TypeOK /\ ControlInv
  BY DEF FullInv, Inv
<1>2. Inv'
  BY <1>1, NextTypeOK, NextControl, NextCustody DEF Inv
<1>3. Resolution'
  BY <1>1, NextResolution
<1>4. ReleasedIsTerminal'
  BY <1>1, NextReleasedIsTerminal DEF Delivery
<1>5. BusyIsHeld'
  BY <1>1, NextBusyIsHeld DEF Delivery, BusyIsHeld
<1>6. NoLostWake'
  BY <1>1, NextNoLostWake DEF Delivery, NoLostWake
<1>. QED
  BY <1>2, <1>3, <1>4, <1>5, <1>6 DEF FullInv, Delivery

\* The inductive invariant is an invariant of the specification.
THEOREM Invariance == Spec => []FullInv
BY InitFullInv, NextFullInv, PTL DEF Spec

\* Every variable always has its type.
THEOREM TypeCorrectness == Spec => []TypeOK
<1>1. FullInv => TypeOK
  BY DEF FullInv, Inv
<1>. QED
  BY <1>1, Invariance, PTL

\* schedule_state makes ownership of a process exclusive: for any number of
\* workers and of threads racing to schedule it, it has at most one holder
\* and is never linked into the immediate list while it is held.
THEOREM ExclusiveOwnership == Spec => []SingleHolder
<1>1. FullInv => SingleHolder
  BY DEF FullInv, Inv, Custody
<1>. QED
  BY <1>1, Invariance, PTL

\* Once release_fn was called the executor never touches the process again.
THEOREM ReleaseIsFinalAccess == Spec => []NoAccessAfterRelease
<1>1. FullInv => NoAccessAfterRelease
  BY DEF FullInv, Inv, Custody
<1>. QED
  BY <1>1, Invariance, PTL

\* completion_fn is called at most once for every process.
THEOREM CompletionAtMostOnce == Spec => []CompletedOnce
<1>1. FullInv => CompletedOnce
  BY DEF FullInv, Resolution
<1>. QED
  BY <1>1, Invariance, PTL

\* No wake published through schedule_process, or by the activation of a
\* dependent, is ever lost between schedulers and workers.
THEOREM WakesAreKept == Spec => []NoLostWake
<1>1. FullInv => NoLostWake
  BY DEF FullInv, Delivery
<1>. QED
  BY <1>1, Invariance, PTL

----------------------------------------------------------------------------
(* Dependencies: suspend_count is the number of wakes still to come.       *)

\* The threads that have still to wake p, and the processes it waits for.
Wakers(p) == {t \in Threads : p \in todo[t]}
Unresolved(p) == {q \in Predecessors(p) : completions[q] = <<>>}
CountOf(p) ==
  /\ IsFiniteSet(Wakers(p))
  /\ suspendCount[p] = wakesOwed[p] + Cardinality(Unresolved(p)) + Cardinality(Wakers(p))

\* The count is exact, wakes are owed only by threads in resolve or wake, the
\* thread about to activate a process has seen its count reach zero, and a
\* runnable process waits for nobody.
OrderInv ==
  /\ \A p \in Processes : CountOf(p)
  /\ \A t \in Threads : todo[t] # {} => pc[t] \in {"wake_dependents", "wake_cas"}
  /\ \A t \in Threads : pc[t] = "wake_cas" => suspendCount[target[t]] = 0
  /\ \A p \in Processes : state[p] = "RUNNABLE" => Unresolved(p) = {}

\* A step that wakes, resolves and activates nothing.
Steady ==
  /\ UNCHANGED <<suspendCount, wakesOwed, completions, todo>>
  /\ \A t \in Threads :
       /\ todo[t] # {} => pc'[t] \in {"wake_dependents", "wake_cas"}
       /\ pc'[t] = "wake_cas" => pc[t] = "wake_cas" /\ target'[t] = target[t]
  /\ \A p \in Processes : state'[p] = "RUNNABLE" => state[p] = "RUNNABLE"

LEMMA SteadyKeepsOrder ==
  ASSUME OrderInv, Steady PROVE OrderInv'
<1>1. \A p \in Processes : Wakers(p)' = Wakers(p) /\ Unresolved(p)' = Unresolved(p)
  BY DEF Wakers, Unresolved, Steady
<1>2. \A p \in Processes : CountOf(p)'
  BY <1>1 DEF OrderInv, CountOf, Steady
<1>. QED
  BY <1>1, <1>2 DEF OrderInv, Steady

\* The predecessors a process waits for are finitely many.
LEMMA UnresolvedIsFinite ==
  ASSUME NEW p \in Processes
  PROVE  IsFiniteSet(Unresolved(p)) /\ Cardinality(Unresolved(p)) \in Nat
BY ProcessAssumption, FS_Subset, FS_CardinalityType DEF Unresolved, Predecessors

\* A process with a waker has not reached zero; one that has waits for nobody.
LEMMA CountFacts ==
  ASSUME TypeOK, OrderInv, NEW p \in Processes
  PROVE  /\ Wakers(p) # {} => suspendCount[p] >= 1
         /\ suspendCount[p] = 0 => Unresolved(p) = {}
<1>1. /\ IsFiniteSet(Wakers(p)) /\ wakesOwed[p] \in Nat
      /\ suspendCount[p] = wakesOwed[p] + Cardinality(Unresolved(p)) + Cardinality(Wakers(p))
  BY DEF TypeOK, OrderInv, CountOf
<1>2. /\ Cardinality(Wakers(p)) \in Nat
      /\ Wakers(p) # {} => Cardinality(Wakers(p)) # 0
  BY <1>1, FS_CardinalityType, FS_EmptySet
<1>3. /\ Cardinality(Unresolved(p)) \in Nat
      /\ Unresolved(p) # {} => Cardinality(Unresolved(p)) # 0
  BY UnresolvedIsFinite, FS_EmptySet
<1>. QED
  BY <1>1, <1>2, <1>3

\* Every step keeps the count exact.
LEMMA NextOrder ==
  ASSUME FullInv, OrderInv, [Next]_vars PROVE OrderInv'
<1>0. TypeOK /\ ControlInv /\ Resolution
  BY DEF FullInv, Inv
<1>01. /\ pc \in [Threads -> Pcs] /\ todo \in [Threads -> SUBSET Processes]
       /\ target \in [Threads -> Processes \cup {NoProcess}]
       /\ state \in [Processes -> ProcessStates] /\ suspendCount \in [Processes -> Int]
       /\ wakesOwed \in [Processes -> Nat]
       /\ cur \in [Threads -> Processes \cup {NoProcess}]
       /\ Workers \subseteq Threads /\ Callers \subseteq Threads
       /\ completions \in [Processes -> Seq(Statuses)]
  BY <1>0 DEF TypeOK, Threads
<1>02. /\ \A t \in Threads : todo[t] # {} => pc[t] \in {"wake_dependents", "wake_cas"}
       /\ \A t \in Threads : pc[t] = "wake_cas" => suspendCount[target[t]] = 0
       /\ \A t \in Threads : pc[t] = "wake_cas" => target[t] \in Processes
       /\ \A p \in Processes : state[p] = "RUNNABLE" => Unresolved(p) = {}
       /\ \A p \in Processes : CountOf(p)
  BY <1>0, <1>01 DEF OrderInv, ControlInv
<1>1. ASSUME NEW t \in Threads, ScheduleCheckTerminal(t) PROVE Steady
  BY <1>01, <1>02, <1>1 DEF ScheduleCheckTerminal, Goto, processVars, threadVars, ghostVars,
     Steady, Threads
<1>2. ASSUME NEW t \in Threads, ScheduleExchange(t) PROVE Steady
  BY <1>01, <1>02, <1>2 DEF ScheduleExchange, Goto, processVars, threadVars, ghostVars, Steady,
     Threads
<1>3. ASSUME NEW t \in Threads, SchedulePush(t) PROVE Steady
  BY <1>01, <1>02, <1>3
  DEF SchedulePush, Goto, processVars, threadVars, ghostVars, Steady, Threads
<1>4. ASSUME NEW t \in Threads, ActivateDone(t) PROVE Steady
  BY <1>01, <1>02, <1>4
  DEF ActivateDone, Goto, processVars, threadVars, ghostVars, Steady, Threads
<1>5. ASSUME NEW t \in Threads, NEW d \in Processes, ActivateNext(t, d) PROVE Steady
  BY <1>01, <1>02, <1>5
  DEF ActivateNext, Goto, processVars, threadVars, ghostVars, Steady, Threads
<1>6. ASSUME NEW t \in Threads, WakeCancelled(t) PROVE Steady
  BY <1>01, <1>02, <1>6
  DEF WakeCancelled, Goto, processVars, threadVars, ghostVars, Steady, Threads
<1>7. ASSUME NEW t \in Threads, WakeDone(t) PROVE Steady
  BY <1>01, <1>02, <1>7 DEF WakeDone, Goto, processVars, threadVars, ghostVars, Steady, Threads
<1>8. ASSUME NEW w \in Workers, NEW p \in Processes, WorkerPop(w, p) PROVE Steady
  BY <1>01, <1>02, <1>8 DEF WorkerPop, Goto, processVars, threadVars, ghostVars, Steady, Threads
<1>9. ASSUME NEW w \in Workers, WorkerConsume(w) PROVE Steady
  BY <1>01, <1>02, <1>9
  DEF WorkerConsume, Goto, processVars, threadVars, ghostVars, Steady, Threads
<1>10. ASSUME NEW w \in Workers, DrainReturns(w) PROVE Steady
  BY <1>01, <1>02, <1>10 DEF DrainReturns, DrainCompleted, DrainFailed, DrainDidWork, DrainNoWork,
     Drain, Goto, processVars, threadVars, ghostVars, Steady, Threads
<1>11. ASSUME NEW w \in Workers, WorkerCheck(w) PROVE Steady
  BY <1>01, <1>02, <1>11
  DEF WorkerCheck, Goto, processVars, threadVars, ghostVars, Steady, Threads
<1>12. ASSUME NEW w \in Workers, WorkerSleep(w) PROVE Steady
  BY <1>01, <1>02, <1>12
  DEF WorkerSleep, Goto, processVars, threadVars, ghostVars, Steady, Threads
<1>13. ASSUME NEW w \in Workers, WorkerStayAwake(w) PROVE Steady
  BY <1>01, <1>02, <1>13 DEF WorkerStayAwake, Goto, processVars, threadVars, ghostVars, Steady,
     Threads
<1>14. ASSUME NEW w \in Workers, ReportError(w) PROVE Steady
  BY <1>01, <1>02, <1>14 DEF ReportError, RecordError, Goto, processVars, threadVars, ghostVars,
     Steady, Threads
<1>15. ASSUME NEW w \in Workers, ReportErrorState(w) PROVE Steady
  BY <1>01, <1>02, <1>15 DEF ReportErrorState, LeaveRunnable, Goto, processVars, threadVars,
     ghostVars, Steady, Threads
<1>16. ASSUME NEW w \in Workers, CompleteCheck(w) PROVE Steady
  BY <1>01, <1>02, <1>16 DEF CompleteCheck, Goto, processVars, threadVars, ghostVars, Steady,
     Threads
<1>17. ASSUME NEW w \in Workers, CompleteStore(w) PROVE Steady
  BY <1>01, <1>02, <1>17 DEF CompleteStore, Goto, processVars, threadVars, ghostVars, Steady,
     Threads
<1>18. ASSUME NEW w \in Workers, WorkerRelease(w) PROVE Steady
  BY <1>01, <1>02, <1>18 DEF WorkerRelease, Goto, processVars, threadVars, ghostVars, Steady,
     Threads
<1>19. ASSUME NEW t \in Callers, CancelRecord(t) PROVE Steady
  BY <1>01, <1>02, <1>19 DEF CancelRecord, RecordError, Goto, processVars, threadVars, ghostVars,
     Steady, Threads
<1>20. ASSUME NEW t \in Callers, CancelSuspended(t) PROVE Steady
  BY <1>01, <1>02, <1>20 DEF CancelSuspended, Goto, processVars, threadVars, ghostVars, Steady,
     Threads
<1>21. ASSUME NEW t \in Callers, CancelNotSuspended(t) PROVE Steady
  BY <1>01, <1>02, <1>21 DEF CancelNotSuspended, Goto, processVars, threadVars, ghostVars, Steady,
     Threads
<1>22. ASSUME NEW t \in Callers, CancelRunnable(t) PROVE Steady
  BY <1>01, <1>02, <1>22 DEF CancelRunnable, LeaveRunnable, Goto, processVars, threadVars,
     ghostVars, Steady, Threads
<1>23. ASSUME NEW t \in Callers, NEW p \in Processes, CallSchedule(t, p) PROVE Steady
  BY <1>01, <1>02, <1>23
  DEF CallSchedule, Goto, processVars, threadVars, ghostVars, Steady, Threads
<1>24. ASSUME NEW t \in Callers, NEW p \in Processes, CallCancel(t, p) PROVE Steady
  BY <1>01, <1>02, <1>24 DEF CallCancel, Goto, processVars, threadVars, ghostVars, Steady, Threads
<1>25. ASSUME UNCHANGED vars PROVE Steady
  BY <1>02, <1>25 DEF vars, processVars, threadVars, ghostVars, Steady
<1>26. ASSUME NEW t \in Threads, NEW d \in Processes, WakeDecrement(t, d) PROVE OrderInv'
  <2>1. /\ d \in todo[t] /\ pc[t] = "wake_dependents"
        /\ todo' = [todo EXCEPT ![t] = @ \ {d}] /\ target' = [target EXCEPT ![t] = d]
        /\ suspendCount' = [suspendCount EXCEPT ![d] = @ - 1]
        /\ pc'[t] \in {"wake_dependents", "wake_cas"}
        /\ pc'[t] = "wake_cas" => suspendCount[d] = 1
        /\ \A u \in Threads : u # t => pc'[u] = pc[u]
        /\ UNCHANGED <<state, wakesOwed, completions>>
    BY <1>01, <1>26 DEF WakeDecrement, Goto, DroveToZero, ghostVars
  <2>2. t \in Wakers(d) /\ Wakers(d)' = Wakers(d) \ {t}
    BY <1>01, <2>1 DEF Wakers
  <2>3. \A p \in Processes : p # d => Wakers(p)' = Wakers(p)
    BY <1>01, <2>1 DEF Wakers
  <2>4. \A p \in Processes : Unresolved(p)' = Unresolved(p)
    BY <2>1 DEF Unresolved
  <2>5. CountOf(d)'
    <3>1. IsFiniteSet(Wakers(d)) /\ Cardinality(Wakers(d)) \in Nat
      BY <1>02, FS_CardinalityType DEF CountOf
    <3>2. IsFiniteSet(Wakers(d)') /\ Cardinality(Wakers(d)') = Cardinality(Wakers(d)) - 1
      BY <2>2, <3>1, FS_RemoveElement
    <3>3. suspendCount'[d] = suspendCount[d] - 1 /\ Cardinality(Unresolved(d)) \in Nat
      BY <1>01, <2>1, UnresolvedIsFinite
    <3>. QED
      BY <1>01, <1>02, <2>1, <2>4, <3>1, <3>2, <3>3 DEF CountOf
  <2>6. \A p \in Processes : p # d => CountOf(p)'
    BY <1>01, <1>02, <2>1, <2>3, <2>4 DEF CountOf
  <2>7. ASSUME NEW u \in Threads, pc'[u] = "wake_cas" PROVE suspendCount'[target'[u]] = 0
    <3>1. CASE u = t
      BY <1>01, <2>1, <2>7, <3>1
    <3>2. CASE u # t
      <4>1. pc[u] = "wake_cas" /\ target'[u] = target[u] /\ suspendCount[target[u]] = 0
        BY <1>01, <1>02, <2>1, <2>7, <3>2
      <4>2. target[u] # d
        BY <1>0, <2>2, <4>1, CountFacts
      <4>. QED
        BY <1>01, <2>1, <4>1, <4>2
    <3>. QED
      BY <3>1, <3>2
  <2>8. \A u \in Threads : todo'[u] # {} => pc'[u] \in {"wake_dependents", "wake_cas"}
    BY <1>01, <1>02, <2>1
  <2>. QED
    BY <1>02, <2>1, <2>4, <2>5, <2>6, <2>7, <2>8 DEF OrderInv
<1>27. ASSUME NEW t \in Threads, WakeActivate(t) PROVE OrderInv'
  <2>1. PICK d \in Processes : d = target[t]
    BY <1>02, <1>27 DEF WakeActivate, Goto
  <2>2. /\ pc[t] = "wake_cas" /\ pc'[t] = "wake_dependents" /\ target[t] = d
        /\ state' = [state EXCEPT ![d] = "RUNNABLE"]
        /\ \A u \in Threads : u # t => pc'[u] = pc[u]
        /\ UNCHANGED <<suspendCount, wakesOwed, completions, todo, target>>
    BY <1>01, <1>27, <2>1 DEF WakeActivate, Goto
  <2>3. \A p \in Processes : Wakers(p)' = Wakers(p) /\ Unresolved(p)' = Unresolved(p)
    BY <2>2 DEF Wakers, Unresolved
  <2>4. Unresolved(d) = {}
    BY <1>0, <1>02, <2>2, CountFacts
  <2>5. \A p \in Processes : CountOf(p)'
    BY <1>02, <2>2, <2>3 DEF CountOf
  <2>6. \A p \in Processes : state'[p] = "RUNNABLE" => Unresolved(p)' = {}
    BY <1>01, <1>02, <2>2, <2>3, <2>4
  <2>. QED
    BY <1>02, <2>2, <2>5, <2>6 DEF OrderInv
<1>28. ASSUME NEW t \in Callers, NEW p \in Processes, CallWake(t, p) PROVE OrderInv'
  <2>1. /\ pc[t] = "ready" /\ pc'[t] = "wake_dependents" /\ t \in Threads
        /\ wakesOwed[p] > 0 /\ wakesOwed' = [wakesOwed EXCEPT ![p] = @ - 1]
        /\ todo' = [todo EXCEPT ![t] = {p}]
        /\ \A u \in Threads : u # t => pc'[u] = pc[u]
        /\ UNCHANGED <<suspendCount, completions, state, target>>
    BY <1>01, <1>28 DEF CallWake, Goto, processVars
  <2>2. todo[t] = {}
    BY <1>02, <2>1
  <2>3. t \notin Wakers(p) /\ Wakers(p)' = Wakers(p) \cup {t}
    BY <1>01, <2>1, <2>2 DEF Wakers
  <2>4. \A q \in Processes : q # p => Wakers(q)' = Wakers(q)
    BY <1>01, <2>1, <2>2 DEF Wakers
  <2>5. \A q \in Processes : Unresolved(q)' = Unresolved(q)
    BY <2>1 DEF Unresolved
  <2>6. CountOf(p)'
    <3>1. IsFiniteSet(Wakers(p)) /\ Cardinality(Wakers(p)) \in Nat
      BY <1>02, FS_CardinalityType DEF CountOf
    <3>2. IsFiniteSet(Wakers(p)') /\ Cardinality(Wakers(p)') = Cardinality(Wakers(p)) + 1
      BY <2>3, <3>1, FS_AddElement
    <3>3. wakesOwed'[p] = wakesOwed[p] - 1 /\ Cardinality(Unresolved(p)) \in Nat
      BY <1>01, <2>1, UnresolvedIsFinite
    <3>. QED
      BY <1>01, <1>02, <2>1, <2>5, <3>1, <3>2, <3>3 DEF CountOf
  <2>7. \A q \in Processes : q # p => CountOf(q)'
    BY <1>01, <1>02, <2>1, <2>4, <2>5 DEF CountOf
  <2>8. \A u \in Threads : /\ todo'[u] # {} => pc'[u] \in {"wake_dependents", "wake_cas"}
                           /\ pc'[u] = "wake_cas" => suspendCount'[target'[u]] = 0
    BY <1>01, <1>02, <2>1
  <2>. QED
    BY <1>02, <2>1, <2>5, <2>6, <2>7, <2>8 DEF OrderInv
<1>29. ASSUME NEW t \in Threads, Resolve(t) PROVE OrderInv'
  <2>0. cur[t] \in Processes /\ completions[cur[t]] = <<>>
    BY <1>0, <1>01, <1>29 DEF Resolve, Goto, ControlInv, Resolution, QueuedIsUnresolved,
       CancellerResolvesAlone, UnresolvedPcs, OwnerPcs, Threads
  <2>1. PICK r \in Processes : r = cur[t] /\ completions[r] = <<>>
    BY <2>0
  <2>2. /\ pc[t] = "resolve" /\ pc'[t] = "wake_dependents"
        /\ completions' = [completions EXCEPT ![r] = Append(@, errorStatus[r])]
        /\ todo' = [todo EXCEPT ![t] = Dependents[r]]
        /\ \A u \in Threads : u # t => pc'[u] = pc[u]
        /\ UNCHANGED <<suspendCount, wakesOwed, state, target>>
    BY <1>01, <1>29, <2>1 DEF Resolve, Goto, processVars
  <2>3. todo[t] = {} /\ completions'[r] # <<>>
    <3>1. errorStatus[r] \in Statuses /\ completions[r] \in Seq(Statuses)
      BY <1>0 DEF TypeOK
    <3>2. Append(completions[r], errorStatus[r]) # <<>>
      BY <3>1, AppendProperties, Zenon
    <3>. QED
      BY <1>01, <1>02, <2>2, <3>2
  <2>4. ASSUME NEW p \in Processes, p \in Dependents[r]
        PROVE  /\ r \in Unresolved(p) /\ Unresolved(p)' = Unresolved(p) \ {r}
               /\ t \notin Wakers(p) /\ Wakers(p)' = Wakers(p) \cup {t}
    <3>1. r \in Unresolved(p) /\ Unresolved(p)' = Unresolved(p) \ {r}
      BY <1>01, <2>1, <2>2, <2>3, <2>4 DEF Unresolved, Predecessors
    <3>2. t \notin Wakers(p) /\ Wakers(p)' = Wakers(p) \cup {t}
      BY <1>01, <2>2, <2>3, <2>4 DEF Wakers
    <3>. QED
      BY <3>1, <3>2
  <2>5. ASSUME NEW p \in Processes, p \notin Dependents[r]
        PROVE  Unresolved(p)' = Unresolved(p) /\ Wakers(p)' = Wakers(p)
    <3>1. Unresolved(p)' = Unresolved(p)
      BY <1>01, <2>2, <2>5 DEF Unresolved, Predecessors
    <3>2. Wakers(p)' = Wakers(p)
      BY <1>01, <2>2, <2>3, <2>5 DEF Wakers
    <3>. QED
      BY <3>1, <3>2
  <2>6. ASSUME NEW p \in Processes PROVE CountOf(p)'
    <3>1. CASE p \notin Dependents[r]
      BY <1>02, <2>2, <2>5, <3>1 DEF CountOf
    <3>2. CASE p \in Dependents[r]
      <4>1. IsFiniteSet(Wakers(p)) /\ Cardinality(Wakers(p)) \in Nat
        BY <1>02, FS_CardinalityType DEF CountOf
      <4>2. IsFiniteSet(Wakers(p)') /\ Cardinality(Wakers(p)') = Cardinality(Wakers(p)) + 1
        BY <2>4, <3>2, <4>1, FS_AddElement
      <4>3. /\ Cardinality(Unresolved(p)) \in Nat
            /\ Cardinality(Unresolved(p)') = Cardinality(Unresolved(p)) - 1
        BY <2>4, <3>2, UnresolvedIsFinite, FS_RemoveElement
      <4>. QED
        BY <1>01, <1>02, <2>2, <4>1, <4>2, <4>3 DEF CountOf
    <3>. QED
      BY <3>1, <3>2
  <2>7. \A p \in Processes : state'[p] = "RUNNABLE" => Unresolved(p)' = {}
    BY <1>02, <2>2, <2>4, <2>5
  <2>8. \A u \in Threads : /\ todo'[u] # {} => pc'[u] \in {"wake_dependents", "wake_cas"}
                           /\ pc'[u] = "wake_cas" => suspendCount'[target'[u]] = 0
    BY <1>01, <1>02, <2>2
  <2>. QED
    BY <2>6, <2>7, <2>8 DEF OrderInv
<1>. QED
  BY <1>1, <1>2, <1>3, <1>4, <1>5, <1>6, <1>7, <1>8, <1>9, <1>10, <1>11, <1>12, <1>13, <1>14,
     <1>15, <1>16, <1>17, <1>18, <1>19, <1>20, <1>21, <1>22, <1>23, <1>24, <1>25, <1>26, <1>27,
     <1>28, <1>29,
     SteadyKeepsOrder DEF Next, ThreadStep, WorkerStep, CancelStep, Call

\* suspend_count always equals the number of wakes still to come, for any
\* dependency graph and any number of threads: the assertion in
\* iree_task_process_wake never fails, and no process becomes runnable before
\* every process it depends on was resolved.
THEOREM DependenciesAreKept == Spec => []DependencyOrder
<1>1. Init => OrderInv
  <2>. SUFFICES ASSUME Init PROVE OrderInv
    OBVIOUS
  <2>1. ASSUME NEW p \in Processes PROVE Wakers(p) = {} /\ Unresolved(p) = Predecessors(p)
    BY DEF Init, Wakers, Unresolved, Predecessors
  <2>2. ASSUME NEW p \in Processes PROVE CountOf(p)
    <3>1. Cardinality(Predecessors(p)) \in Nat
      BY <2>1, UnresolvedIsFinite
    <3>2. IsFiniteSet(Wakers(p)) /\ Cardinality(Wakers(p)) = 0
      BY <2>1, FS_EmptySet
    <3>3. suspendCount[p] = Cardinality(Predecessors(p)) + ExternalWakes[p]
          /\ wakesOwed[p] = ExternalWakes[p] /\ ExternalWakes[p] \in Nat
      BY DependentsAssumption DEF Init, InitialSuspendCount
    <3>. QED
      BY <2>1, <3>1, <3>2, <3>3 DEF CountOf
  <2>3. ASSUME NEW p \in Processes, state[p] = "RUNNABLE" PROVE Unresolved(p) = {}
    <3>1. IsFiniteSet(Predecessors(p)) /\ Cardinality(Predecessors(p)) \in Nat
      BY <2>1, UnresolvedIsFinite
    <3>2. ExternalWakes[p] \in Nat
      BY DependentsAssumption
    <3>3. Cardinality(Predecessors(p)) = 0
      BY <2>3, <3>1, <3>2 DEF Init, InitialSuspendCount
    <3>. QED
      BY <2>1, <3>1, <3>3, FS_EmptySet
  <2>. QED
    BY <2>2, <2>3 DEF OrderInv, Init
<1>2. FullInv /\ OrderInv /\ [Next]_vars => OrderInv'
  BY NextOrder
<1>3. OrderInv => DependencyOrder
  BY DEF OrderInv, CountOf, DependencyOrder, SuspendCountAccounting, Wakers, Unresolved
<1>. QED
  BY <1>1, <1>2, <1>3, Invariance, PTL DEF Spec
=============================================================================
