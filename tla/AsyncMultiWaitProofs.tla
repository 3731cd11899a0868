------------------------ MODULE AsyncMultiWaitProofs ------------------------
(***************************************************************************)
(* Proofs about AsyncMultiWait, for any number of threads, semaphores and  *)
(* timepoints and any calls they make: blocking waits keep everything that *)
(* is proved of the semaphores, the state of a wait outlives the callbacks *)
(* that touch it, and what a wait returns is so.                           *)
(***************************************************************************)
EXTENDS AsyncMultiWait, AsyncSemaphoreProofs

----------------------------------------------------------------------------
(* The inductive invariant.                                                *)

NoteSet == [epoch : Nat, waiters : Int, asleep : SUBSET Threads]

WaitSet ==
  [mode : {"all", "any"}, operands : Seq(Operands),
   timeout : {"immediate", "finite", "infinite"}, live : BOOLEAN, remaining : Int,
   failure : Statuses, note : NoteSet, completed : SUBSET Timepoints, token : Nat,
   next : Nat \ {0}, registered : Nat, reached : Nat, polled : BOOLEAN,
   status : Statuses \cup {"deadline_exceeded", "resource_exhausted"},
   result : Statuses \cup {"deadline_exceeded", "resource_exhausted", None}]

TypedWait == wait \in [Threads -> WaitSet]

\* The operands of a wait, and their timepoints.
Indexes(t) == 1..Len(wait[t].operands)
Sem(t, i) == wait[t].operands[i].sem
Value(t, i) == wait[t].operands[i].value
Tp(t, i) == wait[t].operands[i].tp

\* Who may register a timepoint is fixed by the script.
Follows(script) ==
  \A t \in Threads :
    /\ \A k \in 1..Len(todo[t]) : todo[t][k] \in CallsOf(script, t)
    /\ wait[t].operands = <<>> \/
         \E c \in CallsOf(script, t) : c.op = "wait" /\ c.operands = wait[t].operands

ScriptInv == \E script \in Scripts : Follows(script)

\* The frame of the wait is the outermost of its thread.
BasePcs == WaitPcs \ CallbackPcs
BasePc(t) == stack[t][Len(stack[t])].pc

BaseInv ==
  \A t \in Threads :
    /\ \A i \in 1..Len(stack[t]) :
         stack[t][i].pc \in BasePcs => i = Len(stack[t]) /\ wait[t].live
    /\ wait[t].live => stack[t] # <<>> /\ BasePc(t) \in BasePcs

Polling(t) == BasePc(t) \in {"poll_value", "poll_failure"}
Cleaning(t) == BasePc(t) \in {"cleanup", "join"}

\* How far a live wait has come; its semaphores are alive.
Phase(t) ==
  /\ wait[t].operands # <<>> /\ wait[t].result = None
  /\ wait[t].registered <= Count(t) /\ wait[t].next <= Count(t) + 1
  /\ Polling(t) => wait[t].registered = 0
  /\ BasePc(t) \in {"poll_failure", "registered"} => wait[t].next <= Count(t)
  /\ BasePc(t) \in {"register", "registered"} => wait[t].next = wait[t].registered + 1
  /\ BasePc(t) \in {"prepare", "recheck_condition", "commit", "asleep", "status"} =>
       wait[t].registered = Count(t)
  /\ Cleaning(t) => wait[t].next <= wait[t].registered + 1
  /\ BasePc(t) = "join" => wait[t].next <= wait[t].registered
  /\ \A i \in Indexes(t) : alive[Sem(t, i)]

PhaseOK(t) == wait[t].live => Phase(t)

\* The operands whose registration has begun, and those whose timepoints are
\* still the semaphores' business.
Begun(t) == wait[t].registered + (IF BasePc(t) = "registered" THEN 1 ELSE 0)
Active(t, i) == wait[t].live /\ i <= Begun(t) /\ (Cleaning(t) => i >= wait[t].next)

\* The thread runs the callback of the timepoint.
Calling(u, p) == stack[u] # <<>> /\ stack[u][1].pc \in CallbackPcs /\ stack[u][1].tp = p
Recording(u, p) == Calling(u, p) /\ stack[u][1].pc = "cb_failure"
Counting(u, p) == Calling(u, p) /\ stack[u][1].pc \in {"cb_failure", "cb_count"}

\* The timepoint of an operand says what the wait asked for; once answered it
\* says why, and the reason still holds.
Operates(t, i) ==
  LET p == Tp(t, i)
  IN  /\ tp[p].state # "idle" /\ tp[p].callback = "wait"
      /\ tp[p].sem = Sem(t, i) /\ tp[p].min = Value(t, i)
      /\ tp[p].state = "answered" =>
           IF tp[p].status = "ok" THEN timeline_value[Sem(t, i)] >= Value(t, i)
                                  ELSE failure_status[Sem(t, i)] = tp[p].status

OperandOK(t) == wait[t].live => \A i \in Indexes(t) : i <= Begun(t) => Operates(t, i)

\* Timepoints that are not active are with their owner.
QuietOK(t) == \A i \in Indexes(t) : ~Active(t, i) => tp[Tp(t, i)].state \in Ended

\* A timepoint under way that calls a wait back is active.
ActiveInv ==
  \A p \in Timepoints : tp[p].callback = "wait" /\ tp[p].state \notin Ended =>
    \E t \in Threads : \E i \in Indexes(t) : Active(t, i) /\ Tp(t, i) = p

\* A callback that runs is that of an active, answered timepoint; no other
\* thread runs it and it has not been completed.
CallbackInv ==
  \A u \in Threads : \A p \in Timepoints : Calling(u, p) =>
    /\ tp[p].state = "answered" /\ stack[u][1].status = tp[p].status
    /\ \A v \in Threads : Calling(v, p) => v = u
    /\ \E t \in Threads : \E i \in Indexes(t) :
         Active(t, i) /\ Tp(t, i) = p /\ p \notin wait[t].completed

\* Every running callback has a timepoint.
CallbackTyped ==
  \A u \in Threads : stack[u] # <<>> /\ stack[u][1].pc \in CallbackPcs =>
    stack[u][1].tp \in Timepoints

\* The callbacks that are over were of operands.
CompletedOK(t) ==
  wait[t].live => \A p \in wait[t].completed :
    tp[p].state = "answered" /\ \E i \in Indexes(t) : i <= Begun(t) /\ Tp(t, i) = p

\* remaining counts the operands that were not called back.
Counted(t) ==
  {i \in Indexes(t) : /\ i <= Begun(t) /\ tp[Tp(t, i)].state = "answered"
                      /\ \A u \in Threads : ~Counting(u, Tp(t, i))}

CountOK(t) == wait[t].live => wait[t].remaining = Count(t) - Cardinality(Counted(t))

\* failure is the failure of an operand, and is there when one was called back
\* with a failure.
Blamed(t, status) == \E i \in Indexes(t) : failure_status[Sem(t, i)] = status

FailureOK(t) ==
  wait[t].live =>
    /\ wait[t].failure # "ok" => Blamed(t, wait[t].failure)
    /\ \A i \in Indexes(t) :
         /\ i <= Begun(t) /\ tp[Tp(t, i)].state = "answered" /\ tp[Tp(t, i)].status # "ok"
         /\ wait[t].failure = "ok"
         => \E u \in Threads : Recording(u, Tp(t, i))

\* What the wait is about to return is so.
HasReached(t, i) == timeline_value[Sem(t, i)] >= Value(t, i)
Satisfied(t) == IF wait[t].mode = "all" THEN \A i \in Indexes(t) : HasReached(t, i)
                                        ELSE \E i \in Indexes(t) : HasReached(t, i)

Truthful(t, status) ==
  /\ status = "ok" => Satisfied(t)
  /\ status \in AllFailures => Blamed(t, status)

StatusOK(t) ==
  /\ wait[t].live /\ BasePc(t) = "status" => Condition(t)
  /\ wait[t].live /\ Cleaning(t) => Truthful(t, wait[t].status)
  /\ Truthful(t, wait[t].result)

\* A poll counts the operands it found reached.
PollOK(t) ==
  wait[t].live /\ Polling(t) =>
    /\ wait[t].reached < wait[t].next
    /\ wait[t].reached + 1 = wait[t].next =>
         \A i \in Indexes(t) : i < wait[t].next => HasReached(t, i)
    /\ wait[t].reached # 0 => \E i \in Indexes(t) : HasReached(t, i)
    /\ BasePc(t) = "poll_failure" /\ wait[t].polled => HasReached(t, wait[t].next)

\* What every wait is like.
WaitOK(t) ==
  /\ PhaseOK(t) /\ OperandOK(t) /\ QuietOK(t) /\ CompletedOK(t) /\ CountOK(t) /\ FailureOK(t)
  /\ StatusOK(t) /\ PollOK(t)

WInv ==
  /\ TypedWait /\ ScriptInv /\ BaseInv /\ ActiveInv /\ CallbackTyped /\ CallbackInv
  /\ \A t \in Threads : WaitOK(t)

\* Sizes, and every detached timepoint is on a list.
SizeInv ==
  /\ last_untainted_value \in [Semaphores -> Nat]
  /\ frontier \in [Semaphores -> [Axes -> Nat]]
  /\ capacity \in [Semaphores -> Nat \ {0}]
  /\ \A s \in Semaphores : /\ Cardinality(timepoints[s]) <= capacity[s]
                           /\ last_untainted_value[s] <= timeline_value[s]

ListInv ==
  \A p \in Timepoints : tp[p].state = "detached" =>
    \E t \in Threads : \E i \in 1..Len(stack[t]) : p \in stack[t][i].list

----------------------------------------------------------------------------
(* What the calls of the semaphores do, seen from the waits: a step of a   *)
(* thread that is not in a wait's own code.                                *)

Grows ==
  \A s \in Semaphores :
    /\ timeline_value'[s] >= timeline_value[s]
    /\ Failed(s) => failure_status'[s] = failure_status[s]

\* The thread starts the callback of an operand it has just answered.
Fresh(t) ==
  /\ stack'[t][1].pc = "cb_failure" /\ stack'[t][1].tp \in Timepoints
  /\ tp[stack'[t][1].tp].state = "detached" /\ tp[stack'[t][1].tp].callback = "wait"
  /\ tp'[stack'[t][1].tp].state = "answered"
  /\ stack'[t][1].status = tp'[stack'[t][1].tp].status

\* A timepoint moves on, and is called back if it was answered.
Moves(t, p) ==
  /\ tp[p].state \notin Ended
  /\ tp'[p].sem = tp[p].sem /\ tp'[p].min = tp[p].min /\ tp'[p].callback = tp[p].callback
  /\ tp'[p].state # "idle"
  /\ tp'[p].state = "answered" =>
       /\ tp[p].state = "detached" /\ tp[p].sem \in Semaphores /\ Reason(p, tp'[p].status)
       /\ tp[p].callback = "wait" => stack'[t] # <<>> /\ Fresh(t) /\ stack'[t][1].tp = p

\* The frames a step leaves on top are calls, or a callback it starts.
Frames(t, k) ==
  \A i \in 1..k : stack'[t][i].pc \in CallPcs \/ (i = 1 /\ Fresh(t))

\* No detached timepoint is dropped.
Lists(t, k) ==
  \A p \in Timepoints : tp'[p].state = "detached" =>
    \/ \E i \in 1..k : p \in stack'[t][i].list
    \/ tp[p].state = "detached" /\ (stack[t] # <<>> => p \notin stack[t][1].list)

Outside(t, k, d) ==
  /\ k \in 0..2 /\ d \in Int /\ Shape(t, k, d) /\ Grows /\ Frames(t, k) /\ Lists(t, k)
  /\ stack[t] # <<>> => stack[t][1].pc \in CallPcs

Moving(t) ==
  /\ \E k, d : Outside(t, k, d)
  /\ \A p \in Timepoints : tp'[p] = tp[p] \/ Moves(t, p)

LEMMA GrowsStill ==
  ASSUME Inv, UNCHANGED <<timeline_value, failure_status>> PROVE Grows
BY DEF Inv, Typed, Grows

\* The thread goes on with one frame, or returns.
LEMMA GoesOn ==
  ASSUME Inv, NEW t \in Threads, stack[t] # <<>>, Top(t).pc \in CallPcs, Grows,
         \/ Return(t) /\ \A p \in Timepoints : tp'[p].state = "detached" =>
              tp[p].state = "detached" /\ p \notin Top(t).list
         \/ \E f \in FrameSet :
              /\ Become(t, f) /\ f.pc \in CallPcs
              /\ \A p \in Timepoints : tp'[p].state = "detached" =>
                   p \in f.list \/ (tp[p].state = "detached" /\ p \notin Top(t).list)
  PROVE  \E k, d : Outside(t, k, d)
<1>1. stack \in [Threads -> Seq(FrameSet)] /\ Top(t) = stack[t][1]
  BY TopFacts DEF Inv, Typed
<1>2. CASE Return(t) /\ \A p \in Timepoints : tp'[p].state = "detached" =>
              tp[p].state = "detached" /\ p \notin Top(t).list
  <2>1. Shape(t, 0, 1)
    BY <1>1, <1>2, ReturnShape
  <2>2. Outside(t, 0, 1)
    BY <1>1, <1>2, <2>1 DEF Outside, Frames, Lists
  <2>. QED
    BY <2>2
<1>3. CASE \E f \in FrameSet :
              /\ Become(t, f) /\ f.pc \in CallPcs
              /\ \A p \in Timepoints : tp'[p].state = "detached" =>
                   p \in f.list \/ (tp[p].state = "detached" /\ p \notin Top(t).list)
  <2>1. PICK f \in FrameSet :
              /\ Become(t, f) /\ f.pc \in CallPcs
              /\ \A p \in Timepoints : tp'[p].state = "detached" =>
                   p \in f.list \/ (tp[p].state = "detached" /\ p \notin Top(t).list)
    BY <1>3
  <2>2. Shape(t, 1, 0) /\ stack'[t][1] = f
    BY <1>1, <2>1, BecomeShape
  <2>3. \A i \in 1..1 : i = 1
    OBVIOUS
  <2>4. Outside(t, 1, 0)
    BY <1>1, <2>1, <2>2, <2>3 DEF Outside, Frames, Lists
  <2>. QED
    BY <2>4
<1>. QED
  BY <1>2, <1>3

\* No timepoint is touched.
LEMMA QuietMoves ==
  ASSUME Inv, NEW t \in Threads, stack[t] # <<>>, Top(t).pc \in CallPcs, Top(t).list = {}, Grows,
         tp' = tp, Return(t) \/ \E f \in FrameSet : Become(t, f) /\ f.pc \in CallPcs
  PROVE  Moving(t)
<1>1. \E k, d : Outside(t, k, d)
  BY GoesOn
<1>. QED
  BY <1>1 DEF Moving

\* A move to another pc.
LEMMA GotoMoves ==
  ASSUME Inv, NEW t \in Threads, stack[t] # <<>>, Top(t).pc \in CallPcs, Top(t).list = {}, Grows,
         tp' = tp, NEW pc \in CallPcs, Goto(t, pc)
  PROVE  Moving(t)
<1>1. Top(t) \in FrameSet
  BY TopFacts DEF Inv
<1>2. PICK g : g = [Top(t) EXCEPT !.pc = pc]
  OBVIOUS
<1>3. g \in FrameSet /\ g.pc = pc
  BY <1>1, <1>2, GotoFrame
<1>4. Become(t, g)
  BY <1>2 DEF Goto
<1>. QED
  BY <1>3, <1>4, QuietMoves

\* A frame other than a dispatch has no list.
LEMMA NoList ==
  ASSUME Inv, NEW t \in Threads, stack[t] # <<>>, Top(t).pc \in CallPcs, Top(t).pc # "dispatch"
  PROVE  Top(t).list = {} /\ Top(t).sem \in Semaphores /\ Top(t) \in FrameSet /\ FrameOK(t, Top(t))
<1>1. FrameOK(t, Top(t)) /\ Top(t) \in FrameSet
  BY TopFacts DEF Inv
<1>. QED
  BY <1>1 DEF FrameOK

LEMMA ErrorMoves ==
  ASSUME Inv, NEW t \in Threads, stack[t] # <<>>, Top(t).pc \in CallPcs, Top(t).pc # "dispatch",
         Grows, tp' = tp, NEW status \in AllFailures, ReturnError(t, status)
  PROVE  Moving(t)
<1>1. Top(t).list = {} /\ Top(t).sem \in Semaphores
  BY NoList
<1>2. CASE Return(t)
  BY <1>1, <1>2, QuietMoves
<1>3. CASE Become(t, FailFrame(Top(t).sem, status))
  <2>1. PICK g : g = FailFrame(Top(t).sem, status)
    OBVIOUS
  <2>0. PICK s \in Semaphores : s = Top(t).sem
    BY <1>1
  <2>20. status \in Statuses
    BY DEF Statuses
  <2>2. g \in FrameSet /\ g.pc = "fail"
    BY <2>0, <2>1, <2>20, NewFailFrame
  <2>3. g.pc \in CallPcs
    BY <2>2 DEF CallPcs
  <2>. QED
    BY <1>1, <1>3, <2>1, <2>2, <2>3, QuietMoves
<1>. QED
  BY <1>2, <1>3 DEF ReturnError

\* The signals and failures, up to their critical sections.
LEMMA SignalMoves ==
  ASSUME Inv, NEW t \in Threads,
         \/ SignalCheck(t) \/ SignalCas(t) \/ SignalPast(t) \/ SignalMerge(t) \/ SignalMark(t)
         \/ FailCas(t) \/ MarkTainted(t) \/ MergeFrontier(t)
  PROVE  Moving(t)
<1>0. /\ stack[t] # <<>> /\ Top(t).pc \in CallPcs /\ Top(t).pc # "dispatch" /\ tp' = tp
  BY DEF SignalCheck, SignalCas, SignalPast, SignalMerge, SignalMark, FailCas, MarkTainted,
     MergeFrontier, At, CallPcs, SignalPcs, semVars
<1>1. /\ Top(t).list = {} /\ Top(t).sem \in Semaphores /\ Top(t) \in FrameSet
      /\ FrameOK(t, Top(t)) /\ Top(t).value \in Nat
  BY <1>0, NoList DEF FrameSet
<1>2. /\ timeline_value \in [Semaphores -> Nat] /\ failure_status \in [Semaphores -> Statuses]
  BY DEF Inv, Typed
<1>3. CASE SignalCheck(t)
  <2>0. UNCHANGED <<timeline_value, failure_status>>
    BY <1>3 DEF SignalCheck, semVars
  <2>1. Grows
    BY <2>0, GrowsStill
  <2>2. CASE Failed(Top(t).sem)
    <3>1. PICK status : status = failure_status[Top(t).sem]
      OBVIOUS
    <3>2. status \in AllFailures /\ ReturnError(t, status)
      BY <1>1, <1>2, <1>3, <2>2, <3>1 DEF SignalCheck, Failed, Statuses
    <3>. QED
      BY <1>0, <2>1, <3>2, ErrorMoves
  <2>3. CASE ~Failed(Top(t).sem)
    <3>1. PICK pc : pc = IF Top(t).pc = "check" THEN "cas" ELSE "merge"
      OBVIOUS
    <3>2. pc \in CallPcs /\ Goto(t, pc)
      BY <1>3, <2>3, <3>1 DEF SignalCheck, CallPcs, SignalPcs
    <3>. QED
      BY <1>0, <1>1, <2>1, <3>2, GotoMoves
  <2>. QED
    BY <2>2, <2>3
<1>4. CASE SignalCas(t)
  <2>0. /\ Top(t).value > timeline_value[Top(t).sem] /\ failure_status' = failure_status
        /\ timeline_value' = [timeline_value EXCEPT ![Top(t).sem] = Top(t).value]
    BY <1>4 DEF SignalCas, Passes
  <2>1. Grows
    BY <1>1, <1>2, <2>0 DEF Grows
  <2>2. \E pc \in CallPcs : Goto(t, pc)
    BY <1>4 DEF SignalCas, CallPcs, SignalPcs
  <2>. QED
    BY <1>0, <1>1, <2>1, <2>2, GotoMoves
<1>5. CASE SignalPast(t)
  <2>0. UNCHANGED <<timeline_value, failure_status>>
    BY <1>5 DEF SignalPast, semVars
  <2>1. Grows /\ InvalidArgument \in AllFailures
    BY <2>0, GrowsStill DEF AllFailures
  <2>. QED
    BY <1>0, <1>1, <1>5, <2>1, ErrorMoves, QuietMoves DEF SignalPast
<1>6. CASE SignalMerge(t) \/ SignalMark(t)
  <2>0. UNCHANGED <<timeline_value, failure_status>>
    BY <1>6 DEF SignalMerge, SignalMark
  <2>1. Grows
    BY <2>0, GrowsStill
  <2>2. \E pc \in CallPcs : Goto(t, pc)
    <3>1. "mark" \in CallPcs /\ "collect" \in CallPcs
      BY DEF CallPcs, SignalPcs
    <3>. QED
      BY <1>6, <3>1 DEF SignalMerge, SignalMark, AfterMerge
  <2>. QED
    BY <1>0, <1>1, <2>1, <2>2, GotoMoves
<1>7. CASE MarkTainted(t) \/ MergeFrontier(t)
  <2>0. UNCHANGED <<timeline_value, failure_status>> /\ Return(t)
    BY <1>7 DEF MarkTainted, MergeFrontier
  <2>1. Grows
    BY <2>0, GrowsStill
  <2>. QED
    BY <1>0, <1>1, <2>0, <2>1, QuietMoves
<1>8. CASE FailCas(t)
  <2>1. /\ IF ~Failed(Top(t).sem)
           THEN failure_status' = [failure_status EXCEPT ![Top(t).sem] = Top(t).status] /\ Goto(t, "flush")
           ELSE UNCHANGED failure_status /\ Return(t)
        /\ timeline_value' = timeline_value
    BY <1>8 DEF FailCas, FailWins
  <2>2. Grows
    BY <1>1, <1>2, <2>1 DEF Grows, Failed
  <2>3. "flush" \in CallPcs
    BY DEF CallPcs
  <2>. QED
    BY <1>0, <1>1, <2>1, <2>2, <2>3, GotoMoves, QuietMoves
<1>. QED
  BY <1>3, <1>4, <1>5, <1>6, <1>7, <1>8

\* Timepoints move to the list of the frame that will call them back.
LEMMA DetachMoves ==
  ASSUME Inv, NEW t \in Threads, stack[t] # <<>>, Top(t).pc \in CallPcs, Top(t).list = {},
         UNCHANGED <<timeline_value, failure_status>>,
         NEW list \in SUBSET Timepoints, Detach(list),
         \A p \in list : tp[p].state \notin Ended,
         NEW f \in FrameSet, Become(t, f), f.pc = "dispatch", f.list = list
  PROVE  Moving(t)
<1>1. tp \in [Timepoints -> TimepointSet] /\ Grows
  BY GrowsStill DEF Inv, Typed
<1>2. \A p \in Timepoints :
        /\ tp'[p].sem = tp[p].sem /\ tp'[p].min = tp[p].min
        /\ tp'[p].callback = tp[p].callback
        /\ p \in list => tp'[p].state = "detached"
        /\ p \notin list => tp'[p] = tp[p]
  BY <1>1, DetachFacts
<1>3. f.pc \in CallPcs
  BY DEF CallPcs
<1>4. \A p \in Timepoints : tp'[p].state = "detached" =>
        p \in f.list \/ (tp[p].state = "detached" /\ p \notin Top(t).list)
  BY <1>2
<1>5. \E k, d : Outside(t, k, d)
  BY <1>1, <1>3, <1>4, GoesOn
<1>6. \A p \in list : Moves(t, p)
  BY <1>2 DEF Moves
<1>. QED
  BY <1>2, <1>5, <1>6 DEF Moving

\* One timepoint enters the heap, or goes back to its owner.
LEMMA ReturnMoves ==
  ASSUME Inv, NEW t \in Threads, stack[t] # <<>>, Top(t).pc \in CallPcs, Top(t).list = {},
         UNCHANGED <<timeline_value, failure_status>>, Return(t),
         NEW p \in Timepoints, tp[p].state \notin Ended,
         NEW st \in {"pending", "withdrawn"}, tp' = [tp EXCEPT ![p].state = st]
  PROVE  Moving(t)
<1>1. tp \in [Timepoints -> TimepointSet] /\ Grows /\ st \in TimepointStates
  BY GrowsStill DEF Inv, Typed, TimepointStates, Ended
<1>2. /\ tp'[p].sem = tp[p].sem /\ tp'[p].min = tp[p].min /\ tp'[p].callback = tp[p].callback
      /\ tp'[p].state = st
      /\ \A r \in Timepoints : r # p => tp'[r] = tp[r]
  BY <1>1, MoveFacts
<1>3. \A r \in Timepoints : tp'[r].state = "detached" =>
        tp[r].state = "detached" /\ r \notin Top(t).list
  BY <1>2
<1>5. \E k, d : Outside(t, k, d)
  BY <1>1, <1>3, GoesOn
<1>6. Moves(t, p)
  BY <1>2 DEF Moves
<1>. QED
  BY <1>2, <1>5, <1>6 DEF Moving

LEMMA CollectMoves ==
  ASSUME Inv, NEW t \in Threads, Collect(t) \/ FailFlush(t) \/ Deinitialize(t)
  PROVE  Moving(t)
<1>0. /\ stack[t] # <<>> /\ Top(t).pc \in {"collect", "flush", "deinit"} /\ Top(t).pc \in CallPcs
      /\ UNCHANGED <<timeline_value, failure_status>>
  BY DEF Collect, FailFlush, Deinitialize, DetachAll, At, CallPcs, SignalPcs
<1>1. Top(t).list = {} /\ Top(t).sem \in Semaphores /\ Top(t) \in FrameSet
  BY <1>0, NoList
<1>2. PICK s \in Semaphores : s = Top(t).sem
  BY <1>1
<1>3. \E list \in SUBSET timepoints[s], status \in Statuses :
        Detach(list) /\ Become(t, DispatchFrame(s, list, status))
  <2>1. CASE Collect(t)
    <3>1. Due(s, Top(t).value) \in SUBSET timepoints[s] /\ "ok" \in Statuses
      BY DEF Due, Statuses
    <3>. QED
      BY <1>2, <2>1, <3>1 DEF Collect
  <2>2. CASE FailFlush(t)
    <3>1. Top(t).status \in Statuses /\ timepoints[s] \in SUBSET timepoints[s]
      BY <1>1 DEF FrameSet
    <3>. QED
      BY <1>2, <2>2, <3>1 DEF FailFlush, DetachAll
  <2>3. CASE Deinitialize(t)
    <3>1. "cancelled" \in Statuses /\ timepoints[s] \in SUBSET timepoints[s]
      BY DEF Statuses, AllFailures
    <3>. QED
      BY <1>2, <2>3, <3>1 DEF Deinitialize, DetachAll
  <2>. QED
    BY <2>1, <2>2, <2>3
<1>4. PICK list \in SUBSET timepoints[s], status \in Statuses :
        Detach(list) /\ Become(t, DispatchFrame(s, list, status))
  BY <1>3
<1>5. list \in SUBSET Timepoints /\ \A p \in list : tp[p].state \notin Ended
  BY DEF Inv, Typed, HeapInv, TimepointOK, Ended
<1>6. PICK g : g = DispatchFrame(s, list, status)
  OBVIOUS
<1>7. g \in FrameSet /\ g.pc = "dispatch" /\ g.list = list
  BY <1>5, <1>6, NewDispatchFrame
<1>. QED
  BY <1>0, <1>1, <1>4, <1>5, <1>6, <1>7, DetachMoves

LEMMA AnswerNowMoves ==
  ASSUME Inv, NEW t \in Threads, stack[t] # <<>>, Top(t).pc \in AcquirePcs,
         UNCHANGED <<timeline_value, failure_status>>,
         NEW status \in Statuses, AnswerNow(t, status)
  PROVE  Moving(t)
<1>0. Top(t).pc \in CallPcs /\ Top(t).pc # "dispatch"
  BY DEF CallPcs, AcquirePcs
<1>1. Top(t).list = {} /\ Top(t).sem \in Semaphores /\ Top(t) \in FrameSet /\ FrameOK(t, Top(t))
  BY <1>0, NoList
<1>2. PICK p \in Timepoints : p = Top(t).tp /\ tp[p].state = "acquiring"
  BY <1>1 DEF FrameOK
<1>3. PICK s \in Semaphores : s = Top(t).sem
  BY <1>1
<1>4. PICK h : h = DispatchFrame(s, {p}, status)
  OBVIOUS
<1>5. h \in FrameSet /\ h.pc = "dispatch" /\ h.list = {p}
  <2>1. {p} \in SUBSET Timepoints
    OBVIOUS
  <2>. QED
    BY <1>4, <2>1, NewDispatchFrame
<1>6. PICK g : g = [h EXCEPT !.tp = p]
  OBVIOUS
<1>7. g \in FrameSet /\ g.pc = "dispatch" /\ g.list = {p}
  BY <1>5, <1>6 DEF FrameSet
<1>8. Become(t, g) /\ Detach({p})
  BY <1>2, <1>3, <1>4, <1>6 DEF AnswerNow
<1>9. {p} \in SUBSET Timepoints /\ \A r \in {p} : tp[r].state \notin Ended
  BY <1>2 DEF Ended
<1>. QED
  BY <1>0, <1>1, <1>7, <1>8, <1>9, DetachMoves

LEMMA RefuseMoves ==
  ASSUME Inv, NEW t \in Threads, stack[t] # <<>>, Top(t).pc \in AcquirePcs,
         UNCHANGED <<timeline_value, failure_status>>,
         Refuse(t) \/ (Return(t) /\ tp' = [tp EXCEPT ![Top(t).tp].state = "pending"])
  PROVE  Moving(t)
<1>0. Top(t).pc \in CallPcs /\ Top(t).pc # "dispatch"
  BY DEF CallPcs, AcquirePcs
<1>1. Top(t).list = {} /\ FrameOK(t, Top(t))
  BY <1>0, NoList
<1>2. PICK p \in Timepoints : p = Top(t).tp /\ tp[p].state = "acquiring"
  BY <1>1 DEF FrameOK
<1>3. tp[p].state \notin Ended
  BY <1>2 DEF Ended
<1>. QED
  BY <1>0, <1>1, <1>2, <1>3, ReturnMoves DEF Refuse

\* The registrations.
LEMMA AcquireMoves ==
  ASSUME Inv, NEW t \in Threads,
         \/ AcquireFailure(t) \/ AcquireValue(t) \/ ResolveAllocate(t) \/ AcquireLock(t)
         \/ AcquireAnswered(t) \/ AcquireInsert(t)
  PROVE  Moving(t)
<1>0. /\ stack[t] # <<>> /\ Top(t).pc \in AcquirePcs /\ Top(t).pc \in CallPcs
      /\ UNCHANGED <<timeline_value, failure_status>> /\ Top(t).pc # "dispatch"
  BY DEF AcquireFailure, AcquireValue, ResolveAllocate, AcquireLock, AcquireAnswered,
     AcquireInsert, At, AcquirePcs, CallPcs, semVars
<1>1. Top(t).list = {} /\ Top(t).sem \in Semaphores /\ Grows
  BY <1>0, NoList, GrowsStill
<1>2. failure_status[Top(t).sem] \in Statuses /\ "ok" \in Statuses
  BY <1>1 DEF Inv, Typed, Statuses
<1>3. /\ {"resolve_value", "acquire_value", "resolve_alloc", "acquire_lock", "acquire_failure",
          "acquire_insert"} \subseteq CallPcs
  BY DEF CallPcs, AcquirePcs
<1>4. \/ \E status \in Statuses : AnswerNow(t, status)
      \/ tp' = tp /\ \E pc \in CallPcs : Goto(t, pc)
      \/ Refuse(t) \/ (Return(t) /\ tp' = [tp EXCEPT ![Top(t).tp].state = "pending"])
  <2>1. CASE AcquireFailure(t)
    BY <1>2, <1>3, <2>1 DEF AcquireFailure
  <2>2. CASE AcquireValue(t)
    BY <1>2, <1>3, <2>2 DEF AcquireValue
  <2>3. CASE ResolveAllocate(t)
    BY <1>3, <2>3 DEF ResolveAllocate
  <2>4. CASE AcquireLock(t)
    BY <1>2, <1>3, <2>4 DEF AcquireLock
  <2>5. CASE AcquireAnswered(t)
    BY <1>2, <2>5 DEF AcquireAnswered
  <2>6. CASE AcquireInsert(t)
    BY <2>6 DEF AcquireInsert
  <2>. QED
    BY <2>1, <2>2, <2>3, <2>4, <2>5, <2>6
<1>. QED
  BY <1>0, <1>1, <1>4, AnswerNowMoves, GotoMoves, RefuseMoves

LEMMA CancelMoves ==
  ASSUME Inv, NEW t \in Threads, Cancel(t) PROVE Moving(t)
<1>1. /\ stack[t] # <<>> /\ Top(t).pc = "cancel" /\ Top(t).pc \in CallPcs /\ Return(t)
      /\ tp' = [tp EXCEPT ![Top(t).tp].state = IF Cancellable(Top(t).tp) THEN "withdrawn" ELSE @]
      /\ UNCHANGED <<timeline_value, failure_status>>
  BY DEF Cancel, CancelTimepoint, At, CallPcs
<1>2. Top(t).list = {} /\ FrameOK(t, Top(t)) /\ Grows
  BY <1>1, NoList, GrowsStill
<1>3. PICK p \in Timepoints : p = Top(t).tp
  BY <1>1, <1>2 DEF FrameOK
<1>4. CASE tp[p].state = "pending"
  <2>1. tp[p].state \notin Ended /\ tp' = [tp EXCEPT ![p].state = "withdrawn"]
    BY <1>1, <1>3, <1>4 DEF Cancellable, Ended
  <2>. QED
    BY <1>1, <1>2, <2>1, ReturnMoves
<1>5. CASE tp[p].state # "pending"
  <2>1. tp' = tp
    BY <1>1, <1>3, <1>5 DEF Cancellable, Inv, Typed, TimepointSet
  <2>. QED
    BY <1>1, <1>2, <2>1, QuietMoves
<1>. QED
  BY <1>4, <1>5

\* What the callback of a wait's timepoint runs.
LEMMA WaitCallback ==
  ASSUME Typed, NEW p \in Timepoints, NEW status \in Statuses, tp[p].callback = "wait"
  PROVE  \E g \in FrameSet : /\ Callback(p, status) = <<g>> /\ g.pc = "cb_failure"
                             /\ g.tp = p /\ g.status = status /\ g.list = {}
<1>0. tp[p] \in TimepointSet
  BY DEF Typed
<1>1. PICK h : h = Frame("cb_failure", tp[p].sem)
  OBVIOUS
<1>2. PICK s \in Semaphores \cup {None} : s = tp[p].sem
  BY <1>0 DEF TimepointSet
<1>3. "cb_failure" \in CallPcs \cup WaitPcs
  BY DEF WaitPcs
<1>4. h \in FrameSet /\ h.pc = "cb_failure" /\ h.list = {}
  BY <1>1, <1>2, <1>3, NewFrame
<1>5. PICK g : g = [h EXCEPT !.tp = p, !.status = status]
  OBVIOUS
<1>6. g \in FrameSet /\ g.pc = "cb_failure" /\ g.list = {} /\ g.tp = p /\ g.status = status
  BY <1>4, <1>5 DEF FrameSet
<1>7. Callback(p, status) = <<g>>
  BY <1>1, <1>5 DEF Callback
<1>. QED
  BY <1>6, <1>7

LEMMA OtherCallback ==
  ASSUME Typed, HeapInv, NEW p \in Timepoints, NEW status \in Statuses, tp[p].state # "idle",
         tp[p].callback # "wait"
  PROVE  \/ Callback(p, status) = <<>>
         \/ \E g \in FrameSet : Callback(p, status) = <<g>> /\ g.pc \in CallPcs /\ g.list = {}
<1>1. CASE Callback(p, status) = <<>>
  BY <1>1
<1>2. CASE \E g \in FrameSet :
              /\ Callback(p, status) = <<g>> /\ g.list = {}
              /\ g.pc \in {"cas", "check", "fail", "cb_failure"}
  <2>1. PICK g \in FrameSet : /\ Callback(p, status) = <<g>> /\ g.list = {}
                              /\ g.pc \in {"cas", "check", "fail", "cb_failure"}
    BY <1>2
  <2>2. CASE g.pc \in {"cas", "check", "fail"}
    BY <2>1, <2>2 DEF CallPcs, SignalPcs
  <2>3. CASE g.pc = "cb_failure"
    <3>1. tp[p].callback = "link"
      BY <2>1, <2>3 DEF Typed, TimepointSet, Callback
    <3>2. PICK s \in Semaphores : s = tp[p].target
      BY <3>1 DEF HeapInv, TimepointOK
    <3>20. PICK v \in Nat : v = tp[p].targetValue
      BY DEF Typed, TimepointSet
    <3>3. CASE status = "ok"
      <4>1. PICK h : h = [SignalFrame("signal", s, v, NoFrontier) EXCEPT !.relay = TRUE]
        OBVIOUS
      <4>2. NoFrontier \in [Axes -> Nat]
        BY DEF NoFrontier
      <4>3. h \in FrameSet /\ h.pc \in {"cas", "check"}
        BY <4>1, <4>2, NewSignalFrame
      <4>4. Callback(p, status) = <<h>>
        BY <3>1, <3>2, <3>20, <3>3, <4>1 DEF Callback
      <4>. QED
        BY <2>1, <2>3, <4>3, <4>4
    <3>4. CASE status # "ok"
      <4>1. PICK h : h = FailFrame(s, status)
        OBVIOUS
      <4>2. h \in FrameSet /\ h.pc = "fail"
        BY <4>1, NewFailFrame
      <4>3. Callback(p, status) = <<h>>
        BY <3>1, <3>2, <3>4, <4>1 DEF Callback
      <4>. QED
        BY <2>1, <2>3, <4>2, <4>3
    <3>. QED
      BY <3>3, <3>4
  <2>. QED
    BY <2>1, <2>2, <2>3
<1>. QED
  BY <1>1, <1>2, CallbackFrame

LEMMA DispatchMoves ==
  ASSUME Inv, NEW t \in Threads, Dispatch(t) PROVE Moving(t)
<1>0. Typed /\ HeapInv /\ FrameInv
  BY DEF Inv
<1>1. /\ stack[t] # <<>> /\ Top(t).pc = "dispatch" /\ Top(t).pc \in CallPcs
      /\ UNCHANGED <<timeline_value, failure_status>>
  BY DEF Dispatch, At, semVars, CallPcs
<1>2. Top(t) \in FrameSet /\ FrameOK(t, Top(t)) /\ Top(t) = stack[t][1] /\ Grows
  BY <1>0, <1>1, TopFacts, GrowsStill
<1>3. PICK p \in Top(t).list :
        /\ Answer(p, [Top(t) EXCEPT !.list = @ \ {p}].status)
        /\ stack' = [stack EXCEPT ![t] = Callback(p, [Top(t) EXCEPT !.list = @ \ {p}].status)
                                         \o <<[Top(t) EXCEPT !.list = @ \ {p}]>> \o Tail(@)]
  BY DEF Dispatch
<1>4. PICK f : f = [Top(t) EXCEPT !.list = @ \ {p}]
  OBVIOUS
<1>40. PICK status : status = f.status
  OBVIOUS
<1>5. /\ f \in FrameSet /\ f.pc = "dispatch" /\ status = Top(t).status
      /\ f.list = Top(t).list \ {p} /\ status \in Statuses /\ f.pc \in CallPcs
  BY <1>1, <1>2, <1>4, <1>40 DEF FrameSet, CallPcs
<1>6. /\ p \in Timepoints /\ tp[p].state = "detached" /\ tp[p].sem \in Semaphores
      /\ Reason(p, status)
  BY <1>1, <1>2, <1>3, <1>5 DEF FrameOK, FrameSet
<1>7. tp \in [Timepoints -> TimepointSet] /\ stack \in [Threads -> Seq(FrameSet)]
  BY <1>0 DEF Typed
<1>8. /\ tp'[p].sem = tp[p].sem /\ tp'[p].min = tp[p].min
      /\ tp'[p].callback = tp[p].callback
      /\ tp'[p].state = "answered" /\ tp'[p].status = status
      /\ \A r \in Timepoints : r # p => tp'[r] = tp[r]
  BY <1>3, <1>4, <1>40, <1>5, <1>6, <1>7, AnswerFacts
<1>9. stack' = [stack EXCEPT ![t] = Callback(p, status) \o <<f>> \o Tail(@)]
  BY <1>3, <1>4, <1>40
<1>10. \A r \in Timepoints : tp'[r].state = "detached" =>
         r \in f.list \/ (tp[r].state = "detached" /\ r \notin Top(t).list)
  BY <1>5, <1>8
<1>11. tp[p].state \notin Ended /\ Reason(p, tp'[p].status)
  BY <1>6, <1>8 DEF Ended
<1>12. CASE Callback(p, status) = <<>>
  <2>1. Become(t, f)
    <3>1. <<>> \o <<f>> = <<f>>
      OBVIOUS
    <3>. QED
      BY <1>9, <1>12, <3>1 DEF Become
  <2>2. \E k, d : Outside(t, k, d)
    BY <1>1, <1>2, <1>5, <1>10, <2>1, GoesOn
  <2>3. tp[p].callback # "wait"
    <3>1. SUFFICES ASSUME tp[p].callback = "wait" PROVE FALSE
      OBVIOUS
    <3>2. PICK g \in FrameSet : Callback(p, status) = <<g>>
      BY <1>0, <1>5, <1>6, <3>1, WaitCallback
    <3>. QED
      BY <1>12, <3>2
  <2>4. Moves(t, p)
    BY <1>6, <1>8, <1>11, <2>3 DEF Moves
  <2>. QED
    BY <1>8, <2>2, <2>4 DEF Moving
<1>13. ASSUME NEW g \in FrameSet, Callback(p, status) = <<g>>, g.list = {},
              g.pc \in CallPcs \/ (g.pc = "cb_failure" /\ g.tp = p /\ g.status = status),
              tp[p].callback = "wait" <=> g.pc = "cb_failure"
       PROVE  Moving(t)
  <2>1. stack' = [stack EXCEPT ![t] = <<g>> \o (<<f>> \o Tail(@))]
    <3>1. <<g>> \o <<f>> \o Tail(stack[t]) = <<g>> \o (<<f>> \o Tail(stack[t]))
      <4>1. <<g>> \in Seq(FrameSet) /\ <<f>> \in Seq(FrameSet) /\ Tail(stack[t]) \in Seq(FrameSet)
        BY <1>1, <1>5, <1>7, HeadTailProperties
      <4>. QED
        BY <4>1, ConcatAssociative
    <3>. QED
      BY <1>9, <1>13, <3>1
  <2>2. Shape(t, 2, -1) /\ stack'[t][1] = g /\ stack'[t][2] = f
    <3>1. stack \in [Threads -> Seq(FrameSet)] /\ stack[t] # <<>> /\ f \in FrameSet
      BY <1>1, <1>5, <1>7
    <3>. QED
      BY <2>1, <3>1, PushShape, Zenon
  <2>3. g.pc = "cb_failure" => Fresh(t)
    <3>1. "cb_failure" \notin CallPcs
      BY DEF CallPcs, SignalPcs, AcquirePcs
    <3>. QED
      BY <1>6, <1>8, <1>13, <2>2, <3>1 DEF Fresh
  <2>4. Frames(t, 2)
    <3>1. \A i \in 1..2 : i = 1 \/ i = 2
      OBVIOUS
    <3>. QED
      BY <1>5, <1>13, <2>2, <2>3, <3>1 DEF Frames
  <2>5. Lists(t, 2)
    <3>1. 2 \in 1..2
      OBVIOUS
    <3>. QED
      BY <1>2, <1>10, <2>2, <3>1 DEF Lists
  <2>6. Outside(t, 2, -1)
    BY <1>1, <1>2, <2>2, <2>4, <2>5 DEF Outside
  <2>7. stack'[t] # <<>>
    <3>1. 2 <= Len(stack'[t])
      BY <2>2 DEF Shape
    <3>. QED
      BY <3>1
  <2>8. "cb_failure" \notin CallPcs
    BY DEF CallPcs, SignalPcs, AcquirePcs
  <2>9. Moves(t, p)
    BY <1>6, <1>8, <1>11, <1>13, <2>2, <2>3, <2>7, <2>8 DEF Moves
  <2>. QED
    BY <1>8, <2>6, <2>9 DEF Moving
<1>14. CASE tp[p].callback = "wait"
  <2>1. PICK g \in FrameSet : /\ Callback(p, status) = <<g>> /\ g.pc = "cb_failure"
                              /\ g.tp = p /\ g.status = status /\ g.list = {}
    BY <1>0, <1>5, <1>6, <1>14, WaitCallback
  <2>. QED
    BY <1>13, <1>14, <2>1
<1>15. CASE tp[p].callback # "wait"
  <2>1. CASE \E g \in FrameSet : Callback(p, status) = <<g>> /\ g.pc \in CallPcs /\ g.list = {}
    <3>1. PICK g \in FrameSet : Callback(p, status) = <<g>> /\ g.pc \in CallPcs /\ g.list = {}
      BY <2>1
    <3>2. g.pc # "cb_failure"
      BY <3>1 DEF CallPcs, SignalPcs, AcquirePcs
    <3>. QED
      BY <1>13, <1>15, <3>1, <3>2
  <2>2. Callback(p, status) = <<>> \/
        \E g \in FrameSet : Callback(p, status) = <<g>> /\ g.pc \in CallPcs /\ g.list = {}
    BY <1>0, <1>5, <1>6, <1>15, OtherCallback
  <2>. QED
    BY <1>12, <2>1, <2>2
<1>. QED
  BY <1>14, <1>15

LEMMA DispatchEndMoves ==
  ASSUME Inv, NEW t \in Threads, DispatchEnd(t) PROVE Moving(t)
<1>1. /\ stack[t] # <<>> /\ Top(t).pc \in CallPcs /\ Top(t).list = {} /\ tp' = tp /\ Return(t)
      /\ UNCHANGED <<timeline_value, failure_status>>
  BY DEF DispatchEnd, At, CallPcs, semVars
<1>. QED
  BY <1>1, GrowsStill, QuietMoves

\* Every step of a call.
LEMMA StepMoves ==
  ASSUME Inv, NEW t \in Threads, Step(t)
  PROVE  Moving(t) /\ UNCHANGED <<todo, alive>>
<1>1. UNCHANGED <<todo, alive>>
  BY DEF Step, SignalCheck, SignalCas, SignalPast, SignalMerge, SignalMark, Collect, FailCas,
     FailFlush, Deinitialize, DetachAll, Dispatch, DispatchEnd, AcquireFailure, AcquireValue,
     ResolveAllocate, AcquireLock, AcquireAnswered, AcquireInsert, Cancel, CancelTimepoint,
     MarkTainted, MergeFrontier, semVars
<1>. QED
  BY <1>1, SignalMoves, CollectMoves, DispatchMoves, DispatchEndMoves, AcquireMoves,
     CancelMoves DEF Step

----------------------------------------------------------------------------
(* Steps beside the waits: a call, or a step of one.                       *)

\* A timepoint that no wait has named is registered by its owner.
Foreign(p) ==
  /\ tp[p].state \in Ended /\ tp'[p].callback # "wait"
  /\ \A u \in Threads : \A i \in Indexes(u) : Tp(u, i) # p

Aside(t) ==
  /\ wait' = wait /\ Grows
  /\ \A u \in Threads : u # t => stack'[u] = stack[u]
  /\ \A u \in Threads : wait[u].live => stack'[u] # <<>> /\ BasePc(u)' = BasePc(u)
  /\ stack[t] # <<>> => stack[t][1].pc \notin CallbackPcs
  /\ stack'[t] # <<>> /\ stack'[t][1].pc \in CallbackPcs => Fresh(t)
  /\ \A p \in Timepoints : tp'[p] = tp[p] \/ Moves(t, p) \/ Foreign(p)
  /\ \A u \in Threads : wait[u].live => \A i \in Indexes(u) : alive'[Sem(u, i)]

LEMMA PcsApart ==
  /\ \A pc \in CallPcs : pc \notin BasePcs /\ pc \notin CallbackPcs
  /\ \A pc \in BasePcs : pc \notin CallPcs /\ pc \notin CallbackPcs
  /\ \A pc \in {"dispatch", "registered"} : pc \notin CallbackPcs
  /\ "dispatch" \in CallPcs /\ "cb_failure" \in CallbackPcs /\ "cb_failure" \notin BasePcs
BY DEF CallPcs, SignalPcs, AcquirePcs, BasePcs, WaitPcs, CallbackPcs

\* The outermost frame stays, at the end of the stack.
LEMMA BaseStays ==
  ASSUME stack \in [Threads -> Seq(FrameSet)], NEW t \in Threads, NEW k \in 0..2, NEW d \in Int,
         Shape(t, k, d), Len(stack[t]) >= 2
  PROVE  /\ Len(stack'[t]) = Len(stack[t]) - d /\ stack'[t] # <<>>
         /\ BasePc(t)' = BasePc(t)
<1>1. Len(stack[t]) \in Nat /\ Len(stack'[t]) \in Nat
  BY LenProperties DEF Shape
<1>2. PICK n : n = Len(stack[t])
  OBVIOUS
<1>3. PICK m : m = Len(stack'[t])
  OBVIOUS
<1>4. /\ n - d \in 1..m /\ n - d > k /\ stack'[t][n - d] = stack[t][n]
  BY <1>1, <1>2, <1>3 DEF Shape
<1>5. m > k => m + d \in 2..n
  BY <1>1, <1>2, <1>3 DEF Shape
<1>6. m = n - d
  BY <1>1, <1>2, <1>3, <1>4, <1>5
<1>7. stack'[t][m] = stack[t][n]
  BY <1>4, <1>6
<1>8. stack'[t] # <<>>
  BY <1>1, <1>3, <1>4
<1>. QED
  BY <1>2, <1>3, <1>6, <1>7, <1>8 DEF BasePc

\* BaseInv is kept by a step that puts no frame of a wait on a stack.
LEMMA BaseKept ==
  ASSUME Inv, BaseInv, NEW t \in Threads, NEW k \in 0..2, NEW d \in Int, Shape(t, k, d),
         \A i \in 1..k : stack'[t][i].pc \notin BasePcs,
         stack[t] # <<>> => stack[t][1].pc \notin BasePcs,
         \A u \in Threads : wait'[u].live = wait[u].live
  PROVE  /\ BaseInv'
         /\ \A u \in Threads : wait[u].live => stack'[u] # <<>> /\ BasePc(u)' = BasePc(u)
<1>0. /\ stack \in [Threads -> Seq(FrameSet)] /\ stack' \in [Threads -> Seq(FrameSet)]
      /\ \A u \in Threads : Len(stack[u]) \in Nat /\ Len(stack'[u]) \in Nat
  BY LenProperties DEF Inv, Typed, Shape
<1>1. ASSUME NEW u \in Threads, wait[u].live
      PROVE  stack'[u] # <<>> /\ BasePc(u)' = BasePc(u)
  <2>1. stack[u] # <<>> /\ BasePc(u) \in BasePcs
    BY <1>1 DEF BaseInv
  <2>2. CASE u # t
    <3>1. stack'[u] = stack[u]
      BY <2>2 DEF Shape
    <3>. QED
      BY <2>1, <3>1 DEF BasePc
  <2>3. CASE u = t
    <3>1. Len(stack[t]) >= 1
      BY <1>0, <2>1, <2>3, EmptySeq
    <3>2. Len(stack[t]) # 1
      BY <2>1, <2>3 DEF BasePc
    <3>3. Len(stack[t]) >= 2
      <4>1. PICK n \in Nat : n = Len(stack[t])
        BY <1>0
      <4>2. n >= 1 /\ n # 1
        BY <3>1, <3>2, <4>1
      <4>3. n >= 2
        BY <4>2
      <4>. QED
        BY <4>1, <4>3
    <3>. QED
      BY <1>0, <2>3, <3>3, BaseStays
  <2>. QED
    BY <2>2, <2>3
<1>2. ASSUME NEW u \in Threads, NEW i \in 1..Len(stack'[u]), stack'[u][i].pc \in BasePcs
      PROVE  i = Len(stack'[u]) /\ wait[u].live
  <2>1. CASE u # t
    <3>1. stack'[u] = stack[u]
      BY <2>1 DEF Shape
    <3>. QED
      BY <1>2, <3>1 DEF BaseInv
  <2>2. CASE u = t
    <3>1. i > k
      BY <1>0, <1>2, <2>2
    <3>2. i + d \in 2..Len(stack[t]) /\ stack'[t][i] = stack[t][i + d]
      BY <1>2, <2>2, <3>1 DEF Shape
    <3>3. i + d = Len(stack[t]) /\ wait[t].live
      BY <1>0, <1>2, <2>2, <3>2 DEF BaseInv
    <3>4. Len(stack[t]) >= 2
      BY <1>0, <3>2
    <3>5. Len(stack'[t]) = Len(stack[t]) - d
      BY <1>0, <3>4, BaseStays
    <3>. QED
      BY <1>0, <2>2, <3>3, <3>5
  <2>. QED
    BY <2>1, <2>2
<1>3. BaseInv'
  BY <1>1, <1>2 DEF BaseInv
<1>. QED
  BY <1>1, <1>3

\* A step that is outside the waits' code, and what it does to timepoints.
LEMMA OutsideAside ==
  ASSUME Inv, BaseInv, NEW t \in Threads, \E k, d : Outside(t, k, d), wait' = wait,
         \A p \in Timepoints : tp'[p] = tp[p] \/ Moves(t, p) \/ Foreign(p),
         \A u \in Threads : wait[u].live => \A i \in Indexes(u) : alive'[Sem(u, i)]
  PROVE  Aside(t) /\ BaseInv'
<1>1. PICK k, d : Outside(t, k, d)
  OBVIOUS
<1>2. /\ k \in 0..2 /\ d \in Int /\ Shape(t, k, d) /\ Grows /\ Frames(t, k)
      /\ stack[t] # <<>> => stack[t][1].pc \in CallPcs
  BY <1>1 DEF Outside
<1>3. \A i \in 1..k : stack'[t][i].pc \notin BasePcs
  BY <1>2, PcsApart DEF Frames, Fresh
<1>4. /\ BaseInv'
      /\ \A u \in Threads : wait[u].live => stack'[u] # <<>> /\ BasePc(u)' = BasePc(u)
  BY <1>2, <1>3, PcsApart, BaseKept
<1>5. ASSUME stack'[t] # <<>>, stack'[t][1].pc \in CallbackPcs PROVE Fresh(t)
  <2>0. Len(stack'[t]) \in Nat /\ Len(stack'[t]) >= 1
    BY <1>2, <1>5, EmptySeq, LenProperties DEF Shape
  <2>1. CASE k = 0
    <3>1. 1 + d \in 2..Len(stack[t]) /\ stack'[t][1] = stack[t][1 + d]
      BY <1>2, <2>0, <2>1 DEF Shape
    <3>2. stack[t][1 + d].pc \in {"dispatch", "registered"}
      <4>1. \A j \in 2..Len(stack[t]) : stack[t][j].pc \in {"dispatch", "registered"}
        BY DEF Inv, FrameInv
      <4>. QED
        BY <3>1, <4>1
    <3>. QED
      BY <1>5, <3>1, <3>2, PcsApart
  <2>2. CASE k # 0
    <3>1. 1 \in 1..k
      BY <1>2, <2>2
    <3>. QED
      BY <1>2, <1>5, <3>1, PcsApart DEF Frames
  <2>. QED
    BY <2>1, <2>2
<1>6. \A u \in Threads : u # t => stack'[u] = stack[u]
  BY <1>2 DEF Shape
<1>. QED
  BY <1>2, <1>4, <1>5, <1>6, PcsApart DEF Aside

----------------------------------------------------------------------------
(* What is known of a wait.                                                *)

LEMMA WaitFacts ==
  ASSUME TypedWait, NEW t \in Threads
  PROVE  /\ wait[t] \in WaitSet /\ wait[t].operands \in Seq(Operands)
         /\ Len(wait[t].operands) \in Nat /\ Count(t) = Len(wait[t].operands)
         /\ wait[t].next \in Nat /\ wait[t].next >= 1 /\ wait[t].registered \in Nat
         /\ Begun(t) \in Nat
         /\ \A i \in Indexes(t) :
              Sem(t, i) \in Semaphores /\ Value(t, i) \in Nat /\ Tp(t, i) \in Timepoints
<1>1. /\ wait[t] \in WaitSet /\ wait[t].operands \in Seq(Operands)
      /\ wait[t].next \in Nat \ {0} /\ wait[t].registered \in Nat
  BY DEF TypedWait, WaitSet
<1>2. Len(wait[t].operands) \in Nat
  BY <1>1, LenProperties
<1>3. \A i \in Indexes(t) : wait[t].operands[i] \in Operands
  BY <1>1, ElementOfSeq DEF Indexes
<1>. QED
  BY <1>1, <1>2, <1>3 DEF Count, Begun, Operands, Sem, Value, Tp

\* The calls of a thread, and the operands of its wait, are in the script.
LEMMA CallListed ==
  ASSUME NEW script \in Scripts, NEW t \in Threads, NEW c \in CallsOf(script, t), c.op = "wait"
  PROVE  /\ c.operands # <<>>
         /\ \A i, j \in 1..Len(c.operands) : c.operands[i].tp = c.operands[j].tp => i = j
         /\ \A u \in Threads : \A d \in CallsOf(script, u) :
              Registered(c) \cap Registered(d) # {} => u = t /\ d.op = "wait"
BY WaitAssumption

\* A timepoint is an operand of one wait, once.
LEMMA Owned ==
  ASSUME ScriptInv, NEW t \in Threads, NEW u \in Threads, NEW i \in Indexes(t), NEW j \in Indexes(u),
         Tp(t, i) = Tp(u, j)
  PROVE  t = u /\ i = j
<1>1. PICK script \in Scripts : Follows(script)
  BY DEF ScriptInv
<1>2. wait[t].operands # <<>> /\ wait[u].operands # <<>>
  BY DEF Indexes
<1>3. PICK c \in CallsOf(script, t) : c.op = "wait" /\ c.operands = wait[t].operands
  BY <1>1, <1>2 DEF Follows
<1>4. PICK e \in CallsOf(script, u) : e.op = "wait" /\ e.operands = wait[u].operands
  BY <1>1, <1>2 DEF Follows
<1>5. Tp(t, i) \in Registered(c) /\ Tp(t, i) \in Registered(e)
  BY <1>3, <1>4 DEF Registered, Indexes, Tp
<1>6. u = t
  BY <1>3, <1>5, CallListed
<1>7. c.operands[i].tp = c.operands[j].tp /\ i \in 1..Len(c.operands) /\ j \in 1..Len(c.operands)
  BY <1>3, <1>6 DEF Tp, Indexes
<1>. QED
  BY <1>3, <1>6, <1>7, CallListed

\* A registration does not touch a wait's timepoints, nor does another wait.
LEMMA CallsOwned ==
  ASSUME ScriptInv, Typed, NEW t \in Threads, todo[t] # <<>>, NEW c, c = Head(todo[t])
  PROVE  /\ c \in Calls
         /\ c.op \in {"acquire", "resolve", "link"} =>
              \A u \in Threads : \A i \in Indexes(u) : Tp(u, i) # c.tp
         /\ c.op = "wait" =>
              /\ c.operands # <<>>
              /\ \A i, j \in 1..Len(c.operands) : c.operands[i].tp = c.operands[j].tp => i = j
              /\ \A u \in Threads : \A i \in Indexes(u) : \A j \in 1..Len(c.operands) :
                   Tp(u, i) = c.operands[j].tp => u = t
<1>1. PICK script \in Scripts : Follows(script)
  BY DEF ScriptInv
<1>2. todo[t] \in Seq(Calls)
  BY DEF Typed
<1>3. 1 \in 1..Len(todo[t]) /\ c = todo[t][1] /\ c \in Calls
  BY <1>2, HeadTailProperties, EmptySeq, LenProperties
<1>4. c \in CallsOf(script, t)
  BY <1>1, <1>3 DEF Follows
<1>5. ASSUME NEW u \in Threads, NEW i \in Indexes(u)
      PROVE  \E e \in CallsOf(script, u) : e.op = "wait" /\ Tp(u, i) \in Registered(e)
  <2>1. wait[u].operands # <<>>
    BY DEF Indexes
  <2>2. PICK e \in CallsOf(script, u) : e.op = "wait" /\ e.operands = wait[u].operands
    BY <1>1, <2>1 DEF Follows
  <2>3. Tp(u, i) \in Registered(e)
    BY <2>2 DEF Registered, Indexes, Tp
  <2>. QED
    BY <2>2, <2>3
<1>6. ASSUME c.op \in {"acquire", "resolve", "link"}, NEW u \in Threads, NEW i \in Indexes(u)
      PROVE  Tp(u, i) # c.tp
  <2>1. PICK e \in CallsOf(script, u) : e.op = "wait" /\ Tp(u, i) \in Registered(e)
    BY <1>5
  <2>2. Registered(c) = {c.tp} /\ c.op # "wait"
    BY <1>6 DEF Registered
  <2>3. Registered(e) \cap Registered(c) # {} => c.op = "wait"
    BY <1>4, <2>1, CallListed
  <2>. QED
    BY <2>1, <2>2, <2>3
<1>7. ASSUME c.op = "wait", NEW u \in Threads, NEW i \in Indexes(u), NEW j \in 1..Len(c.operands),
             Tp(u, i) = c.operands[j].tp
      PROVE  u = t
  <2>1. PICK e \in CallsOf(script, u) : e.op = "wait" /\ Tp(u, i) \in Registered(e)
    BY <1>5
  <2>2. Tp(u, i) \in Registered(c)
    BY <1>7 DEF Registered
  <2>. QED
    BY <1>4, <1>7, <2>1, <2>2, CallListed
<1>8. c.op = "wait" =>
              /\ c.operands # <<>>
              /\ \A i, j \in 1..Len(c.operands) : c.operands[i].tp = c.operands[j].tp => i = j
  BY <1>4, CallListed
<1>. QED
  BY <1>3, <1>6, <1>7, <1>8

\* What a wait has learnt stays so.
LEMMA LearntStays ==
  ASSUME Inv, Inv', Grows, TypedWait, NEW u \in Threads,
         wait'[u].operands = wait[u].operands, wait'[u].mode = wait[u].mode
  PROVE  /\ \A i \in Indexes(u) : HasReached(u, i) => HasReached(u, i)'
         /\ \A status : status # "ok" /\ Blamed(u, status) => Blamed(u, status)'
         /\ \A status : Truthful(u, status) => Truthful(u, status)'
<1>1. /\ timeline_value \in [Semaphores -> Nat] /\ timeline_value' \in [Semaphores -> Nat]
      /\ failure_status \in [Semaphores -> Statuses]
  BY DEF Inv, Typed
<1>2. \A i \in Indexes(u) : Sem(u, i) \in Semaphores /\ Value(u, i) \in Nat
  BY WaitFacts
<1>3. Indexes(u)' = Indexes(u) /\ \A i : Sem(u, i)' = Sem(u, i) /\ Value(u, i)' = Value(u, i)
  BY DEF Indexes, Sem, Value
<1>4. ASSUME NEW i \in Indexes(u), HasReached(u, i) PROVE HasReached(u, i)'
  <2>1. PICK s \in Semaphores : s = Sem(u, i)
    BY <1>2
  <2>2. PICK v \in Nat : v = Value(u, i)
    BY <1>2
  <2>3. timeline_value'[s] >= timeline_value[s] /\ timeline_value[s] >= v
    BY <1>4, <2>1, <2>2 DEF Grows, HasReached
  <2>4. timeline_value'[s] >= v
    BY <1>1, <2>3
  <2>5. Sem(u, i)' = s /\ Value(u, i)' = v
    BY <1>3, <2>1, <2>2
  <2>. QED
    BY <2>4, <2>5 DEF HasReached
<1>5. ASSUME NEW status, status # "ok", Blamed(u, status) PROVE Blamed(u, status)'
  <2>1. PICK i \in Indexes(u) : failure_status[Sem(u, i)] = status
    BY <1>5 DEF Blamed
  <2>2. PICK s \in Semaphores : s = Sem(u, i)
    BY <1>2
  <2>3. failure_status'[s] = status
    BY <1>5, <2>1, <2>2 DEF Grows, Failed
  <2>4. Sem(u, i)' = s /\ i \in Indexes(u)'
    BY <1>3, <2>2
  <2>. QED
    BY <2>3, <2>4 DEF Blamed
<1>6. Satisfied(u) => Satisfied(u)'
  <2>1. CASE wait[u].mode = "all"
    BY <1>3, <1>4, <2>1 DEF Satisfied
  <2>2. CASE wait[u].mode # "all"
    BY <1>3, <1>4, <2>2 DEF Satisfied
  <2>. QED
    BY <2>1, <2>2
<1>7. "ok" \notin AllFailures
  BY SemaphoreAssumption
<1>8. \A status : Truthful(u, status) => Truthful(u, status)'
  BY <1>5, <1>6, <1>7 DEF Truthful
<1>. QED
  BY <1>4, <1>5, <1>8

----------------------------------------------------------------------------
(* A wait u beside which a step of t happens.                              *)

Beside(t, u) ==
  /\ wait'[u] = wait[u] /\ Grows
  /\ wait[u].live => BasePc(u)' = BasePc(u) /\ \A i \in Indexes(u) : alive'[Sem(u, i)]
  /\ \A i \in Indexes(u) : tp'[Tp(u, i)] = tp[Tp(u, i)] \/ Moves(t, Tp(u, i))
  /\ \A v \in Threads : \A i \in Indexes(u) :
       /\ Calling(v, Tp(u, i)) => stack'[v] # <<>> /\ stack'[v][1] = stack[v][1]
       /\ Calling(v, Tp(u, i))' =>
            \/ stack[v] # <<>> /\ stack'[v][1] = stack[v][1]
            \/ v = t /\ Fresh(t)

LEMMA SameWait ==
  ASSUME NEW u \in Threads, wait'[u] = wait[u], wait[u].live => BasePc(u)' = BasePc(u)
  PROVE  /\ Indexes(u)' = Indexes(u) /\ Count(u)' = Count(u)
         /\ \A i : Sem(u, i)' = Sem(u, i) /\ Value(u, i)' = Value(u, i) /\ Tp(u, i)' = Tp(u, i)
         /\ wait[u].live => /\ Begun(u)' = Begun(u) /\ Polling(u)' = Polling(u)
                            /\ Cleaning(u)' = Cleaning(u)
         /\ \A i : Active(u, i)' = Active(u, i)
         /\ Condition(u)' = Condition(u)
<1>1. /\ Indexes(u)' = Indexes(u) /\ Count(u)' = Count(u)
      /\ \A i : Sem(u, i)' = Sem(u, i) /\ Value(u, i)' = Value(u, i) /\ Tp(u, i)' = Tp(u, i)
  BY DEF Indexes, Count, Sem, Value, Tp
<1>2. wait[u].live => /\ Begun(u)' = Begun(u) /\ Polling(u)' = Polling(u)
                      /\ Cleaning(u)' = Cleaning(u)
  BY DEF Begun, Polling, Cleaning
<1>3. \A i : Active(u, i)' = Active(u, i)
  BY <1>2 DEF Active
<1>4. Condition(u)' = Condition(u)
  BY DEF Condition, Count
<1>. QED
  BY <1>1, <1>2, <1>3, <1>4

\* Who records, counts and calls back stays, but for a callback just started.
LEMMA BesideCallbacks ==
  ASSUME NEW t \in Threads, NEW u \in Threads, Beside(t, u), NEW i \in Indexes(u),
         NEW p, p = Tp(u, i), NEW v \in Threads
  PROVE  /\ Calling(v, p) => Calling(v, p)'
         /\ Recording(v, p) => Recording(v, p)'
         /\ Counting(v, p) => Counting(v, p)'
         /\ Counting(v, p)' => Counting(v, p) \/ (v = t /\ Fresh(t) /\ stack'[t][1].tp = p)
<1>1. Tp(u, i)' = p
  BY DEF Beside, Tp
<1>2. Calling(v, p)' => Calling(v, Tp(u, i))'
  BY <1>1 DEF Calling
<1>3. /\ Calling(v, p) => stack'[v] # <<>> /\ stack'[v][1] = stack[v][1]
      /\ Calling(v, p)' =>
            \/ stack[v] # <<>> /\ stack'[v][1] = stack[v][1]
            \/ v = t /\ Fresh(t)
  BY <1>2 DEF Beside
<1>. QED
  BY <1>3 DEF Calling, Recording, Counting

LEMMA BesideOperand ==
  ASSUME Inv, Inv', TypedWait, NEW t \in Threads, NEW u \in Threads, WaitOK(u), Beside(t, u)
  PROVE  PhaseOK(u)' /\ OperandOK(u)' /\ QuietOK(u)'
<1>0. /\ Indexes(u)' = Indexes(u) /\ Count(u)' = Count(u)
      /\ \A i : Sem(u, i)' = Sem(u, i) /\ Value(u, i)' = Value(u, i) /\ Tp(u, i)' = Tp(u, i)
      /\ wait[u].live => /\ Begun(u)' = Begun(u) /\ Polling(u)' = Polling(u)
                         /\ Cleaning(u)' = Cleaning(u)
      /\ \A i : Active(u, i)' = Active(u, i)
  BY SameWait DEF Beside
<1>1. PhaseOK(u)'
  <2>1. SUFFICES ASSUME wait[u].live PROVE Phase(u)'
    BY DEF PhaseOK, Beside
  <2>2. Phase(u)
    BY <2>1 DEF WaitOK, PhaseOK
  <2>. QED
    BY <1>0, <2>1, <2>2 DEF Phase, Beside
<1>2. QuietOK(u)'
  <2>1. SUFFICES ASSUME NEW i \in Indexes(u), ~Active(u, i) PROVE tp'[Tp(u, i)].state \in Ended
    BY <1>0 DEF QuietOK
  <2>2. tp[Tp(u, i)].state \in Ended
    BY <2>1 DEF WaitOK, QuietOK
  <2>. QED
    BY <2>2 DEF Beside, Moves
<1>3. OperandOK(u)'
  <2>1. SUFFICES ASSUME wait[u].live, NEW i \in Indexes(u), i <= Begun(u) PROVE Operates(u, i)'
    BY <1>0 DEF OperandOK, Beside
  <2>2. Operates(u, i) /\ alive[Sem(u, i)]
    BY <2>1 DEF WaitOK, OperandOK, PhaseOK, Phase
  <2>3. PICK p \in Timepoints : p = Tp(u, i)
    BY WaitFacts
  <2>4. PICK s \in Semaphores : s = Sem(u, i)
    BY WaitFacts
  <2>5. PICK w \in Nat : w = Value(u, i)
    BY WaitFacts
  <2>6. /\ tp[p].state # "idle" /\ tp[p].callback = "wait" /\ tp[p].sem = s /\ tp[p].min = w
        /\ tp[p].state = "answered" =>
             IF tp[p].status = "ok" THEN timeline_value[s] >= w ELSE failure_status[s] = tp[p].status
    BY <2>2, <2>3, <2>4, <2>5 DEF Operates
  <2>7. /\ timeline_value'[s] >= timeline_value[s] /\ timeline_value'[s] \in Nat
        /\ timeline_value[s] \in Nat /\ (Failed(s) => failure_status'[s] = failure_status[s])
    BY <2>4 DEF Beside, Grows, Inv, Typed
  <2>8. Tp(u, i)' = p /\ Sem(u, i)' = s /\ Value(u, i)' = w /\ (tp'[p] = tp[p] \/ Moves(t, p))
    BY <1>0, <2>3, <2>4, <2>5 DEF Beside
  <2>9. ASSUME NEW st, st = "ok" => timeline_value[s] >= w, st # "ok" => failure_status[s] = st
        PROVE  IF st = "ok" THEN timeline_value'[s] >= w ELSE failure_status'[s] = st
    BY <2>7, <2>9 DEF Failed
  <2>10. CASE tp'[p] = tp[p]
    <3>1. /\ tp'[p].state # "idle" /\ tp'[p].callback = "wait" /\ tp'[p].sem = s /\ tp'[p].min = w
          /\ tp'[p].state = "answered" =>
               IF tp'[p].status = "ok" THEN timeline_value'[s] >= w
                                       ELSE failure_status'[s] = tp'[p].status
      BY <2>6, <2>9, <2>10
    <3>. QED
      BY <1>0, <2>3, <2>4, <2>5, <3>1 DEF Operates
  <2>11. CASE Moves(t, p)
    <3>0. tp'[p].state = "answered" => Reason(p, tp'[p].status)
      BY <2>11 DEF Moves
    <3>1. alive[s]
      BY <2>2, <2>4
    <3>2. \A st : Reason(p, st) =>
             (st = "ok" => timeline_value[s] >= w) /\ (st # "ok" => failure_status[s] = st)
      BY <2>6, <3>1 DEF Reason
    <3>3. /\ tp'[p].state # "idle" /\ tp'[p].callback = "wait" /\ tp'[p].sem = s /\ tp'[p].min = w
          /\ tp'[p].state = "answered" =>
               IF tp'[p].status = "ok" THEN timeline_value'[s] >= w
                                       ELSE failure_status'[s] = tp'[p].status
      BY <2>6, <2>9, <2>11, <3>0, <3>2 DEF Moves
    <3>. QED
      BY <1>0, <2>3, <2>4, <2>5, <3>3 DEF Operates
  <2>. QED
    BY <2>3, <2>8, <2>10, <2>11 DEF Beside
<1>. QED
  BY <1>1, <1>2, <1>3

\* An operand that was answered stays so; one that is answered now is called
\* back by t.
LEMMA BesideAnswered ==
  ASSUME TypedWait, NEW t \in Threads, NEW u \in Threads, WaitOK(u), Beside(t, u), wait[u].live,
         NEW i \in Indexes(u), i <= Begun(u), NEW p, p = Tp(u, i)
  PROVE  /\ tp[p].state = "answered" => tp'[p] = tp[p]
         /\ tp[p].state # "answered" /\ tp'[p].state = "answered" =>
              Recording(t, p)' /\ Counting(t, p)'
<1>1. tp'[p] = tp[p] \/ Moves(t, p)
  BY DEF Beside
<1>2. tp[p].state = "answered" => tp'[p] = tp[p]
  BY <1>1 DEF Moves, Ended
<1>3. tp[p].callback = "wait"
  BY DEF WaitOK, OperandOK, Operates
<1>4. ASSUME tp[p].state # "answered", tp'[p].state = "answered"
      PROVE  Recording(t, p)' /\ Counting(t, p)'
  <2>1. stack'[t] # <<>> /\ Fresh(t) /\ stack'[t][1].tp = p
    BY <1>1, <1>3, <1>4 DEF Moves
  <2>. QED
    BY <2>1 DEF Fresh, Recording, Counting, Calling, CallbackPcs
<1>. QED
  BY <1>2, <1>4

LEMMA BesideCounts ==
  ASSUME TypedWait, NEW t \in Threads, NEW u \in Threads, WaitOK(u), Beside(t, u)
  PROVE  CompletedOK(u)' /\ CountOK(u)'
<1>0. /\ Indexes(u)' = Indexes(u) /\ Count(u)' = Count(u)
      /\ \A i : Tp(u, i)' = Tp(u, i)
      /\ wait[u].live => Begun(u)' = Begun(u)
      /\ wait'[u] = wait[u]
  BY SameWait DEF Beside
<1>1. CompletedOK(u)'
  <2>1. SUFFICES ASSUME wait[u].live, NEW p \in wait[u].completed
                 PROVE  tp'[p].state = "answered" /\ \E i \in Indexes(u) : i <= Begun(u) /\ Tp(u, i) = p
    BY <1>0 DEF CompletedOK
  <2>2. PICK i \in Indexes(u) : i <= Begun(u) /\ Tp(u, i) = p /\ tp[p].state = "answered"
    BY <2>1 DEF WaitOK, CompletedOK
  <2>. QED
    BY <2>1, <2>2, BesideAnswered
<1>2. CountOK(u)'
  <2>1. SUFFICES ASSUME wait[u].live PROVE Counted(u)' = Counted(u)
    BY <1>0 DEF CountOK, WaitOK
  <2>2. ASSUME NEW i \in Indexes(u), i <= Begun(u)
        PROVE  (tp[Tp(u, i)].state = "answered" /\ \A v \in Threads : ~Counting(v, Tp(u, i)))
               <=> (tp'[Tp(u, i)].state = "answered" /\ \A v \in Threads : ~Counting(v, Tp(u, i))')
    <3>1. PICK p : p = Tp(u, i)
      OBVIOUS
    <3>2. /\ tp[p].state = "answered" => tp'[p] = tp[p]
          /\ tp[p].state # "answered" /\ tp'[p].state = "answered" => Counting(t, p)'
      BY <2>1, <2>2, <3>1, BesideAnswered
    <3>3. ASSUME tp[p].state = "answered", NEW v \in Threads PROVE Counting(v, p)' <=> Counting(v, p)
      <4>1. /\ Counting(v, p) => Counting(v, p)'
            /\ Counting(v, p)' => Counting(v, p) \/ (v = t /\ Fresh(t) /\ stack'[t][1].tp = p)
        BY <3>1, BesideCallbacks
      <4>. QED
        BY <3>3, <4>1 DEF Fresh
    <3>4. \A v : Counting(v, Tp(u, i))' <=> Counting(v, p)'
      BY <1>0, <3>1 DEF Counting, Calling
    <3>. QED
      BY <3>1, <3>2, <3>3, <3>4
  <2>. QED
    BY <1>0, <2>1, <2>2 DEF Counted
<1>. QED
  BY <1>1, <1>2

LEMMA BesideStatus ==
  ASSUME Inv, Inv', TypedWait, NEW t \in Threads, NEW u \in Threads, WaitOK(u), Beside(t, u)
  PROVE  FailureOK(u)' /\ StatusOK(u)' /\ PollOK(u)'
<1>0. /\ Indexes(u)' = Indexes(u) /\ Count(u)' = Count(u)
      /\ \A i : Tp(u, i)' = Tp(u, i)
      /\ wait[u].live => Begun(u)' = Begun(u) /\ Polling(u)' = Polling(u) /\ Cleaning(u)' = Cleaning(u)
      /\ wait'[u] = wait[u] /\ Condition(u)' = Condition(u)
      /\ wait[u].live => BasePc(u)' = BasePc(u)
  BY SameWait DEF Beside
<1>1. /\ \A i \in Indexes(u) : HasReached(u, i) => HasReached(u, i)'
      /\ \A status : status # "ok" /\ Blamed(u, status) => Blamed(u, status)'
      /\ \A status : Truthful(u, status) => Truthful(u, status)'
  BY <1>0, LearntStays DEF Beside
<1>2. FailureOK(u)'
  <2>1. SUFFICES ASSUME wait[u].live PROVE FailureOK(u)'
    BY <1>0 DEF FailureOK
  <2>2. PICK e : e = wait[u].failure
    OBVIOUS
  <2>3. e # "ok" => Blamed(u, e)'
    BY <1>1, <2>1, <2>2 DEF WaitOK, FailureOK
  <2>4. ASSUME NEW i \in Indexes(u), i <= Begun(u), tp'[Tp(u, i)].state = "answered",
               tp'[Tp(u, i)].status # "ok", wait[u].failure = "ok"
        PROVE  \E v \in Threads : Recording(v, Tp(u, i))'
    <3>1. PICK p : p = Tp(u, i)
      OBVIOUS
    <3>2. /\ tp[p].state = "answered" => tp'[p] = tp[p]
          /\ tp[p].state # "answered" => Recording(t, p)'
      BY <2>1, <2>4, <3>1, BesideAnswered
    <3>3. CASE tp[p].state = "answered"
      <4>1. PICK v \in Threads : Recording(v, p)
        BY <2>1, <2>4, <3>1, <3>2, <3>3 DEF WaitOK, FailureOK
      <4>2. Recording(v, p)'
        BY <3>1, <4>1, BesideCallbacks
      <4>. QED
        BY <1>0, <3>1, <4>2 DEF Recording, Calling
    <3>4. CASE tp[p].state # "answered"
      BY <1>0, <3>1, <3>2, <3>4 DEF Recording, Calling
    <3>. QED
      BY <3>3, <3>4
  <2>5. Blamed(u, e)' => Blamed(u, wait[u].failure)'
    BY <1>0, <2>2 DEF Blamed
  <2>. QED
    BY <1>0, <2>2, <2>3, <2>4, <2>5 DEF FailureOK
<1>3. StatusOK(u)'
  <2>1. PICK st, r : st = wait[u].status /\ r = wait[u].result
    OBVIOUS
  <2>2. wait[u].live /\ Cleaning(u) => Truthful(u, st)'
    BY <1>1, <2>1 DEF WaitOK, StatusOK
  <2>3. Truthful(u, r)'
    BY <1>1, <2>1 DEF WaitOK, StatusOK
  <2>4. wait[u].live /\ BasePc(u) = "status" => Condition(u)'
    BY <1>0 DEF WaitOK, StatusOK
  <2>. QED
    BY <1>0, <2>1, <2>2, <2>3, <2>4 DEF StatusOK, Truthful
<1>4. PollOK(u)'
  <2>1. SUFFICES ASSUME wait[u].live, Polling(u) PROVE PollOK(u)'
    BY <1>0 DEF PollOK
  <2>2. /\ wait[u].reached < wait[u].next
        /\ wait[u].reached + 1 = wait[u].next =>
             \A i \in Indexes(u) : i < wait[u].next => HasReached(u, i)
        /\ wait[u].reached # 0 => \E i \in Indexes(u) : HasReached(u, i)
        /\ BasePc(u) = "poll_failure" /\ wait[u].polled => HasReached(u, wait[u].next)
    BY <2>1 DEF WaitOK, PollOK
  <2>3. BasePc(u) = "poll_failure" => wait[u].next \in Indexes(u)
    BY <2>1, WaitFacts DEF WaitOK, PhaseOK, Phase, Indexes
  <2>4. PICK n : n = wait[u].next
    OBVIOUS
  <2>5. BasePc(u) = "poll_failure" /\ wait[u].polled => HasReached(u, n)'
    BY <1>1, <2>2, <2>3, <2>4
  <2>. QED
    BY <1>0, <1>1, <2>1, <2>2, <2>4, <2>5 DEF PollOK, HasReached, Sem, Value
<1>. QED
  BY <1>2, <1>3, <1>4

LEMMA BesideKeeps ==
  ASSUME Inv, Inv', TypedWait, NEW t \in Threads, NEW u \in Threads, WaitOK(u), Beside(t, u)
  PROVE  WaitOK(u)'
BY BesideOperand, BesideCounts, BesideStatus DEF WaitOK

----------------------------------------------------------------------------
(* Calls and their steps keep what is known of the waits.                  *)

LEMMA AsideBeside ==
  ASSUME TypedWait, NEW t \in Threads, Aside(t), NEW u \in Threads
  PROVE  Beside(t, u)
<1>1. \A i \in Indexes(u) : Tp(u, i) \in Timepoints
  BY WaitFacts
<1>2. \A i \in Indexes(u) : tp'[Tp(u, i)] = tp[Tp(u, i)] \/ Moves(t, Tp(u, i))
  BY <1>1 DEF Aside, Foreign
<1>3. ASSUME NEW v \in Threads, NEW i \in Indexes(u)
      PROVE  /\ Calling(v, Tp(u, i)) => stack'[v] # <<>> /\ stack'[v][1] = stack[v][1]
             /\ Calling(v, Tp(u, i))' =>
                  \/ stack[v] # <<>> /\ stack'[v][1] = stack[v][1]
                  \/ v = t /\ Fresh(t)
  BY DEF Aside, Calling
<1>. QED
  BY <1>2, <1>3 DEF Aside, Beside

LEMMA AsideKeeps ==
  ASSUME Inv, Inv', WInv, NEW t \in Threads, Aside(t), BaseInv', ScriptInv'
  PROVE  WInv'
<1>0. TypedWait /\ ScriptInv /\ ActiveInv /\ CallbackTyped /\ CallbackInv
  BY DEF WInv
<1>1. \A u \in Threads : WaitOK(u)'
  BY <1>0, AsideBeside, BesideKeeps DEF WInv
<1>2. TypedWait'
  BY <1>0 DEF TypedWait, Aside
<1>3. \A u \in Threads : /\ Indexes(u)' = Indexes(u)
                         /\ \A i : Tp(u, i)' = Tp(u, i) /\ Active(u, i)' = Active(u, i)
  BY SameWait DEF Aside
<1>4. ActiveInv'
  <2>1. SUFFICES ASSUME NEW p \in Timepoints, tp'[p].callback = "wait", tp'[p].state \notin Ended
                 PROVE  \E u \in Threads : \E i \in Indexes(u)' : Active(u, i)' /\ Tp(u, i)' = p
    BY DEF ActiveInv
  <2>2. tp[p].callback = "wait" /\ tp[p].state \notin Ended
    BY <2>1 DEF Aside, Moves, Foreign
  <2>3. \E u \in Threads : \E i \in Indexes(u) : Active(u, i) /\ Tp(u, i) = p
    BY <1>0, <2>2 DEF ActiveInv
  <2>. QED
    BY <1>3, <2>3
<1>5. ASSUME NEW u \in Threads, stack'[u] # <<>>, stack'[u][1].pc \in CallbackPcs
      PROVE  \/ stack'[u] = stack[u]
             \/ u = t /\ Fresh(t)
  BY <1>5 DEF Aside
<1>6. CallbackTyped'
  <2>1. SUFFICES ASSUME NEW u \in Threads, stack'[u] # <<>>, stack'[u][1].pc \in CallbackPcs
                 PROVE  stack'[u][1].tp \in Timepoints
    BY DEF CallbackTyped
  <2>. QED
    BY <1>0, <1>5, <2>1 DEF CallbackTyped, Fresh
<1>7. ASSUME NEW u \in Threads, NEW p \in Timepoints, Calling(u, p)
      PROVE  /\ tp[p].state = "answered" /\ tp'[p] = tp[p] /\ stack[u][1].status = tp[p].status
             /\ \A v \in Threads : Calling(v, p) => v = u
             /\ stack'[u] = stack[u] /\ u # t
             /\ \E w \in Threads : \E i \in Indexes(w) :
                  Active(w, i) /\ Tp(w, i) = p /\ p \notin wait[w].completed
  <2>1. /\ tp[p].state = "answered" /\ stack[u][1].status = tp[p].status
        /\ \A v \in Threads : Calling(v, p) => v = u
        /\ \E w \in Threads : \E i \in Indexes(w) :
             Active(w, i) /\ Tp(w, i) = p /\ p \notin wait[w].completed
    BY <1>0, <1>7 DEF CallbackInv
  <2>2. tp'[p] = tp[p]
    BY <2>1 DEF Aside, Moves, Foreign, Ended
  <2>3. u # t
    BY <1>7 DEF Calling, Aside
  <2>. QED
    BY <2>1, <2>2, <2>3 DEF Aside
<1>8. CallbackInv'
  <2>1. SUFFICES ASSUME NEW u \in Threads, NEW p \in Timepoints, Calling(u, p)'
                 PROVE  /\ tp'[p].state = "answered" /\ stack'[u][1].status = tp'[p].status
                        /\ \A v \in Threads : Calling(v, p)' => v = u
                        /\ \E w \in Threads : \E i \in Indexes(w)' :
                             Active(w, i)' /\ Tp(w, i)' = p /\ p \notin wait'[w].completed
    BY DEF CallbackInv
  <2>2. \A v \in Threads : Calling(v, p)' => Calling(v, p) \/ (v = t /\ Fresh(t) /\ stack'[t][1].tp = p)
    BY <1>5 DEF Calling
  <2>3. wait' = wait
    BY DEF Aside
  <2>4. CASE Calling(u, p)
    <3>1. tp[p].state = "answered"
      BY <1>7, <2>4
    <3>2. \A v \in Threads : Calling(v, p)' => v = u
      BY <1>7, <2>2, <2>4, <3>1 DEF Fresh
    <3>3. \E w \in Threads : \E i \in Indexes(w)' :
                             Active(w, i)' /\ Tp(w, i)' = p /\ p \notin wait'[w].completed
      BY <1>3, <1>7, <2>3, <2>4
    <3>4. tp'[p].state = "answered" /\ stack'[u][1].status = tp'[p].status
      BY <1>7, <2>4
    <3>. QED
      BY <3>2, <3>3, <3>4
  <2>5. CASE ~Calling(u, p)
    <3>1. u = t /\ Fresh(t) /\ stack'[t][1].tp = p
      BY <2>1, <2>2, <2>5
    <3>2. /\ tp[p].state = "detached" /\ tp[p].callback = "wait" /\ tp'[p].state = "answered"
          /\ stack'[u][1].status = tp'[p].status
      BY <3>1 DEF Fresh
    <3>3. \A v \in Threads : Calling(v, p)' => v = u
      <4>1. \A v \in Threads : ~Calling(v, p)
        BY <1>7, <3>2
      <4>. QED
        BY <2>2, <3>1, <4>1
    <3>40. PICK w \in Threads : \E i \in Indexes(w) : Active(w, i) /\ Tp(w, i) = p
      BY <1>0, <3>2 DEF ActiveInv, Ended
    <3>4. PICK i \in Indexes(w) : Active(w, i) /\ Tp(w, i) = p
      BY <3>40
    <3>5. p \notin wait[w].completed
      BY <3>2, <3>4 DEF WInv, WaitOK, CompletedOK, Active
    <3>. QED
      BY <1>3, <2>3, <3>2, <3>3, <3>4, <3>5
  <2>. QED
    BY <2>4, <2>5
<1>. QED
  BY <1>1, <1>2, <1>4, <1>6, <1>8 DEF WInv

LEMMA StepKeepsWaits ==
  ASSUME Inv, WInv, NEW t \in Threads, Step(t), UNCHANGED wait
  PROVE  Inv' /\ WInv'
<1>1. Inv'
  BY StepKeeps
<1>2. Moving(t) /\ UNCHANGED <<todo, alive>>
  BY StepMoves
<1>3. Aside(t) /\ BaseInv'
  <2>1. \A u \in Threads : wait[u].live => \A i \in Indexes(u) : alive'[Sem(u, i)]
    BY <1>2 DEF WInv, WaitOK, PhaseOK, Phase
  <2>2. \A p \in Timepoints : tp'[p] = tp[p] \/ Moves(t, p) \/ Foreign(p)
    BY <1>2 DEF Moving
  <2>3. BaseInv /\ \E k, d : Outside(t, k, d)
    BY <1>2 DEF Moving, WInv
  <2>. QED
    BY <2>1, <2>2, <2>3, OutsideAside
<1>4. ScriptInv'
  BY <1>2 DEF WInv, ScriptInv, Follows
<1>. QED
  BY <1>1, <1>3, <1>4, AsideKeeps

\* The calls that are left are calls of the script.
LEMMA ScriptShrinks ==
  ASSUME Typed, ScriptInv, NEW t \in Threads, todo[t] # <<>>, NEW f, Begin(t, f),
         \A u \in Threads : wait'[u].operands = wait[u].operands
           \/ (u = t /\ Head(todo[t]).op = "wait" /\ wait'[t].operands = Head(todo[t]).operands)
  PROVE  ScriptInv'
<1>1. PICK script \in Scripts : Follows(script)
  BY DEF ScriptInv
<1>2. todo[t] \in Seq(Calls) /\ todo' = [todo EXCEPT ![t] = Tail(@)]
  BY DEF Typed, Begin
<1>3. /\ Len(todo[t]) \in Nat /\ Len(Tail(todo[t])) = Len(todo[t]) - 1
      /\ \A k \in 1..Len(Tail(todo[t])) : Tail(todo[t])[k] = todo[t][k + 1]
      /\ 1 \in 1..Len(todo[t]) /\ Head(todo[t]) = todo[t][1]
  BY <1>2, HeadTailProperties, EmptySeq, LenProperties
<1>4. ASSUME NEW u \in Threads
      PROVE  /\ \A k \in 1..Len(todo'[u]) : todo'[u][k] \in CallsOf(script, u)
             /\ wait'[u].operands = <<>> \/
                  \E c \in CallsOf(script, u) : c.op = "wait" /\ c.operands = wait'[u].operands
  <2>0. Head(todo[t]) \in CallsOf(script, t)
    BY <1>1, <1>3 DEF Follows
  <2>1. \A k \in 1..Len(todo'[u]) : todo'[u][k] \in CallsOf(script, u)
    <3>1. CASE u = t
      <4>1. todo'[t] = Tail(todo[t])
        BY <1>2 DEF Typed
      <4>. QED
        BY <1>1, <1>3, <3>1, <4>1 DEF Follows
    <3>2. CASE u # t
      BY <1>1, <1>2, <3>2 DEF Follows, Typed
    <3>. QED
      BY <3>1, <3>2
  <2>. QED
    BY <1>1, <2>0, <2>1 DEF Follows
<1>5. Follows(script)'
  BY <1>4 DEF Follows
<1>. QED
  BY <1>5 DEF ScriptInv

LEMMA CallBegins ==
  ASSUME Inv, Inv', NEW t \in Threads, Call(t)
  PROVE  \E f \in FrameSet : Begin(t, f) /\ f.pc \in CallPcs
<1>0. PICK c : c = Head(todo[t])
  OBVIOUS
<1>1. ASSUME NEW f, Begin(t, f), f.pc \in CallPcs PROVE \E g \in FrameSet : Begin(t, g) /\ g.pc \in CallPcs
  <2>1. stack'[t] = <<f>> /\ stack'[t] \in Seq(FrameSet)
    BY <1>1 DEF Begin, Inv, Typed
  <2>2. f \in FrameSet
    BY <2>1, ElementOfSeq
  <2>. QED
    BY <1>1, <2>2
<1>2. CASE CallSignal(t, c)
  <2>1. PICK f : f = SignalFrame(c.op, c.sem, c.value, c.frontier)
    OBVIOUS
  <2>2. f.pc \in CallPcs /\ Begin(t, f)
    BY <1>2, <2>1 DEF CallSignal, SignalFrame, Frame, CallPcs, SignalPcs
  <2>. QED
    BY <1>1, <2>2
<1>3. CASE CallFail(t, c)
  <2>1. PICK f : f = FailFrame(c.sem, c.status)
    OBVIOUS
  <2>2. f.pc \in CallPcs /\ Begin(t, f)
    BY <1>3, <2>1 DEF CallFail, FailFrame, Frame, CallPcs
  <2>. QED
    BY <1>1, <2>2
<1>4. CASE CallTaint(t, c)
  <2>1. PICK f : f = [Frame(c.op, c.sem) EXCEPT !.value = c.value, !.frontier = c.frontier]
    OBVIOUS
  <2>2. f.pc \in CallPcs /\ Begin(t, f)
    BY <1>4, <2>1 DEF CallTaint, Frame, CallPcs
  <2>. QED
    BY <1>1, <2>2
<1>5. CASE CallRelease(t, c)
  <2>1. PICK f : f = Frame("deinit", c.sem)
    OBVIOUS
  <2>2. f.pc \in CallPcs /\ Begin(t, f)
    BY <1>5, <2>1 DEF CallRelease, Frame, CallPcs
  <2>. QED
    BY <1>1, <2>2
<1>6. CASE CallAcquire(t, c)
  <2>1. PICK f : f = [Frame(IF c.op = "resolve" THEN "resolve_failure" ELSE "acquire_failure", c.sem)
                        EXCEPT !.tp = c.tp]
    OBVIOUS
  <2>2. f.pc \in CallPcs /\ Begin(t, f)
    BY <1>6, <2>1 DEF CallAcquire, Frame, CallPcs, AcquirePcs
  <2>. QED
    BY <1>1, <2>2
<1>7. CASE CallCancel(t, c)
  <2>1. PICK f : f = [Frame("cancel", tp[c.tp].sem) EXCEPT !.tp = c.tp]
    OBVIOUS
  <2>2. f.pc \in CallPcs /\ Begin(t, f)
    BY <1>7, <2>1 DEF CallCancel, Frame, CallPcs
  <2>. QED
    BY <1>1, <2>2
<1>. QED
  BY <1>0, <1>2, <1>3, <1>4, <1>5, <1>6, <1>7 DEF Call

\* A call registers at most a timepoint of its own.
LEMMA CallRegisters ==
  ASSUME Inv, ScriptInv, NEW t \in Threads, Call(t)
  PROVE  \A p \in Timepoints :
           tp'[p] = tp[p] \/ (Foreign(p) /\ tp'[p].state = "acquiring")
<1>0. PICK c : c = Head(todo[t])
  OBVIOUS
<1>1. c \in Calls /\ todo[t] # <<>> /\ tp \in [Timepoints -> TimepointSet]
  BY <1>0, CallsOwned DEF Call, Inv, Typed
<1>2. CASE ~CallAcquire(t, c)
  <2>1. tp' = tp
    BY <1>0, <1>2 DEF Call, CallSignal, CallFail, CallTaint, CallRelease, CallCancel, semVars
  <2>. QED
    BY <2>1
<1>3. CASE CallAcquire(t, c)
  <2>1. PICK q : q = Acquiring(c.sem, c.value)
    OBVIOUS
  <2>2. PICK r : r = [q EXCEPT !.callback = IF c.op = "link" THEN "link" ELSE "user",
                               !.target = c.target, !.targetValue = c.targetValue]
    OBVIOUS
  <2>3. /\ c.op \in {"acquire", "resolve", "link"} /\ tp[c.tp].state \in Ended
        /\ tp' = [tp EXCEPT ![c.tp] = r]
    BY <1>3, <2>1, <2>2 DEF CallAcquire
  <2>4. r.callback \in {"link", "user"} /\ r.state = "acquiring"
    BY <2>1, <2>2 DEF Acquiring, IdleTimepoint
  <2>5. c.tp \in Timepoints /\ \A u \in Threads : \A i \in Indexes(u) : Tp(u, i) # c.tp
    BY <1>0, <1>1, <2>3, CallsOwned, CallArguments DEF Inv
  <2>6. \A p \in Timepoints : p # c.tp => tp'[p] = tp[p]
    BY <1>1, <2>3
  <2>7. tp'[c.tp].callback # "wait" /\ tp'[c.tp].state = "acquiring"
    BY <1>1, <2>3, <2>4, <2>5
  <2>. QED
    BY <2>3, <2>5, <2>6, <2>7 DEF Foreign
<1>. QED
  BY <1>2, <1>3

LEMMA CallOutside ==
  ASSUME Inv, Inv', ScriptInv, NEW t \in Threads, Call(t)
  PROVE  Outside(t, 1, 0)
<1>0. stack[t] = <<>> /\ stack \in [Threads -> Seq(FrameSet)]
  BY DEF Call, Inv, Typed
<1>1. PICK f \in FrameSet : Begin(t, f) /\ f.pc \in CallPcs
  BY CallBegins
<1>2. Shape(t, 1, 0) /\ stack'[t][1] = f
  BY <1>0, <1>1, BeginShape
<1>3. UNCHANGED <<timeline_value, failure_status>>
  BY DEF Call, CallSignal, CallFail, CallTaint, CallRelease, CallAcquire, CallCancel, semVars
<1>4. Lists(t, 1)
  BY <1>0, CallRegisters DEF Lists
<1>5. Frames(t, 1)
  <2>1. \A i \in 1..1 : i = 1
    OBVIOUS
  <2>. QED
    BY <1>1, <1>2, <2>1 DEF Frames
<1>. QED
  BY <1>0, <1>2, <1>3, <1>4, <1>5, GrowsStill DEF Outside

LEMMA CallKeepsWaits ==
  ASSUME Inv, WInv, NEW t \in Threads, CallOther(t)
  PROVE  Inv' /\ WInv'
<1>0. Call(t) /\ wait' = wait /\ ScriptInv /\ BaseInv /\ TypedWait
  BY DEF CallOther, WInv
<1>1. Inv'
  BY <1>0, CallKeeps
<1>2. \E k, d : Outside(t, k, d)
  BY <1>0, <1>1, CallOutside
<1>3. \A p \in Timepoints : tp'[p] = tp[p] \/ Moves(t, p) \/ Foreign(p)
  BY <1>0, CallRegisters
<1>4. ASSUME NEW u \in Threads, wait[u].live, NEW i \in Indexes(u) PROVE alive'[Sem(u, i)]
  <2>1. alive[Sem(u, i)] /\ alive \in [Semaphores -> BOOLEAN] /\ Sem(u, i) \in Semaphores
    BY <1>0, <1>4, WaitFacts DEF WInv, WaitOK, PhaseOK, Phase, Inv, Typed
  <2>2. PICK c : c = Head(todo[t])
    OBVIOUS
  <2>3. CASE CallRelease(t, c)
    <3>1. ~WaitedOn(c.sem) /\ alive' = [alive EXCEPT ![c.sem] = FALSE]
      BY <2>2, <2>3 DEF CallOther, CallRelease
    <3>2. Sem(u, i) # c.sem
      BY <1>4, <3>1 DEF WaitedOn, Sem, Indexes, Count
    <3>. QED
      BY <2>1, <3>1, <3>2
  <2>4. CASE ~CallRelease(t, c)
    <3>1. alive' = alive
      BY <1>0, <2>2, <2>4
      DEF Call, CallSignal, CallFail, CallTaint, CallAcquire, CallCancel, semVars
    <3>. QED
      BY <2>1, <3>1
  <2>. QED
    BY <2>3, <2>4
<1>5. Aside(t) /\ BaseInv'
  BY <1>0, <1>2, <1>3, <1>4, OutsideAside
<1>6. PICK f \in FrameSet : Begin(t, f)
  BY <1>0, <1>1, CallBegins
<1>7. ScriptInv'
  BY <1>0, <1>6, ScriptShrinks DEF Call, Inv
<1>. QED
  BY <1>1, <1>5, <1>7, AsideKeeps

----------------------------------------------------------------------------
(* Steps of a wait's own code: the frame of the wait is the only one of its *)
(* thread.                                                                  *)

OwnStep(t) ==
  /\ wait[t].live /\ stack[t] # <<>> /\ stack[t][1].pc \in BasePcs
  /\ UNCHANGED <<timeline_value, failure_status, alive, todo>>
  /\ \A u \in Threads : u # t => stack'[u] = stack[u] /\ wait'[u] = wait[u]
  /\ \A p \in Timepoints : tp'[p] = tp[p] \/ (Moves(t, p) /\ tp'[p].state = "withdrawn")
  /\ TypedWait'
  /\ wait'[t].operands = wait[t].operands /\ wait'[t].mode = wait[t].mode
  /\ wait'[t].remaining = wait[t].remaining /\ wait'[t].failure = wait[t].failure
  /\ wait'[t].completed = wait[t].completed
  /\ \/ ~wait'[t].live /\ stack'[t] = <<>>
     \/ wait'[t].live /\ \E g \in FrameSet : stack'[t] = <<g>> /\ g.pc \in BasePcs

\* How far the step takes the wait: what it gives up is with its owner.
OwnProgress(t) ==
  /\ PhaseOK(t)' /\ StatusOK(t)' /\ PollOK(t)'
  /\ wait'[t].live => \A i \in Indexes(t) :
       /\ i <= Begun(t)' => i <= Begun(t)
       /\ i <= Begun(t) /\ ~(i <= Begun(t)') => tp[Tp(t, i)].state = "withdrawn"
  /\ \A i \in Indexes(t) :
       /\ Active(t, i)' => Active(t, i)
       /\ Active(t, i) /\ ~Active(t, i)' =>
            tp'[Tp(t, i)].state \in Ended /\ \A u \in Threads : ~Calling(u, Tp(t, i))

\* No callback moves.
LEMMA OwnCallbacks ==
  ASSUME NEW t \in Threads, OwnStep(t), NEW u \in Threads
  PROVE  /\ \A p : Calling(u, p) => u # t /\ stack'[u] = stack[u]
         /\ \A p : Calling(u, p)' => u # t /\ stack'[u] = stack[u]
<1>1. \A p : Calling(u, p) => u # t
  BY PcsApart DEF OwnStep, Calling
<1>2. \A p : Calling(u, p)' => u # t
  <2>1. CASE stack'[t] = <<>>
    BY <2>1 DEF Calling
  <2>2. CASE \E g \in FrameSet : stack'[t] = <<g>> /\ g.pc \in BasePcs
    BY <2>2, PcsApart DEF Calling
  <2>. QED
    BY <2>1, <2>2 DEF OwnStep
<1>. QED
  BY <1>1, <1>2 DEF OwnStep

LEMMA OwnBeside ==
  ASSUME Inv, TypedWait, NEW t \in Threads, OwnStep(t), NEW u \in Threads, u # t, WaitOK(u)
  PROVE  Beside(t, u)
<1>1. wait'[u] = wait[u] /\ BasePc(u)' = BasePc(u) /\ Grows
  BY GrowsStill DEF OwnStep, BasePc
<1>2. \A i \in Indexes(u) : tp'[Tp(u, i)] = tp[Tp(u, i)] \/ Moves(t, Tp(u, i))
  BY WaitFacts DEF OwnStep
<1>3. wait[u].live => \A i \in Indexes(u) : alive'[Sem(u, i)]
  BY DEF OwnStep, WaitOK, PhaseOK, Phase
<1>4. ASSUME NEW v \in Threads, NEW i \in Indexes(u)
      PROVE  /\ Calling(v, Tp(u, i)) => stack'[v] # <<>> /\ stack'[v][1] = stack[v][1]
             /\ Calling(v, Tp(u, i))' => stack[v] # <<>> /\ stack'[v][1] = stack[v][1]
  BY OwnCallbacks DEF Calling
<1>. QED
  BY <1>1, <1>2, <1>3, <1>4 DEF Beside

LEMMA OwnKeepsOwn ==
  ASSUME Inv, TypedWait, NEW t \in Threads, WaitOK(t), OwnStep(t), OwnProgress(t)
  PROVE  WaitOK(t)'
<1>0. /\ Indexes(t)' = Indexes(t) /\ Count(t)' = Count(t)
      /\ \A i : Sem(t, i)' = Sem(t, i) /\ Value(t, i)' = Value(t, i) /\ Tp(t, i)' = Tp(t, i)
  BY DEF OwnStep, Indexes, Count, Sem, Value, Tp
<1>1. \A i \in Indexes(t) : Tp(t, i) \in Timepoints
  BY WaitFacts
<1>2. ASSUME NEW i \in Indexes(t)
      PROVE  /\ tp[Tp(t, i)].state \in Ended => tp'[Tp(t, i)] = tp[Tp(t, i)]
             /\ tp'[Tp(t, i)].state = "answered" => tp'[Tp(t, i)] = tp[Tp(t, i)]
  BY <1>1 DEF OwnStep, Moves
<1>3. \A u \in Threads : \A i \in Indexes(t) :
        /\ Recording(u, Tp(t, i))' <=> Recording(u, Tp(t, i))
        /\ Counting(u, Tp(t, i))' <=> Counting(u, Tp(t, i))
  BY <1>0, OwnCallbacks DEF Calling, Recording, Counting
<1>4. OperandOK(t)'
  <2>1. SUFFICES ASSUME wait'[t].live, NEW i \in Indexes(t), i <= Begun(t)' PROVE Operates(t, i)'
    BY <1>0 DEF OperandOK
  <2>2. Operates(t, i)
    BY <2>1 DEF OwnStep, OwnProgress, WaitOK, OperandOK
  <2>3. PICK p \in Timepoints : p = Tp(t, i)
    BY <1>1
  <2>4. /\ tp'[p].state # "idle" /\ tp'[p].callback = tp[p].callback
        /\ tp'[p].sem = tp[p].sem /\ tp'[p].min = tp[p].min
        /\ tp'[p].state = "answered" => tp'[p] = tp[p]
    BY <2>2, <2>3 DEF Operates, OwnStep, Moves
  <2>. QED
    BY <1>0, <2>2, <2>3, <2>4 DEF Operates, OwnStep
<1>5. QuietOK(t)'
  <2>1. SUFFICES ASSUME NEW i \in Indexes(t), ~Active(t, i)' PROVE tp'[Tp(t, i)].state \in Ended
    BY <1>0 DEF QuietOK
  <2>2. CASE Active(t, i)
    BY <2>1, <2>2 DEF OwnProgress
  <2>3. CASE ~Active(t, i)
    <3>1. tp[Tp(t, i)].state \in Ended
      BY <2>3 DEF WaitOK, QuietOK
    <3>. QED
      BY <1>2, <3>1
  <2>. QED
    BY <2>2, <2>3
<1>6. CompletedOK(t)'
  <2>1. SUFFICES ASSUME wait'[t].live, NEW p \in wait[t].completed
                 PROVE  tp'[p].state = "answered" /\ \E i \in Indexes(t) : i <= Begun(t)' /\ Tp(t, i) = p
    BY <1>0 DEF CompletedOK, OwnStep
  <2>2. PICK i \in Indexes(t) : i <= Begun(t) /\ Tp(t, i) = p /\ tp[p].state = "answered"
    BY <2>1 DEF WaitOK, CompletedOK, OwnStep
  <2>3. tp'[p].state = "answered"
    BY <1>2, <2>2 DEF Ended
  <2>4. i <= Begun(t)'
    BY <2>1, <2>2 DEF OwnProgress
  <2>. QED
    BY <2>2, <2>3, <2>4
<1>7. CountOK(t)'
  <2>1. SUFFICES ASSUME wait'[t].live PROVE Counted(t)' = Counted(t)
    BY <1>0 DEF CountOK, WaitOK, OwnStep
  <2>2. ASSUME NEW i \in Indexes(t)
        PROVE  (i <= Begun(t)' /\ tp'[Tp(t, i)].state = "answered")
               <=> (i <= Begun(t) /\ tp[Tp(t, i)].state = "answered")
    BY <1>2, <2>1 DEF OwnProgress, Ended
  <2>. QED
    BY <1>0, <1>3, <2>2 DEF Counted
<1>8. FailureOK(t)'
  <2>1. SUFFICES ASSUME wait'[t].live PROVE FailureOK(t)'
    BY DEF FailureOK
  <2>2. wait[t].failure # "ok" => Blamed(t, wait[t].failure)'
    BY <1>0 DEF WaitOK, FailureOK, Blamed, OwnStep
  <2>3. ASSUME NEW i \in Indexes(t), i <= Begun(t)', tp'[Tp(t, i)].state = "answered",
               tp'[Tp(t, i)].status # "ok", wait[t].failure = "ok"
        PROVE  \E v \in Threads : Recording(v, Tp(t, i))'
    <3>1. i <= Begun(t) /\ tp[Tp(t, i)].state = "answered" /\ tp[Tp(t, i)].status # "ok"
      BY <1>2, <2>1, <2>3 DEF OwnProgress
    <3>. QED
      BY <1>3, <2>3, <3>1 DEF WaitOK, FailureOK, OwnStep
  <2>. QED
    BY <1>0, <2>2, <2>3 DEF FailureOK, OwnStep
<1>. QED
  BY <1>4, <1>5, <1>6, <1>7, <1>8 DEF WaitOK, OwnProgress

LEMMA OwnKeeps ==
  ASSUME Inv, Inv', WInv, NEW t \in Threads, OwnStep(t), OwnProgress(t)
  PROVE  WInv'
<1>0. TypedWait /\ ScriptInv /\ BaseInv /\ ActiveInv /\ CallbackTyped /\ CallbackInv
  BY DEF WInv
<1>1. \A u \in Threads : WaitOK(u)'
  <2>1. \A u \in Threads : WaitOK(u)
    BY DEF WInv
  <2>. QED
    BY <1>0, <2>1, OwnKeepsOwn, OwnBeside, BesideKeeps
<1>2. ScriptInv'
  <2>1. \A u \in Threads : wait'[u].operands = wait[u].operands
    BY DEF OwnStep
  <2>. QED
    BY <1>0, <2>1 DEF ScriptInv, Follows, OwnStep
<1>3. BaseInv'
  <2>1. SUFFICES ASSUME NEW u \in Threads
                 PROVE  /\ \A i \in 1..Len(stack'[u]) :
                             stack'[u][i].pc \in BasePcs => i = Len(stack'[u]) /\ wait'[u].live
                        /\ wait'[u].live => stack'[u] # <<>> /\ stack'[u][Len(stack'[u])].pc \in BasePcs
    BY DEF BaseInv, BasePc
  <2>2. CASE u # t
    BY <1>0, <2>2 DEF OwnStep, BaseInv, BasePc
  <2>3. CASE u = t /\ ~wait'[t].live /\ stack'[t] = <<>>
    BY <2>3
  <2>4. CASE u = t /\ wait'[t].live /\ \E g \in FrameSet : stack'[t] = <<g>> /\ g.pc \in BasePcs
    <3>1. PICK g \in FrameSet : stack'[t] = <<g>> /\ g.pc \in BasePcs
      BY <2>4
    <3>2. Len(stack'[t]) = 1 /\ stack'[t][1] = g /\ stack'[t] # <<>>
      BY <3>1
    <3>3. \A i \in 1..1 : i = 1
      OBVIOUS
    <3>. QED
      BY <2>4, <3>1, <3>2, <3>3
  <2>. QED
    BY <2>2, <2>3, <2>4 DEF OwnStep
<1>4. ASSUME NEW u \in Threads, NEW i \in Indexes(u), Active(u, i),
             u # t \/ Active(t, i)'
      PROVE  i \in Indexes(u)' /\ Active(u, i)' /\ Tp(u, i)' = Tp(u, i)
  BY <1>4 DEF OwnStep, Indexes, Active, Tp, Begun, BasePc, Cleaning
<1>5. ActiveInv'
  <2>1. SUFFICES ASSUME NEW p \in Timepoints, tp'[p].callback = "wait", tp'[p].state \notin Ended
                 PROVE  \E u \in Threads : \E i \in Indexes(u)' : Active(u, i)' /\ Tp(u, i)' = p
    BY DEF ActiveInv
  <2>2. tp[p].callback = "wait" /\ tp[p].state \notin Ended
    BY <2>1 DEF OwnStep, Ended
  <2>3. PICK u \in Threads : \E i \in Indexes(u) : Active(u, i) /\ Tp(u, i) = p
    BY <1>0, <2>2 DEF ActiveInv
  <2>4. PICK i \in Indexes(u) : Active(u, i) /\ Tp(u, i) = p
    BY <2>3
  <2>5. u # t \/ Active(t, i)'
    BY <2>1, <2>4 DEF OwnProgress
  <2>. QED
    BY <1>4, <2>4, <2>5
<1>6. CallbackTyped'
  <2>1. SUFFICES ASSUME NEW u \in Threads, stack'[u] # <<>>, stack'[u][1].pc \in CallbackPcs
                 PROVE  stack'[u][1].tp \in Timepoints
    BY DEF CallbackTyped
  <2>2. PICK p : p = stack'[u][1].tp
    OBVIOUS
  <2>3. Calling(u, p)'
    BY <2>1, <2>2 DEF Calling
  <2>. QED
    BY <1>0, <2>1, <2>3, OwnCallbacks DEF CallbackTyped
<1>7. CallbackInv'
  <2>1. SUFFICES ASSUME NEW u \in Threads, NEW p \in Timepoints, Calling(u, p)'
                 PROVE  /\ tp'[p].state = "answered" /\ stack'[u][1].status = tp'[p].status
                        /\ \A v \in Threads : Calling(v, p)' => v = u
                        /\ \E w \in Threads : \E i \in Indexes(w)' :
                             Active(w, i)' /\ Tp(w, i)' = p /\ p \notin wait'[w].completed
    BY DEF CallbackInv
  <2>2. \A v \in Threads : Calling(v, p)' => Calling(v, p) /\ stack'[v] = stack[v]
    BY OwnCallbacks DEF Calling
  <2>3. /\ tp[p].state = "answered" /\ stack[u][1].status = tp[p].status
        /\ \A v \in Threads : Calling(v, p) => v = u
    BY <1>0, <2>1, <2>2 DEF CallbackInv
  <2>4. PICK w \in Threads : \E i \in Indexes(w) :
           Active(w, i) /\ Tp(w, i) = p /\ p \notin wait[w].completed
    BY <1>0, <2>1, <2>2 DEF CallbackInv
  <2>5. PICK i \in Indexes(w) : Active(w, i) /\ Tp(w, i) = p /\ p \notin wait[w].completed
    BY <2>4
  <2>6. w # t \/ Active(t, i)'
    BY <2>1, <2>2, <2>5 DEF OwnProgress
  <2>7. i \in Indexes(w)' /\ Active(w, i)' /\ Tp(w, i)' = p
    BY <1>4, <2>5, <2>6
  <2>8. p \notin wait'[w].completed
    BY <2>5 DEF OwnStep
  <2>9. tp'[p] = tp[p]
    BY <2>3 DEF OwnStep, Moves, Ended
  <2>. QED
    BY <2>1, <2>2, <2>3, <2>7, <2>8, <2>9
<1>. QED
  BY <1>1, <1>2, <1>3, <1>5, <1>6, <1>7 DEF WInv, OwnStep

\* The frame of a wait that runs its own code is alone on its stack.
LEMMA OwnTop ==
  ASSUME Inv, WInv, NEW t \in Threads, NEW pc \in BasePcs, At(t, pc)
  PROVE  /\ wait[t].live /\ Phase(t) /\ stack[t] # <<>> /\ stack[t] = <<Top(t)>>
         /\ Top(t) \in FrameSet /\ Top(t).list = {} /\ Top(t) = stack[t][1]
         /\ Top(t).pc = pc /\ BasePc(t) = pc
<1>1. stack[t] # <<>> /\ Top(t).pc = pc
  BY DEF At
<1>2. /\ Top(t) = stack[t][1] /\ Top(t) \in FrameSet /\ 1 \in 1..Len(stack[t]) /\ FrameOK(t, Top(t))
  BY <1>1, TopFacts DEF Inv
<1>3. 1 = Len(stack[t]) /\ wait[t].live
  BY <1>1, <1>2 DEF WInv, BaseInv
<1>4. stack[t] \in Seq(FrameSet)
  BY DEF Inv, Typed
<1>5. stack[t] = <<stack[t][1]>>
  BY <1>3, <1>4
<1>6. Phase(t)
  BY <1>3 DEF WInv, WaitOK, PhaseOK
<1>7. Top(t).list = {}
  BY <1>1, <1>2, PcsApart DEF FrameOK
<1>8. BasePc(t) = pc
  BY <1>1, <1>2, <1>3 DEF BasePc
<1>. QED
  BY <1>1, <1>2, <1>3, <1>5, <1>6, <1>7, <1>8

LEMMA BasePcPlain ==
  \A pc \in BasePcs : /\ pc \notin AcquirePcs /\ pc \notin CallPcs /\ pc # "acquire_insert" /\ pc # "fail"
                      /\ pc \notin {"recheck", "merge", "mark", "collect", "flush", "deinit", "cancel"}
                      /\ pc \in CallPcs \cup WaitPcs
BY DEF BasePcs, WaitPcs, CallbackPcs, AcquirePcs, CallPcs, SignalPcs

\* The wait goes on with another step.
LEMMA OwnGoto ==
  ASSUME Inv, WInv, NEW t \in Threads, NEW pc \in BasePcs, At(t, pc), NEW to \in BasePcs, Goto(t, to)
  PROVE  /\ \A u \in Threads : u # t => stack'[u] = stack[u]
         /\ \E g \in FrameSet : stack'[t] = <<g>> /\ g.pc \in BasePcs
         /\ BasePc(t)' = to
         /\ Unmoved /\ todo' = todo => Inv'
<1>0. /\ stack[t] # <<>> /\ Top(t) \in FrameSet /\ Top(t).list = {} /\ stack[t] = <<Top(t)>>
      /\ Top(t).pc = pc
  BY OwnTop
<1>1. PICK g : g = [Top(t) EXCEPT !.pc = to]
  OBVIOUS
<1>2. to \in CallPcs \cup WaitPcs /\ pc \in CallPcs \cup WaitPcs
  BY BasePcPlain
<1>3. g \in FrameSet /\ g.pc = to /\ g.list = {}
  BY <1>0, <1>1, <1>2, GotoFrame
<1>4. Become(t, g)
  BY <1>1 DEF Goto
<1>5. stack \in [Threads -> Seq(FrameSet)]
  BY DEF Inv, Typed
<1>6. Tail(stack[t]) = <<>>
  BY <1>0
<1>7. stack'[t] = <<g>> /\ \A u \in Threads : u # t => stack'[u] = stack[u]
  <2>1. stack'[t] = <<g>> \o Tail(stack[t]) /\ \A u \in Threads : u # t => stack'[u] = stack[u]
    BY <1>4, <1>5 DEF Become
  <2>2. <<g>> \o <<>> = <<g>>
    BY <1>3
  <2>. QED
    BY <1>6, <2>1, <2>2
<1>8. BasePc(t)' = to
  <2>1. Len(stack'[t]) = 1 /\ stack'[t][1] = g
    BY <1>7
  <2>. QED
    BY <1>3, <2>1 DEF BasePc
<1>9. ASSUME Unmoved, todo' = todo PROVE Inv'
  <2>1. FrameOK(t, g) /\ Claim(g) = {} /\ g.pc # "acquire_insert"
    BY <1>3, BasePcPlain, PlainFrame
  <2>2. \A s, v : ~Collects(Top(t), s, v)
    BY <1>0, BasePcPlain DEF Collects
  <2>. QED
    BY <1>0, <1>3, <1>4, <1>9, <2>1, <2>2, QuietBecome
<1>. QED
  BY <1>3, <1>7, <1>8, <1>9

LEMMA OwnReturn ==
  ASSUME Inv, WInv, NEW t \in Threads, NEW pc \in BasePcs, At(t, pc), Return(t)
  PROVE  /\ \A u \in Threads : u # t => stack'[u] = stack[u]
         /\ stack'[t] = <<>>
         /\ Unmoved /\ todo' = todo => Inv'
<1>0. /\ stack[t] # <<>> /\ stack[t] = <<Top(t)>> /\ Top(t).pc = pc
  BY OwnTop
<1>1. stack \in [Threads -> Seq(FrameSet)] /\ Tail(stack[t]) = <<>>
  BY <1>0 DEF Inv, Typed
<1>2. stack'[t] = <<>> /\ \A u \in Threads : u # t => stack'[u] = stack[u]
  BY <1>1 DEF Return
<1>3. \A s, v : ~Collects(Top(t), s, v)
  BY <1>0, BasePcPlain DEF Collects
<1>4. Unmoved /\ todo' = todo => Inv'
  BY <1>0, <1>3, QuietReturn
<1>. QED
  BY <1>2, <1>4

\* What a wait that goes on leaves alone.
Keeps(t, w) ==
  /\ w \in WaitSet /\ w.operands = wait[t].operands /\ w.mode = wait[t].mode
  /\ w.remaining = wait[t].remaining /\ w.failure = wait[t].failure
  /\ w.completed = wait[t].completed

LEMMA OwnGo ==
  ASSUME Inv, WInv, NEW t \in Threads, NEW pc \in BasePcs, At(t, pc), NEW to \in BasePcs, Goto(t, to),
         UNCHANGED <<semVars, tp, todo>>, NEW w, Keeps(t, w), w.live, Set(t, w)
  PROVE  /\ Inv' /\ OwnStep(t) /\ wait'[t] = w /\ BasePc(t)' = to /\ BasePc(t) = pc
         /\ wait[t].live /\ Phase(t)
<1>1. wait' \in [Threads -> WaitSet] /\ wait'[t] = w /\ \A u \in Threads : u # t => wait'[u] = wait[u]
  BY DEF Set, WInv, TypedWait, Keeps
<1>2. Unmoved /\ todo' = todo
  BY DEF Unmoved, semVars
<1>3. /\ wait[t].live /\ Phase(t) /\ stack[t] # <<>> /\ stack[t][1].pc \in BasePcs /\ BasePc(t) = pc
  BY OwnTop
<1>4. /\ \A u \in Threads : u # t => stack'[u] = stack[u]
      /\ \E g \in FrameSet : stack'[t] = <<g>> /\ g.pc \in BasePcs
      /\ BasePc(t)' = to /\ Inv'
  BY <1>2, OwnGoto
<1>5. TypedWait'
  BY <1>1 DEF TypedWait
<1>6. OwnStep(t)
  BY <1>1, <1>2, <1>3, <1>4, <1>5 DEF OwnStep, Unmoved, Keeps
<1>. QED
  BY <1>1, <1>3, <1>4, <1>6

\* The wait returns: nothing is active any more, and what it returns is so.
LEMMA FinishKeeps ==
  ASSUME Inv, WInv, NEW t \in Threads, NEW pc \in BasePcs, At(t, pc),
         NEW status \in Statuses \cup {"deadline_exceeded", "resource_exhausted"}, Finish(t, status),
         UNCHANGED <<semVars, tp, todo>>, Truthful(t, status), \A i \in Indexes(t) : ~Active(t, i)
  PROVE  Inv' /\ WInv'
<1>0. TypedWait /\ wait[t] \in WaitSet
  BY WaitFacts DEF WInv
<1>1. PICK w : w = [wait[t] EXCEPT !.live = FALSE, !.result = status]
  OBVIOUS
<1>2. Keeps(t, w) /\ ~w.live /\ w.result = status
  BY <1>0, <1>1 DEF Keeps, WaitSet
<1>3. wait' \in [Threads -> WaitSet] /\ wait'[t] = w /\ \A u \in Threads : u # t => wait'[u] = wait[u]
  BY <1>0, <1>1, <1>2 DEF Finish, Set, TypedWait, Keeps
<1>4. Unmoved /\ todo' = todo
  BY DEF Unmoved, semVars
<1>5. /\ wait[t].live /\ stack[t] # <<>> /\ stack[t][1].pc \in BasePcs
  BY OwnTop
<1>6. /\ \A u \in Threads : u # t => stack'[u] = stack[u]
      /\ stack'[t] = <<>> /\ Inv'
  BY <1>4, OwnReturn DEF Finish
<1>7. TypedWait'
  BY <1>3 DEF TypedWait
<1>8. OwnStep(t)
  BY <1>2, <1>3, <1>4, <1>5, <1>6, <1>7 DEF OwnStep, Unmoved, Keeps
<1>9. Truthful(t, status)' /\ wait'[t].result = status
  BY <1>2, <1>3, <1>4
  DEF Truthful, Satisfied, Blamed, HasReached, Indexes, Sem, Value, Unmoved, Keeps
<1>10. OwnProgress(t)
  <2>1. PhaseOK(t)' /\ PollOK(t)'
    BY <1>2, <1>3 DEF PhaseOK, PollOK
  <2>2. StatusOK(t)'
    BY <1>2, <1>3, <1>9 DEF StatusOK, Truthful
  <2>3. \A i \in Indexes(t) : ~Active(t, i)'
    BY <1>2, <1>3 DEF Active
  <2>. QED
    BY <1>2, <1>3, <2>1, <2>2, <2>3 DEF OwnProgress
<1>. QED
  BY <1>6, <1>8, <1>10, OwnKeeps

LEMMA NotesTyped ==
  ASSUME NEW n \in NoteSet, NEW t \in Threads, NEW k
  PROVE  /\ prepare_wait(n) \in NoteSet /\ cancel_wait(n) \in NoteSet /\ post(n) \in NoteSet
         /\ futex_wait(n, t, k) \in NoteSet /\ futex_wake(n) \in NoteSet
         /\ [n EXCEPT !.asleep = {}] \in NoteSet /\ n.epoch \in Nat
<1>1. n.epoch \in Nat /\ n.waiters \in Int /\ n.asleep \in SUBSET Threads
  BY DEF NoteSet
<1>2. n.waiters + 1 \in Int /\ n.waiters - 1 \in Int /\ n.epoch + 1 \in Nat
  BY <1>1
<1>3. n.asleep \cup {t} \in SUBSET Threads
  BY <1>1
<1>. QED
  BY <1>1, <1>2, <1>3 DEF NoteSet, prepare_wait, cancel_wait, post, futex_wait, futex_wake

\* Only the notification and the token change.
Sleeps(t, w) ==
  /\ Keeps(t, w) /\ w.live = wait[t].live /\ w.next = wait[t].next
  /\ w.registered = wait[t].registered /\ w.result = wait[t].result

LEMMA SetStill ==
  ASSUME TypedWait, NEW t \in Threads, wait' = wait
  PROVE  Set(t, wait[t]) /\ Sleeps(t, wait[t])
BY DEF TypedWait, Set, Sleeps, Keeps

LEMMA NothingReturned ==
  /\ None # "ok" /\ None \notin AllFailures
  /\ \A st \in {"deadline_exceeded", "resource_exhausted"} : st # "ok" /\ st \notin AllFailures
BY WaitAssumption DEF None

\* The wait's operands, and what it learnt of them, as they were.
LEMMA OwnOperands ==
  ASSUME NEW t \in Threads, OwnStep(t)
  PROVE  /\ Indexes(t)' = Indexes(t) /\ Count(t)' = Count(t)
         /\ \A i : Sem(t, i)' = Sem(t, i) /\ Value(t, i)' = Value(t, i) /\ Tp(t, i)' = Tp(t, i)
         /\ \A i : HasReached(t, i)' <=> HasReached(t, i)
         /\ \A status : Truthful(t, status)' <=> Truthful(t, status)
         /\ Condition(t)' <=> Condition(t)
<1>1. /\ Indexes(t)' = Indexes(t) /\ Count(t)' = Count(t)
      /\ \A i : Sem(t, i)' = Sem(t, i) /\ Value(t, i)' = Value(t, i) /\ Tp(t, i)' = Tp(t, i)
  BY DEF OwnStep, Indexes, Count, Sem, Value, Tp
<1>2. \A i : HasReached(t, i)' <=> HasReached(t, i)
  BY <1>1 DEF HasReached, OwnStep
<1>3. \A status : Truthful(t, status)' <=> Truthful(t, status)
  BY <1>1, <1>2 DEF Truthful, Satisfied, Blamed, OwnStep
<1>4. Condition(t)' <=> Condition(t)
  BY DEF Condition, Count, OwnStep
<1>. QED
  BY <1>1, <1>2, <1>3, <1>4

\* The blocking loop: everything is registered.
LEMMA LoopKeeps ==
  ASSUME Inv, WInv, NEW t \in Threads, NEW pc, At(t, pc),
         pc \in {"prepare", "recheck_condition", "commit", "asleep"} \/ (pc = "register" /\ AtEnd(t)),
         NEW to \in {"prepare", "recheck_condition", "commit", "asleep", "status"}, Goto(t, to),
         UNCHANGED <<semVars, tp, todo>>, NEW w, Sleeps(t, w), Set(t, w),
         to = "status" => Condition(t)
  PROVE  Inv' /\ WInv'
<1>0. pc \in BasePcs /\ to \in BasePcs
  BY DEF BasePcs, WaitPcs, CallbackPcs
<1>1. w.live
  BY <1>0, OwnTop DEF Sleeps
<1>2. /\ Inv' /\ OwnStep(t) /\ wait'[t] = w /\ BasePc(t)' = to /\ BasePc(t) = pc
      /\ wait[t].live /\ Phase(t)
  BY <1>0, <1>1, OwnGo DEF Sleeps
<1>3. /\ Count(t) \in Nat /\ wait[t].registered \in Nat /\ wait[t].next \in Nat
  BY WaitFacts DEF WInv
<1>4. wait[t].registered = Count(t)
  BY <1>2, <1>3 DEF Phase, AtEnd
<1>5. Begun(t) = wait[t].registered /\ Begun(t)' = wait[t].registered
  BY <1>2, <1>3 DEF Begun, Sleeps
<1>6. \A i : Active(t, i)' <=> Active(t, i)
  BY <1>1, <1>2, <1>5 DEF Active, Cleaning
<1>7. /\ Indexes(t)' = Indexes(t) /\ Count(t)' = Count(t) /\ \A i : Sem(t, i)' = Sem(t, i)
      /\ Condition(t)' <=> Condition(t)
  BY <1>2, OwnOperands
<1>8. Phase(t)'
  BY <1>2, <1>3, <1>4, <1>7 DEF Phase, Polling, Cleaning, Sleeps, Keeps, OwnStep
<1>9. StatusOK(t)'
  <2>1. wait'[t].result = None
    BY <1>2 DEF Sleeps, Phase
  <2>2. Truthful(t, wait[t].result)'
    BY <2>1, NothingReturned DEF Truthful
  <2>. QED
    BY <1>2, <1>7, <2>2 DEF StatusOK, Cleaning, Truthful
<1>10. OwnProgress(t)
  <2>1. ~Polling(t)'
    BY <1>2 DEF Polling
  <2>. QED
    BY <1>5, <1>6, <1>8, <1>9, <2>1 DEF OwnProgress, PhaseOK, PollOK
<1>. QED
  BY <1>2, <1>10, OwnKeeps

LEMMA LoopStepsKeep ==
  ASSUME Inv, WInv, NEW t \in Threads,
         \/ WaitCheck(t) \/ WaitPrepare(t) \/ WaitRecheck(t) \/ WaitCommit(t) \/ WaitWoken(t)
         \/ WaitWokenSpuriously(t)
  PROVE  Inv' /\ WInv'
<1>0. /\ TypedWait /\ wait[t] \in WaitSet /\ wait[t].note \in NoteSet /\ wait[t].token \in Nat
      /\ wait[t].note.epoch \in Nat
  BY WaitFacts DEF WInv, WaitSet, NoteSet
<1>1. ASSUME NEW n \in NoteSet, NEW k \in Nat
      PROVE  /\ Sleeps(t, [wait[t] EXCEPT !.note = n])
             /\ Sleeps(t, [wait[t] EXCEPT !.token = k, !.note = n])
  BY <1>0 DEF Sleeps, Keeps, WaitSet
<1>2. CASE WaitCheck(t)
  <2>1. PICK to \in {"prepare", "status"} : to = IF Condition(t) THEN "status" ELSE "prepare"
    OBVIOUS
  <2>2. /\ At(t, "register") /\ AtEnd(t) /\ Goto(t, to) /\ UNCHANGED <<semVars, tp, todo>> /\ wait' = wait
        /\ to = "status" => Condition(t)
    BY <1>2, <2>1 DEF WaitCheck
  <2>. QED
    BY <1>0, <2>2, SetStill, LoopKeeps
<1>3. CASE WaitPrepare(t)
  <2>1. PICK w : w = [wait[t] EXCEPT !.token = wait[t].note.epoch, !.note = prepare_wait(@)]
    OBVIOUS
  <2>2. Sleeps(t, w)
    BY <1>0, <1>1, <2>1, NotesTyped
  <2>3. /\ At(t, "prepare") /\ Goto(t, "recheck_condition") /\ UNCHANGED <<semVars, tp, todo>> /\ Set(t, w)
    BY <1>3, <2>1 DEF WaitPrepare
  <2>. QED
    BY <2>2, <2>3, LoopKeeps
<1>4. CASE WaitRecheck(t)
  <2>1. PICK w : w = [wait[t] EXCEPT !.note = cancel_wait(@)]
    OBVIOUS
  <2>2. Sleeps(t, w)
    BY <1>0, <1>1, <2>1, NotesTyped
  <2>3. CASE Condition(t)
    <3>1. /\ At(t, "recheck_condition") /\ Goto(t, "status") /\ UNCHANGED <<semVars, tp, todo>> /\ Set(t, w)
      BY <1>4, <2>1, <2>3 DEF WaitRecheck, RecheckCondition
    <3>. QED
      BY <2>2, <2>3, <3>1, LoopKeeps
  <2>4. CASE ~Condition(t)
    <3>1. /\ At(t, "recheck_condition") /\ Goto(t, "commit") /\ UNCHANGED <<semVars, tp, todo>> /\ wait' = wait
      BY <1>4, <2>4 DEF WaitRecheck, RecheckCondition
    <3>. QED
      BY <1>0, <3>1, SetStill, LoopKeeps
  <2>. QED
    BY <2>3, <2>4
<1>5. CASE WaitCommit(t)
  <2>1. PICK w : w = [wait[t] EXCEPT !.note = cancel_wait(@)]
    OBVIOUS
  <2>2. PICK x : x = [wait[t] EXCEPT !.note = futex_wait(@, t, wait[t].token)]
    OBVIOUS
  <2>3. Sleeps(t, w) /\ Sleeps(t, x)
    BY <1>0, <1>1, <2>1, <2>2, NotesTyped
  <2>4. /\ At(t, "commit") /\ UNCHANGED <<semVars, tp, todo>>
        /\ (Goto(t, "prepare") /\ Set(t, w)) \/ (Goto(t, "asleep") /\ Set(t, x))
    BY <1>5, <2>1, <2>2 DEF WaitCommit
  <2>. QED
    BY <2>3, <2>4, LoopKeeps
<1>6. CASE WaitWoken(t)
  <2>1. /\ At(t, "asleep") /\ Goto(t, "commit") /\ UNCHANGED <<semVars, tp, todo>> /\ wait' = wait
    BY <1>6 DEF WaitWoken
  <2>. QED
    BY <1>0, <2>1, SetStill, LoopKeeps
<1>7. CASE WaitWokenSpuriously(t)
  <2>1. PICK w : w = [wait[t] EXCEPT !.note.asleep = {}]
    OBVIOUS
  <2>2. w = [wait[t] EXCEPT !.note = [wait[t].note EXCEPT !.asleep = {}]]
    BY <2>1
  <2>3. Sleeps(t, w)
    BY <1>0, <1>1, <2>2, NotesTyped
  <2>4. At(t, "asleep") /\ UNCHANGED <<semVars, tp, todo>> /\ Set(t, w) /\ stack' = stack
    BY <1>7, <2>1 DEF WaitWokenSpuriously
  <2>5. "asleep" \in BasePcs /\ stack \in [Threads -> Seq(FrameSet)]
    BY DEF BasePcs, WaitPcs, CallbackPcs, Inv, Typed
  <2>6. stack[t] = <<Top(t)>> /\ Top(t) \in FrameSet /\ Top(t).pc = "asleep"
    BY <2>4, <2>5, OwnTop
  <2>7. [Top(t) EXCEPT !.pc = "asleep"] = Top(t)
    BY <2>6 DEF FrameSet
  <2>8. <<Top(t)>> \o Tail(stack[t]) = stack[t]
    <3>1. Tail(stack[t]) = <<>>
      BY <2>6
    <3>2. <<Top(t)>> \o <<>> = <<Top(t)>>
      BY <2>6
    <3>. QED
      BY <2>6, <3>1, <3>2
  <2>9. Goto(t, "asleep")
    BY <2>4, <2>5, <2>7, <2>8 DEF Goto, Become
  <2>. QED
    BY <2>3, <2>4, <2>9, LoopKeeps
<1>. QED
  BY <1>2, <1>3, <1>4, <1>5, <1>6, <1>7

\* A timepoint that is not answered runs no callback.
LEMMA NotCalled ==
  ASSUME WInv, NEW p \in Timepoints, tp[p].state # "answered"
  PROVE  \A u \in Threads : ~Calling(u, p)
BY DEF WInv, CallbackInv

\* The wait starts to clean up.
LEMMA CleanKeeps ==
  ASSUME Inv, WInv, NEW t \in Threads, NEW pc \in {"registered", "asleep", "status"}, At(t, pc),
         Goto(t, "cleanup"), UNCHANGED <<semVars, tp, todo>>, NEW w, Keeps(t, w), Set(t, w),
         w.live, w.next = 1, w.registered = wait[t].registered, w.result = wait[t].result,
         Truthful(t, w.status),
         pc = "registered" => tp[Operand(t).tp].state = "withdrawn"
  PROVE  Inv' /\ WInv'
<1>0. pc \in BasePcs /\ "cleanup" \in BasePcs /\ TypedWait
  BY DEF BasePcs, WaitPcs, CallbackPcs, WInv
<1>2. /\ Inv' /\ OwnStep(t) /\ wait'[t] = w /\ BasePc(t)' = "cleanup" /\ BasePc(t) = pc
      /\ wait[t].live /\ Phase(t)
  BY <1>0, OwnGo
<1>3. /\ Count(t) \in Nat /\ wait[t].registered \in Nat /\ wait[t].next \in Nat
      /\ \A i \in Indexes(t) : Tp(t, i) \in Timepoints /\ i \in Nat /\ i >= 1
  BY <1>0, WaitFacts DEF Indexes
<1>5. /\ Begun(t) = wait[t].registered + (IF pc = "registered" THEN 1 ELSE 0)
      /\ Begun(t)' = wait[t].registered
  BY <1>2, <1>3 DEF Begun
<1>6. ASSUME NEW i \in Indexes(t), i <= Begun(t), ~(i <= Begun(t)')
      PROVE  tp[Tp(t, i)].state = "withdrawn"
  <2>1. pc = "registered" /\ i = wait[t].registered + 1
    BY <1>3, <1>5, <1>6
  <2>2. wait[t].next = i
    BY <1>2, <2>1 DEF Phase
  <2>. QED
    BY <2>1, <2>2 DEF Operand, Tp
<1>7. ASSUME NEW i \in Indexes(t) PROVE i <= Begun(t)' => i <= Begun(t)
  BY <1>3, <1>5
<1>8. ASSUME NEW i \in Indexes(t)
      PROVE  /\ Active(t, i) <=> i <= Begun(t)
             /\ Active(t, i)' <=> i <= Begun(t)'
  BY <1>2, <1>3 DEF Active, Cleaning
<1>9. ASSUME NEW i \in Indexes(t), Active(t, i), ~Active(t, i)'
      PROVE  tp'[Tp(t, i)].state \in Ended /\ \A u \in Threads : ~Calling(u, Tp(t, i))
  <2>1. tp[Tp(t, i)].state = "withdrawn" /\ tp' = tp
    BY <1>6, <1>8, <1>9
  <2>. QED
    BY <1>3, <2>1, NotCalled DEF Ended
<1>10. /\ Indexes(t)' = Indexes(t) /\ Count(t)' = Count(t) /\ \A i : Sem(t, i)' = Sem(t, i)
       /\ \A status : Truthful(t, status)' <=> Truthful(t, status)
  BY <1>2, OwnOperands
<1>11. Phase(t)'
  BY <1>2, <1>3, <1>10 DEF Phase, Polling, Cleaning, Keeps, OwnStep
<1>12. StatusOK(t)'
  <2>1. wait'[t].result = None
    BY <1>2 DEF Phase
  <2>2. Truthful(t, wait[t].result)'
    BY <2>1, NothingReturned DEF Truthful
  <2>3. Truthful(t, w.status)'
    BY <1>10
  <2>. QED
    BY <1>2, <2>2, <2>3 DEF StatusOK, Truthful
<1>13. OwnProgress(t)
  <2>1. ~Polling(t)'
    BY <1>2 DEF Polling
  <2>. QED
    BY <1>6, <1>7, <1>8, <1>9, <1>11, <1>12, <2>1 DEF OwnProgress, PhaseOK, PollOK
<1>. QED
  BY <1>2, <1>13, OwnKeeps

\* The condition holds and nothing failed: the operands have been reached.
LEMMA ConditionIsTrue ==
  ASSUME TypedWait, NEW t \in Threads, WaitOK(t), wait[t].live, Condition(t), wait[t].failure = "ok"
  PROVE  Satisfied(t)
<1>0. /\ Count(t) \in Nat /\ Count(t) = Len(wait[t].operands) /\ wait[t].remaining \in Int
      /\ wait[t].mode \in {"all", "any"}
  BY WaitFacts DEF WaitSet
<1>1. IsFiniteSet(Indexes(t)) /\ Cardinality(Indexes(t)) = Count(t)
  <2>1. PICK n \in Nat : n = Count(t)
    BY <1>0
  <2>2. IsFiniteSet(1..n) /\ Cardinality(1..n) = IF 1 > n THEN 0 ELSE n - 1 + 1
    BY FS_Interval
  <2>3. Cardinality(1..n) = n
    BY <2>2
  <2>4. Indexes(t) = 1..n
    BY <1>0, <2>1 DEF Indexes
  <2>. QED
    BY <2>1, <2>2, <2>3, <2>4
<1>2. Counted(t) \in SUBSET Indexes(t)
  BY DEF Counted
<1>3. /\ IsFiniteSet(Counted(t)) /\ Cardinality(Counted(t)) <= Count(t)
      /\ Count(t) = Cardinality(Counted(t)) => Indexes(t) = Counted(t)
      /\ Cardinality(Counted(t)) \in Nat
  BY <1>1, <1>2, FS_Subset, FS_CardinalityType
<1>4. wait[t].remaining = Count(t) - Cardinality(Counted(t))
  BY DEF WaitOK, CountOK
<1>5. ASSUME NEW i \in Counted(t) PROVE HasReached(t, i)
  <2>1. /\ i \in Indexes(t) /\ i <= Begun(t) /\ tp[Tp(t, i)].state = "answered"
        /\ \A u \in Threads : ~Counting(u, Tp(t, i))
    BY <1>5 DEF Counted
  <2>2. tp[Tp(t, i)].status = "ok"
    BY <2>1 DEF WaitOK, FailureOK, Counting, Recording
  <2>. QED
    BY <2>1, <2>2 DEF WaitOK, OperandOK, Operates, HasReached
<1>6. CASE wait[t].mode = "all"
  <2>1. wait[t].remaining <= 0
    BY <1>6 DEF Condition
  <2>2. Count(t) = Cardinality(Counted(t))
    BY <1>0, <1>3, <1>4, <2>1
  <2>. QED
    BY <1>3, <1>5, <1>6, <2>2 DEF Satisfied
<1>7. CASE wait[t].mode # "all"
  <2>1. wait[t].remaining < Count(t)
    BY <1>7 DEF Condition
  <2>2. Cardinality(Counted(t)) # 0
    BY <1>0, <1>3, <1>4, <2>1
  <2>3. PICK i : i \in Counted(t)
    BY <1>3, <2>2, FS_EmptySet
  <2>. QED
    BY <1>2, <1>5, <1>7, <2>3 DEF Satisfied
<1>. QED
  BY <1>6, <1>7

LEMMA StatusKeeps ==
  ASSUME Inv, WInv, NEW t \in Threads, WaitStatus(t) \/ WaitExpire(t)
  PROVE  Inv' /\ WInv'
<1>0. /\ TypedWait /\ wait[t] \in WaitSet /\ wait[t].note \in NoteSet /\ WaitOK(t)
      /\ wait[t].failure \in Statuses
  BY WaitFacts DEF WInv, WaitSet
<1>1. CASE WaitStatus(t)
  <2>1. PICK w : w = [wait[t] EXCEPT !.status = wait[t].failure, !.next = 1]
    OBVIOUS
  <2>2. At(t, "status") /\ Goto(t, "cleanup") /\ Set(t, w) /\ UNCHANGED <<semVars, tp, todo>>
    BY <1>1, <2>1 DEF WaitStatus
  <2>3. "status" \in BasePcs
    BY DEF BasePcs, WaitPcs, CallbackPcs
  <2>4. wait[t].live /\ BasePc(t) = "status"
    BY <2>2, <2>3, OwnTop
  <2>5. /\ Keeps(t, w) /\ w.live /\ w.next = 1 /\ w.registered = wait[t].registered
        /\ w.result = wait[t].result /\ w.status = wait[t].failure
    <3>1. w = [wait[t] EXCEPT !.note = wait[t].note, !.status = wait[t].failure, !.next = 1]
      BY <1>0, <2>1 DEF WaitSet
    <3>2. wait[t].failure \in Statuses \cup {"deadline_exceeded", "resource_exhausted"} /\ wait[t] \in WaitSet /\ wait[t].note \in NoteSet
      BY <1>0
    <3>3. /\ Keeps(t, w) /\ w.live = wait[t].live /\ w.next = 1 /\ w.registered = wait[t].registered
          /\ w.result = wait[t].result /\ w.status = wait[t].failure
      <4>1. 1 \in Nat \ {0}
        OBVIOUS
      <4>2. w \in WaitSet
        BY <3>1, <3>2, <4>1 DEF WaitSet
      <4>. QED
        BY <3>1, <3>2, <4>2 DEF Keeps, WaitSet
    <3>. QED
      BY <2>4, <3>3
  <2>6. Truthful(t, wait[t].failure)
    <3>1. CASE wait[t].failure = "ok"
      <4>1. Satisfied(t)
        BY <1>0, <2>4, <3>1, ConditionIsTrue DEF WaitOK, StatusOK
      <4>. QED
        BY <3>1, <4>1, SemaphoreAssumption DEF Truthful
    <3>2. CASE wait[t].failure # "ok"
      BY <1>0, <2>4, <3>2 DEF WaitOK, FailureOK, Truthful
    <3>. QED
      BY <3>1, <3>2
  <2>7. Truthful(t, w.status)
    BY <2>5, <2>6 DEF Truthful
  <2>. QED
    BY <2>2, <2>5, <2>7, CleanKeeps
<1>2. CASE WaitExpire(t)
  <2>1. PICK n : n = cancel_wait([wait[t].note EXCEPT !.asleep = {}])
    OBVIOUS
  <2>2. PICK w : w = [wait[t] EXCEPT !.note = n, !.status = "deadline_exceeded", !.next = 1]
    OBVIOUS
  <2>3. At(t, "asleep") /\ Goto(t, "cleanup") /\ Set(t, w) /\ UNCHANGED <<semVars, tp, todo>>
    BY <1>2, <2>1, <2>2 DEF WaitExpire
  <2>4. "asleep" \in BasePcs
    BY DEF BasePcs, WaitPcs, CallbackPcs
  <2>5. wait[t].live
    BY <2>3, <2>4, OwnTop
  <2>6. n \in NoteSet
    BY <1>0, <2>1, NotesTyped
  <2>7. /\ Keeps(t, w) /\ w.live /\ w.next = 1 /\ w.registered = wait[t].registered
        /\ w.result = wait[t].result /\ w.status = "deadline_exceeded"
    <3>1. w = [wait[t] EXCEPT !.note = n, !.status = "deadline_exceeded", !.next = 1]
      BY <2>2
    <3>2. "deadline_exceeded" \in Statuses \cup {"deadline_exceeded", "resource_exhausted"} /\ wait[t] \in WaitSet /\ n \in NoteSet
      BY <1>0, <2>6
    <3>3. /\ Keeps(t, w) /\ w.live = wait[t].live /\ w.next = 1 /\ w.registered = wait[t].registered
          /\ w.result = wait[t].result /\ w.status = "deadline_exceeded"
      <4>1. 1 \in Nat \ {0}
        OBVIOUS
      <4>2. w \in WaitSet
        BY <3>1, <3>2, <4>1 DEF WaitSet
      <4>. QED
        BY <3>1, <3>2, <4>2 DEF Keeps, WaitSet
    <3>. QED
      BY <2>5, <3>3
  <2>8. Truthful(t, w.status)
    BY <2>7, NothingReturned DEF Truthful
  <2>. QED
    BY <2>3, <2>7, <2>8, CleanKeeps
<1>. QED
  BY <1>1, <1>2

LEMMA RegisteredKeeps ==
  ASSUME Inv, WInv, NEW t \in Threads, WaitRegistered(t)
  PROVE  Inv' /\ WInv'
<1>0. /\ TypedWait /\ wait[t] \in WaitSet
  BY WaitFacts DEF WInv
<1>1. At(t, "registered") /\ UNCHANGED <<semVars, tp, todo>> /\ "registered" \in BasePcs
  BY DEF WaitRegistered, BasePcs, WaitPcs, CallbackPcs
<1>2. wait[t].live /\ Phase(t) /\ BasePc(t) = "registered"
  BY <1>1, OwnTop
<1>3. /\ Count(t) \in Nat /\ wait[t].registered \in Nat /\ wait[t].next \in Nat
      /\ \A i \in Indexes(t) : i \in Nat
  BY <1>0, WaitFacts DEF Indexes
<1>4. CASE tp[Operand(t).tp].state = "withdrawn"
  <2>1. PICK w : w = [wait[t] EXCEPT !.status = "resource_exhausted", !.next = 1]
    OBVIOUS
  <2>2. Goto(t, "cleanup") /\ Set(t, w)
    BY <1>4, <2>1 DEF WaitRegistered
  <2>3. /\ Keeps(t, w) /\ w.live /\ w.next = 1 /\ w.registered = wait[t].registered
        /\ w.result = wait[t].result /\ w.status = "resource_exhausted"
    <3>1. /\ w = [wait[t] EXCEPT !.note = wait[t].note, !.status = "resource_exhausted", !.next = 1]
          /\ wait[t].note \in NoteSet
      BY <1>0, <2>1 DEF WaitSet
    <3>2. "resource_exhausted" \in Statuses \cup {"deadline_exceeded", "resource_exhausted"} /\ wait[t] \in WaitSet /\ wait[t].note \in NoteSet
      BY <1>0, <3>1
    <3>3. /\ Keeps(t, w) /\ w.live = wait[t].live /\ w.next = 1 /\ w.registered = wait[t].registered
          /\ w.result = wait[t].result /\ w.status = "resource_exhausted"
      <4>1. 1 \in Nat \ {0}
        OBVIOUS
      <4>2. w \in WaitSet
        BY <3>1, <3>2, <4>1 DEF WaitSet
      <4>. QED
        BY <3>1, <3>2, <4>2 DEF Keeps, WaitSet
    <3>. QED
      BY <1>2, <3>3
  <2>4. Truthful(t, w.status)
    BY <2>3, NothingReturned DEF Truthful
  <2>. QED
    BY <1>1, <1>4, <2>2, <2>3, <2>4, CleanKeeps
<1>5. CASE tp[Operand(t).tp].state # "withdrawn"
  <2>1. PICK w : w = [wait[t] EXCEPT !.registered = @ + 1, !.next = @ + 1]
    OBVIOUS
  <2>2. Goto(t, "register") /\ Set(t, w) /\ "register" \in BasePcs
    BY <1>5, <2>1 DEF WaitRegistered, BasePcs, WaitPcs, CallbackPcs
  <2>3. wait[t].registered + 1 \in Nat /\ wait[t].next + 1 \in Nat \ {0}
    BY <1>3
  <2>4. /\ Keeps(t, w) /\ w.live /\ w.next = wait[t].next + 1 /\ w.registered = wait[t].registered + 1
        /\ w.result = wait[t].result
    BY <1>0, <1>2, <2>1, <2>3 DEF Keeps, WaitSet
  <2>5. /\ Inv' /\ OwnStep(t) /\ wait'[t] = w /\ BasePc(t)' = "register"
    BY <1>1, <2>2, <2>4, OwnGo
  <2>6. Begun(t) = wait[t].registered + 1 /\ Begun(t)' = wait[t].registered + 1
    BY <1>2, <1>3, <2>3, <2>4, <2>5 DEF Begun
  <2>7. \A i : Active(t, i)' <=> Active(t, i)
    BY <1>2, <2>4, <2>5, <2>6 DEF Active, Cleaning
  <2>8. /\ Indexes(t)' = Indexes(t) /\ Count(t)' = Count(t) /\ \A i : Sem(t, i)' = Sem(t, i)
    BY <2>5, OwnOperands
  <2>90. wait[t].next = wait[t].registered + 1 /\ wait[t].next <= Count(t)
    BY <1>2 DEF Phase
  <2>9. Phase(t)'
    BY <1>2, <1>3, <2>4, <2>5, <2>8, <2>90 DEF Phase, Polling, Cleaning, Keeps, OwnStep
  <2>10. StatusOK(t)'
    <3>1. wait'[t].result = None
      BY <1>2, <2>4, <2>5 DEF Phase
    <3>2. Truthful(t, wait[t].result)'
      BY <3>1, NothingReturned DEF Truthful
    <3>. QED
      BY <2>5, <3>2 DEF StatusOK, Truthful, Cleaning
  <2>11. OwnProgress(t)
    <3>1. ~Polling(t)'
      BY <2>5 DEF Polling
    <3>. QED
      BY <2>6, <2>7, <2>9, <2>10, <3>1 DEF OwnProgress, PhaseOK, PollOK
  <2>. QED
    BY <2>5, <2>11, OwnKeeps
<1>. QED
  BY <1>4, <1>5

\* The next operand is dealt with: the wait goes on cleaning up.
LEMMA CleanedKeeps ==
  ASSUME Inv, Inv', WInv, NEW t \in Threads, OwnStep(t), wait[t].live, Phase(t), Cleaning(t),
         wait[t].next <= wait[t].registered,
         BasePc(t)' = "cleanup", wait'[t].next = wait[t].next + 1, wait'[t].live,
         wait'[t].registered = wait[t].registered, wait'[t].result = wait[t].result,
         wait'[t].status = wait[t].status,
         tp'[Operand(t).tp].state \in Ended, \A u \in Threads : ~Calling(u, Operand(t).tp)
  PROVE  WInv'
<1>1. /\ Count(t) \in Nat /\ wait[t].registered \in Nat /\ wait[t].next \in Nat
      /\ \A i \in Indexes(t) : i \in Nat
  BY WaitFacts DEF WInv, Indexes
<1>2. Begun(t) = wait[t].registered /\ Begun(t)' = wait[t].registered
  BY <1>1 DEF Begun, Cleaning
<1>3. ASSUME NEW i \in Indexes(t)
      PROVE  /\ Active(t, i) <=> i <= wait[t].registered /\ i >= wait[t].next
             /\ Active(t, i)' <=> i <= wait[t].registered /\ i >= wait[t].next + 1
  BY <1>2 DEF Active, Cleaning
<1>4. ASSUME NEW i \in Indexes(t), Active(t, i), ~Active(t, i)'
      PROVE  tp'[Tp(t, i)].state \in Ended /\ \A u \in Threads : ~Calling(u, Tp(t, i))
  <2>1. i = wait[t].next
    BY <1>1, <1>3, <1>4
  <2>2. Tp(t, i) = Operand(t).tp
    BY <2>1 DEF Tp, Operand
  <2>. QED
    BY <2>2
<1>5. \A i \in Indexes(t) : Active(t, i)' => Active(t, i)
  BY <1>1, <1>3
<1>6. /\ Indexes(t)' = Indexes(t) /\ Count(t)' = Count(t) /\ \A i : Sem(t, i)' = Sem(t, i)
      /\ \A status : Truthful(t, status)' <=> Truthful(t, status)
  BY OwnOperands
<1>7. Phase(t)'
  BY <1>1, <1>6 DEF Phase, Polling, Cleaning, OwnStep
<1>8. StatusOK(t)'
  <2>1. Truthful(t, wait[t].result) /\ Truthful(t, wait[t].status)
    BY DEF WInv, WaitOK, StatusOK
  <2>2. PICK a, b : a = wait[t].result /\ b = wait[t].status
    OBVIOUS
  <2>3. Truthful(t, a)' /\ Truthful(t, b)'
    BY <1>6, <2>1, <2>2
  <2>. QED
    BY <2>2, <2>3 DEF StatusOK, Truthful
<1>9. OwnProgress(t)
  <2>1. ~Polling(t)'
    BY DEF Polling
  <2>. QED
    BY <1>2, <1>4, <1>5, <1>7, <1>8, <2>1 DEF OwnProgress, PhaseOK, PollOK
<1>. QED
  BY <1>9, OwnKeeps

\* The operand the wait deals with.
LEMMA OperandFacts ==
  ASSUME TypedWait, NEW t \in Threads, wait[t].next <= Count(t)
  PROVE  /\ wait[t].next \in Indexes(t) /\ Operand(t).tp = Tp(t, wait[t].next)
         /\ Operand(t).sem = Sem(t, wait[t].next) /\ Operand(t).value = Value(t, wait[t].next)
         /\ Operand(t).tp \in Timepoints /\ Operand(t).sem \in Semaphores /\ Operand(t).value \in Nat
<1>1. wait[t].next \in Indexes(t)
  BY WaitFacts DEF Indexes
<1>. QED
  BY <1>1, WaitFacts DEF Operand, Tp, Sem, Value

LEMMA JoinKeeps ==
  ASSUME Inv, WInv, NEW t \in Threads, WaitJoin(t)
  PROVE  Inv' /\ WInv'
<1>0. /\ TypedWait /\ wait[t] \in WaitSet /\ WaitOK(t) /\ ScriptInv
  BY WaitFacts DEF WInv
<1>1. PICK w : w = [wait[t] EXCEPT !.next = @ + 1]
  OBVIOUS
<1>2. /\ At(t, "join") /\ Joined(t) /\ Set(t, w) /\ Goto(t, "cleanup") /\ UNCHANGED <<semVars, tp, todo>>
  BY <1>1 DEF WaitJoin
<1>3. "join" \in BasePcs /\ "cleanup" \in BasePcs
  BY DEF BasePcs, WaitPcs, CallbackPcs
<1>4. wait[t].live /\ Phase(t) /\ BasePc(t) = "join"
  BY <1>2, <1>3, OwnTop
<1>5. wait[t].next \in Nat /\ wait[t].next + 1 \in Nat \ {0} /\ wait[t].registered \in Nat /\ Count(t) \in Nat
  BY <1>0, WaitFacts
<1>6. /\ Keeps(t, w) /\ w.live /\ w.next = wait[t].next + 1 /\ w.registered = wait[t].registered
      /\ w.result = wait[t].result /\ w.status = wait[t].status
  BY <1>0, <1>1, <1>4, <1>5 DEF Keeps, WaitSet
<1>7. /\ Inv' /\ OwnStep(t) /\ wait'[t] = w /\ BasePc(t)' = "cleanup"
  BY <1>2, <1>3, <1>6, OwnGo
<1>8. wait[t].next <= wait[t].registered /\ wait[t].next <= Count(t) /\ Cleaning(t)
  BY <1>4, <1>5 DEF Phase, Cleaning
<1>9. PICK p \in Timepoints : p = Operand(t).tp /\ p = Tp(t, wait[t].next) /\ wait[t].next \in Indexes(t)
  BY <1>0, <1>8, OperandFacts
<1>10. tp[p].state = "answered" /\ p \in wait[t].completed
  BY <1>0, <1>2, <1>4, <1>9 DEF Joined, WaitOK, CompletedOK
<1>11. ASSUME NEW u \in Threads PROVE ~Calling(u, p)
  <2>1. SUFFICES ASSUME Calling(u, p) PROVE FALSE
    OBVIOUS
  <2>2. PICK v \in Threads : \E i \in Indexes(v) : Tp(v, i) = p /\ p \notin wait[v].completed
    BY <2>1 DEF WInv, CallbackInv
  <2>3. v = t
    BY <1>0, <1>9, <2>2, Owned
  <2>. QED
    BY <1>10, <2>2, <2>3
<1>. QED
  BY <1>2, <1>4, <1>6, <1>7, <1>8, <1>9, <1>10, <1>11, CleanedKeeps DEF Ended

LEMMA EndKeeps ==
  ASSUME Inv, WInv, NEW t \in Threads, WaitEnd(t)
  PROVE  Inv' /\ WInv'
<1>0. /\ TypedWait /\ wait[t] \in WaitSet /\ WaitOK(t)
  BY WaitFacts DEF WInv
<1>1. PICK status : status = wait[t].status
  OBVIOUS
<1>2. /\ At(t, "cleanup") /\ wait[t].next > wait[t].registered /\ Finish(t, status)
      /\ UNCHANGED <<semVars, tp, todo>> /\ "cleanup" \in BasePcs
  BY <1>1 DEF WaitEnd, BasePcs, WaitPcs, CallbackPcs
<1>3. wait[t].live /\ BasePc(t) = "cleanup"
  BY <1>2, OwnTop
<1>4. status \in Statuses \cup {"deadline_exceeded", "resource_exhausted"}
  BY <1>0, <1>1 DEF WaitSet
<1>5. Truthful(t, status)
  BY <1>0, <1>1, <1>3 DEF WaitOK, StatusOK, Cleaning
<1>6. ASSUME NEW i \in Indexes(t) PROVE ~Active(t, i)
  <2>1. wait[t].next \in Nat /\ wait[t].registered \in Nat /\ i \in Nat
    BY <1>0, WaitFacts DEF Indexes
  <2>2. Begun(t) = wait[t].registered
    BY <1>3, <2>1 DEF Begun
  <2>. QED
    BY <1>2, <1>3, <2>1, <2>2 DEF Active, Cleaning
<1>. QED
  BY <1>2, <1>4, <1>5, <1>6, FinishKeeps


\* A pending timepoint is taken out of the heap; the stacks stay.
LEMMA WithdrawInPlace ==
  ASSUME Inv, NEW t \in Threads, stack[t] # <<>>, Top(t).pc \in BasePcs, stack' = stack,
         NEW p \in Timepoints, tp[p].state = "pending", tp' = [tp EXCEPT ![p].state = "withdrawn"],
         timepoints' = [timepoints EXCEPT ![tp[p].sem] = @ \ {p}],
         UNCHANGED <<timeline_value, failure_status, alive, todo, mutex>>
  PROVE  Inv' /\ Moves(t, p) /\ tp'[p].state = "withdrawn" /\ \A r \in Timepoints : r # p => tp'[r] = tp[r]
<1>0. Typed /\ HeapInv /\ FrameInv /\ ClaimInv
  BY DEF Inv
<1>1. Top(t) \in FrameSet /\ FrameOK(t, Top(t)) /\ Top(t) = stack[t][1] /\ 1 \in 1..Len(stack[t])
  BY <1>0, TopFacts
<1>2. /\ timepoints \in [Semaphores -> SUBSET Timepoints] /\ tp \in [Timepoints -> TimepointSet]
      /\ stack \in [Threads -> Seq(FrameSet)] /\ timeline_value \in [Semaphores -> Nat]
      /\ Len(stack[t]) \in Nat
  BY <1>0, LenProperties DEF Typed
<1>3. TimepointOK(p)
  BY <1>0 DEF HeapInv
<1>4. /\ tp' \in [Timepoints -> TimepointSet]
      /\ tp'[p].sem = tp[p].sem /\ tp'[p].min = tp[p].min /\ tp'[p].late = tp[p].late
      /\ tp'[p].callback = tp[p].callback /\ tp'[p].target = tp[p].target
      /\ tp'[p].state = "withdrawn"
      /\ \A r \in Timepoints : r # p => tp'[r] = tp[r]
  <2>1. "withdrawn" \in TimepointStates
    BY DEF TimepointStates, Ended
  <2>. QED
    BY <1>2, <2>1, MoveFacts
<1>5. Shape(t, 1, 0)
  BY <1>1, <1>2 DEF Shape
<1>6. /\ timepoints' \in [Semaphores -> SUBSET Timepoints]
      /\ \A s \in Semaphores : timepoints'[s] = timepoints[s] \ {p}
  BY <1>2, <1>3 DEF TimepointOK
<1>7. Typed'
  BY <1>0, <1>4, <1>6 DEF Typed
<1>8. HeapInv'
  <2>1. SUFFICES ASSUME NEW r \in Timepoints PROVE TimepointOK(r)'
    BY DEF HeapInv
  <2>2. TimepointOK(r)
    BY <1>0 DEF HeapInv
  <2>3. CASE r = p
    BY <1>3, <1>4, <1>6, <2>2, <2>3 DEF TimepointOK, Failed
  <2>4. CASE r # p
    BY <1>4, <1>6, <2>2, <2>4 DEF TimepointOK, Failed
  <2>. QED
    BY <2>3, <2>4
<1>9. Benign(t)
  BY <1>2 DEF Benign
<1>10. \A u \in Threads : \A i \in 1..Len(stack[u]) : p \notin Claim(stack[u][i])
  BY <1>0, ClaimedState
<1>11. Touches(t, {p})
  BY <1>4, <1>10 DEF Touches
<1>12. /\ \A s \in Semaphores : timepoints'[s] \subseteq timepoints[s]
       /\ \A s \in Semaphores : \A r \in timepoints'[s] : tp'[r].min = tp[r].min
  BY <1>2, <1>4, <1>6
<1>13. PICK f : f = stack[t][1]
  OBVIOUS
<1>14. /\ f.pc \notin AcquirePcs /\ f.pc \notin CallPcs /\ f.pc # "acquire_insert" /\ f.pc # "fail"
       /\ f.pc \notin {"recheck", "merge", "mark", "collect", "flush", "deinit", "cancel"}
       /\ f.list = {} /\ f.pc # "dispatch"
  BY <1>1, <1>13, BasePcPlain, PcsApart DEF FrameOK
<1>15. FrameOK(t, f)' /\ Claim(f) = {} /\ \A s, v : ~Collects(f, s, v)
  BY <1>14 DEF FrameOK, Claim, Collects
<1>16. stack'[t][1] = f /\ \A i \in 1..1 : i = 1
  BY <1>13
<1>17. 1 \in 0..2 /\ 0 \in Int
  OBVIOUS
<1>18. /\ \A i \in 1..1 : \A g : g = stack'[t][i] => FrameOK(t, g)'
       /\ \A i \in 1..1 : i > 1 => stack'[t][i].pc \in {"dispatch", "registered"}
       /\ \A i \in 1..1 : stack'[t][i].pc = "acquire_insert" =>
            ~(timeline_value'[stack'[t][i].sem] >= tp'[stack'[t][i].tp].min)
       /\ \A i \in 1..1 : \A q \in Timepoints : q \in Claim(stack'[t][i]) =>
            \A u \in Threads : \A j \in 1..Len(stack[u]) :
              q \in Claim(stack[u][j]) => u = t /\ j = 1
       /\ \A i, j \in 1..1 : \A q \in Timepoints :
            q \in Claim(stack'[t][i]) /\ q \in Claim(stack'[t][j]) => i = j
  BY <1>14, <1>15, <1>16
<1>19. \A s \in Semaphores : \A v \in Nat :
           /\ stack[t] # <<>> /\ Collects(stack[t][1], s, v)
           /\ mutex[s] # None \/ \E r \in timepoints'[s] : tp[r].min = v
           => \E i \in 1..1 : Collects(stack'[t][i], s, v)
  BY <1>13, <1>15
<1>20. Inv'
  BY <1>5, <1>7, <1>8, <1>9, <1>11, <1>12, <1>17, <1>18, <1>19, LoudStep
<1>21. Moves(t, p)
  BY <1>4 DEF Moves, Ended
<1>. QED
  BY <1>4, <1>20, <1>21

LEMMA CancelsKeep ==
  ASSUME Inv, WInv, NEW t \in Threads, WaitCancel(t)
  PROVE  Inv' /\ WInv'
<1>0. /\ TypedWait /\ wait[t] \in WaitSet /\ WaitOK(t)
  BY WaitFacts DEF WInv
<1>1. At(t, "cleanup") /\ wait[t].next <= wait[t].registered /\ todo' = todo /\ "cleanup" \in BasePcs /\ "join" \in BasePcs
  BY DEF WaitCancel, BasePcs, WaitPcs, CallbackPcs
<1>2. /\ wait[t].live /\ Phase(t) /\ BasePc(t) = "cleanup" /\ stack[t] # <<>> /\ Top(t).pc = "cleanup"
      /\ stack[t] = <<Top(t)>> /\ Top(t) \in FrameSet /\ Top(t) = stack[t][1]
  BY <1>1, OwnTop
<1>3. /\ Count(t) \in Nat /\ wait[t].registered \in Nat /\ wait[t].next \in Nat
      /\ wait[t].next + 1 \in Nat \ {0} /\ Begun(t) = wait[t].registered
  BY <1>0, <1>2, WaitFacts DEF Begun
<1>4. wait[t].next <= Count(t) /\ Cleaning(t)
  BY <1>1, <1>2, <1>3 DEF Phase, Cleaning
<1>5. PICK p \in Timepoints : p = Operand(t).tp /\ p = Tp(t, wait[t].next) /\ wait[t].next \in Indexes(t)
  BY <1>0, <1>4, OperandFacts
<1>6. Operates(t, wait[t].next)
  BY <1>0, <1>1, <1>2, <1>3, <1>5 DEF WaitOK, OperandOK
<1>7. /\ timepoints' = [timepoints EXCEPT ![tp[p].sem] = @ \ {p}]
      /\ tp' = [tp EXCEPT ![p].state = IF Cancellable(p) THEN "withdrawn" ELSE @]
      /\ UNCHANGED <<timeline_value, failure_status, last_untainted_value, frontier, capacity, mutex, alive>>
  BY <1>5 DEF WaitCancel, CancelTimepoint
<1>8. CASE tp[p].state = "pending"
  <2>1. PICK w : w = [wait[t] EXCEPT !.next = @ + 1]
    OBVIOUS
  <2>2. Set(t, w) /\ stack' = stack /\ tp' = [tp EXCEPT ![p].state = "withdrawn"]
    BY <1>5, <1>7, <1>8, <2>1 DEF WaitCancel, Cancellable
  <2>3. /\ Inv' /\ Moves(t, p) /\ tp'[p].state = "withdrawn"
        /\ \A r \in Timepoints : r # p => tp'[r] = tp[r]
    BY <1>1, <1>2, <1>7, <1>8, <2>2, WithdrawInPlace
  <2>4. /\ Keeps(t, w) /\ w.live /\ w.next = wait[t].next + 1 /\ w.registered = wait[t].registered
        /\ w.result = wait[t].result /\ w.status = wait[t].status
    BY <1>0, <1>2, <1>3, <2>1 DEF Keeps, WaitSet
  <2>5. wait' \in [Threads -> WaitSet] /\ wait'[t] = w /\ \A u \in Threads : u # t => wait'[u] = wait[u]
    BY <1>0, <2>2, <2>4 DEF Set, TypedWait, Keeps
  <2>6. TypedWait'
    BY <2>5 DEF TypedWait
  <2>7. \E g \in FrameSet : stack'[t] = <<g>> /\ g.pc \in BasePcs
    BY <1>1, <1>2, <2>2
  <2>8. OwnStep(t)
    BY <1>1, <1>2, <1>7, <2>2, <2>3, <2>4, <2>5, <2>6, <2>7 DEF OwnStep, Keeps
  <2>9. BasePc(t)' = "cleanup"
    BY <1>2, <2>2 DEF BasePc
  <2>10. \A u \in Threads : ~Calling(u, p)
    BY <1>8, NotCalled
  <2>. QED
    BY <1>1, <1>2, <1>4, <1>5, <2>3, <2>4, <2>5, <2>8, <2>9, <2>10, CleanedKeeps DEF Ended
<1>9. CASE tp[p].state # "pending"
  <2>0. tp \in [Timepoints -> TimepointSet] /\ timepoints \in [Semaphores -> SUBSET Timepoints] /\ TimepointOK(p)
    BY DEF Inv, Typed, HeapInv
  <2>1. tp' = tp
    BY <1>7, <1>9, <2>0 DEF Cancellable, TimepointSet
  <2>2. timepoints' = timepoints
    BY <1>6, <1>7, <1>9, <2>0 DEF TimepointOK
  <2>3. wait' = wait /\ Goto(t, "join") /\ UNCHANGED <<semVars, tp, todo>>
    BY <1>1, <1>5, <1>7, <1>9, <2>1, <2>2 DEF WaitCancel, Cancellable, semVars
  <2>4. PICK w : w = wait[t]
    OBVIOUS
  <2>5. Set(t, w) /\ Keeps(t, w) /\ w.live
    BY <1>0, <1>2, <2>3, <2>4, SetStill DEF Sleeps
  <2>6. /\ Inv' /\ OwnStep(t) /\ wait'[t] = w /\ BasePc(t)' = "join"
    BY <1>1, <2>3, <2>5, OwnGo
  <2>7. Begun(t)' = Begun(t)
    BY <1>2, <2>4, <2>6 DEF Begun
  <2>8. \A i : Active(t, i)' <=> Active(t, i)
    BY <1>2, <2>4, <2>6, <2>7 DEF Active, Cleaning
  <2>9. /\ Indexes(t)' = Indexes(t) /\ Count(t)' = Count(t) /\ \A i : Sem(t, i)' = Sem(t, i)
        /\ \A status : Truthful(t, status)' <=> Truthful(t, status)
    BY <2>6, OwnOperands
  <2>10. Phase(t)'
    BY <1>1, <1>2, <1>3, <2>4, <2>6, <2>9 DEF Phase, Polling, Cleaning, OwnStep
  <2>11. StatusOK(t)'
    <3>1. Truthful(t, wait[t].result) /\ Truthful(t, wait[t].status)
      BY <1>0, <1>2, <1>4 DEF WaitOK, StatusOK
    <3>2. PICK a, b : a = wait[t].result /\ b = wait[t].status
      OBVIOUS
    <3>3. Truthful(t, a)' /\ Truthful(t, b)'
      BY <2>9, <3>1, <3>2
    <3>. QED
      BY <2>4, <2>6, <3>2, <3>3 DEF StatusOK, Truthful
  <2>12. OwnProgress(t)
    <3>1. ~Polling(t)'
      BY <2>6 DEF Polling
    <3>. QED
      BY <2>7, <2>8, <2>10, <2>11, <3>1 DEF OwnProgress, PhaseOK, PollOK
  <2>. QED
    BY <2>6, <2>12, OwnKeeps
<1>. QED
  BY <1>8, <1>9

----------------------------------------------------------------------------
(* Polling: nothing has been registered.                                   *)

\* What a poll that goes on with w knows.
Polled(t, w, to) ==
  /\ w.reached < w.next
  /\ w.reached + 1 = w.next => \A i \in Indexes(t) : i < w.next => HasReached(t, i)
  /\ w.reached # 0 => \E i \in Indexes(t) : HasReached(t, i)
  /\ to = "poll_failure" /\ w.polled => HasReached(t, w.next)

LEMMA PollFacts ==
  ASSUME Inv, WInv, NEW t \in Threads, NEW pc \in {"poll_value", "poll_failure"}, At(t, pc)
  PROVE  /\ wait[t].live /\ Phase(t) /\ pc \in BasePcs /\ BasePc(t) = pc /\ Polling(t) /\ WaitOK(t)
         /\ wait[t].registered = 0 /\ Begun(t) = 0 /\ \A i \in Indexes(t) : ~Active(t, i)
         /\ Polled(t, wait[t], pc)
<1>1. pc \in BasePcs
  BY DEF BasePcs, WaitPcs, CallbackPcs
<1>2. wait[t].live /\ Phase(t) /\ BasePc(t) = pc
  BY <1>1, OwnTop
<1>3. Polling(t) /\ WaitOK(t)
  BY <1>2 DEF Polling, WInv
<1>4. wait[t].registered = 0
  BY <1>2, <1>3 DEF Phase
<1>5. Begun(t) = 0
  BY <1>2, <1>4 DEF Begun
<1>6. \A i \in Indexes(t) : ~Active(t, i)
  <2>1. \A i \in Indexes(t) : ~(i <= 0)
    BY WaitFacts DEF WInv, Indexes
  <2>. QED
    BY <1>5, <2>1 DEF Active
<1>7. Polled(t, wait[t], pc)
  BY <1>2, <1>3 DEF WaitOK, PollOK, Polled
<1>. QED
  BY <1>1, <1>2, <1>3, <1>4, <1>5, <1>6, <1>7

LEMMA PollGoes ==
  ASSUME Inv, WInv, NEW t \in Threads, NEW pc \in {"poll_value", "poll_failure"}, At(t, pc),
         NEW to \in {"poll_value", "poll_failure", "register"}, Goto(t, to),
         UNCHANGED <<semVars, tp, todo>>, NEW w, Keeps(t, w), Set(t, w),
         w.live, w.registered = 0, w.result = wait[t].result, w.next <= Count(t) + 1,
         to = "register" => w.next = 1,
         to = "poll_failure" => w.next <= Count(t),
         to # "register" => Polled(t, w, to)
  PROVE  Inv' /\ WInv'
<1>0. /\ wait[t].live /\ Phase(t) /\ pc \in BasePcs /\ BasePc(t) = pc /\ Polling(t)
      /\ wait[t].registered = 0 /\ Begun(t) = 0 /\ \A i \in Indexes(t) : ~Active(t, i)
  BY PollFacts
<1>1. to \in BasePcs
  BY DEF BasePcs, WaitPcs, CallbackPcs
<1>2. /\ Inv' /\ OwnStep(t) /\ wait'[t] = w /\ BasePc(t)' = to
  BY <1>0, <1>1, OwnGo
<1>3. Begun(t)' = 0
  BY <1>2 DEF Begun
<1>4. /\ Indexes(t)' = Indexes(t) /\ Count(t)' = Count(t) /\ \A i : Sem(t, i)' = Sem(t, i)
      /\ \A i : HasReached(t, i)' <=> HasReached(t, i)
  BY <1>2, OwnOperands
<1>5. /\ Count(t) \in Nat /\ \A i \in Indexes(t) : ~(i <= 0)
  BY WaitFacts DEF WInv, Indexes
<1>6. \A i \in Indexes(t) : ~Active(t, i)'
  BY <1>3, <1>5 DEF Active
<1>7. Phase(t)'
  <2>1. wait'[t].operands = wait[t].operands /\ alive' = alive
    BY <1>2 DEF OwnStep
  <2>2. ~Cleaning(t)' /\ wait'[t].registered = 0
    BY <1>2 DEF Cleaning
  <2>3. \A i \in Indexes(t)' : alive'[Sem(t, i)']
    BY <1>0, <1>4, <2>1 DEF Phase
  <2>. QED
    BY <1>0, <1>2, <1>4, <1>5, <2>1, <2>2, <2>3 DEF Phase
<1>8. StatusOK(t)'
  <2>1. wait'[t].result = None
    BY <1>0, <1>2 DEF Phase
  <2>2. Truthful(t, wait[t].result)'
    BY <2>1, NothingReturned DEF Truthful
  <2>. QED
    BY <1>2, <2>2 DEF StatusOK, Truthful, Cleaning
<1>9. PollOK(t)'
  <2>1. CASE to = "register"
    <3>1. ~Polling(t)'
      BY <1>2, <2>1 DEF Polling
    <3>. QED
      BY <3>1 DEF PollOK
  <2>2. CASE to # "register"
    <3>1. PICK n, r : n = w.next /\ r = w.reached
      OBVIOUS
    <3>2. /\ r < n /\ (r + 1 = n => \A i \in Indexes(t) : i < n => HasReached(t, i)')
          /\ r # 0 => \E i \in Indexes(t) : HasReached(t, i)'
          /\ to = "poll_failure" /\ w.polled => HasReached(t, n)'
      BY <1>4, <2>2, <3>1 DEF Polled
    <3>. QED
      BY <1>2, <1>4, <3>1, <3>2 DEF PollOK, HasReached, Sem, Value
  <2>. QED
    BY <2>1, <2>2
<1>10. OwnProgress(t)
  BY <1>0, <1>3, <1>5, <1>6, <1>7, <1>8, <1>9 DEF OwnProgress, PhaseOK
<1>. QED
  BY <1>2, <1>10, OwnKeeps

LEMMA PollValueKeeps ==
  ASSUME Inv, WInv, NEW t \in Threads, PollValue(t)
  PROVE  Inv' /\ WInv'
<1>0. /\ TypedWait /\ wait[t] \in WaitSet /\ WaitOK(t)
  BY WaitFacts DEF WInv
<1>1. PICK b \in BOOLEAN : b <=> timeline_value[Operand(t).sem] >= Operand(t).value
  <2>1. CASE timeline_value[Operand(t).sem] >= Operand(t).value
    BY <2>1
  <2>2. CASE ~(timeline_value[Operand(t).sem] >= Operand(t).value)
    BY <2>2
  <2>. QED
    BY <2>1, <2>2
<1>2. PICK w : w = [wait[t] EXCEPT !.polled = timeline_value[Operand(t).sem] >= Operand(t).value]
  OBVIOUS
<1>3. At(t, "poll_value") /\ ~AtEnd(t) /\ Set(t, w) /\ Goto(t, "poll_failure") /\ UNCHANGED <<semVars, tp, todo>>
  BY <1>2 DEF PollValue
<1>4. /\ wait[t].live /\ wait[t].registered = 0 /\ Polled(t, wait[t], "poll_value") /\ Phase(t)
  BY <1>3, PollFacts
<1>5. Count(t) \in Nat /\ wait[t].next \in Nat /\ wait[t].next <= Count(t)
  BY <1>0, <1>3, WaitFacts DEF AtEnd
<1>6. /\ Keeps(t, w) /\ w.live /\ w.registered = 0 /\ w.result = wait[t].result /\ w.next = wait[t].next
      /\ w.reached = wait[t].reached
      /\ w.polled <=> timeline_value[Operand(t).sem] >= Operand(t).value
  <2>1. timeline_value \in [Semaphores -> Nat] /\ Operand(t).sem \in Semaphores /\ Operand(t).value \in Nat
    BY <1>0, <1>5, OperandFacts DEF Inv, Typed
  <2>2. (timeline_value[Operand(t).sem] >= Operand(t).value) \in BOOLEAN
    BY <2>1
  <2>. QED
    BY <1>0, <1>2, <1>4, <2>2 DEF Keeps, WaitSet
<1>7. HasReached(t, wait[t].next) <=> timeline_value[Operand(t).sem] >= Operand(t).value
  BY <1>0, <1>5, OperandFacts DEF HasReached
<1>8. Polled(t, w, "poll_failure")
  BY <1>4, <1>6, <1>7 DEF Polled
<1>. QED
  BY <1>3, <1>5, <1>6, <1>8, PollGoes

LEMMA PollFailureKeeps ==
  ASSUME Inv, WInv, NEW t \in Threads, PollFailure(t)
  PROVE  Inv' /\ WInv'
<1>0. /\ TypedWait /\ wait[t] \in WaitSet /\ WaitOK(t)
  BY WaitFacts DEF WInv
<1>1. At(t, "poll_failure") /\ UNCHANGED <<semVars, tp, todo>>
  BY DEF PollFailure
<1>2. /\ wait[t].live /\ wait[t].registered = 0 /\ Polled(t, wait[t], "poll_failure") /\ Phase(t)
      /\ \A i \in Indexes(t) : ~Active(t, i)
      /\ BasePc(t) = "poll_failure" /\ "poll_failure" \in BasePcs
  BY <1>1, PollFacts
<1>3. /\ Count(t) \in Nat /\ wait[t].next \in Nat /\ wait[t].next <= Count(t) /\ wait[t].reached \in Nat
      /\ \A i \in Indexes(t) : i \in Nat
  BY <1>0, <1>2, WaitFacts DEF Phase, WaitSet, Indexes
<1>4. /\ Operand(t).sem \in Semaphores /\ wait[t].next \in Indexes(t)
      /\ Operand(t).sem = Sem(t, wait[t].next)
  BY <1>0, <1>3, OperandFacts
<1>5. CASE Failed(Operand(t).sem)
  <2>1. PICK status : status = failure_status[Operand(t).sem]
    OBVIOUS
  <2>2. Finish(t, status)
    BY <1>5, <2>1 DEF PollFailure
  <2>3. status \in Statuses /\ status # "ok"
    BY <1>4, <1>5, <2>1 DEF Failed, Inv, Typed
  <2>4. Truthful(t, status)
    BY <1>4, <2>1, <2>3 DEF Truthful, Blamed
  <2>5. status \in Statuses \cup {"deadline_exceeded", "resource_exhausted"}
    BY <2>3
  <2>. QED
    BY <1>1, <1>2, <2>2, <2>4, <2>5, FinishKeeps
<1>6. CASE ~Failed(Operand(t).sem)
  <2>1. PICK w : w = [wait[t] EXCEPT !.next = @ + 1,
                                     !.reached = IF wait[t].polled THEN @ + 1 ELSE @]
    OBVIOUS
  <2>2. Set(t, w) /\ Goto(t, "poll_value")
    BY <1>6, <2>1 DEF PollFailure
  <2>3. wait[t].next + 1 \in Nat \ {0} /\ wait[t].reached + 1 \in Nat
    BY <1>3
  <2>4. /\ Keeps(t, w) /\ w.live /\ w.registered = 0 /\ w.result = wait[t].result
        /\ w.next = wait[t].next + 1
        /\ w.reached = IF wait[t].polled THEN wait[t].reached + 1 ELSE wait[t].reached
    BY <1>0, <1>2, <1>3, <2>1, <2>3 DEF Keeps, WaitSet
  <2>5. PICK n \in Nat, r \in Nat : n = wait[t].next /\ r = wait[t].reached
    BY <1>3
  <2>6. /\ r < n /\ (r + 1 = n => \A i \in Indexes(t) : i < n => HasReached(t, i))
        /\ r # 0 => \E i \in Indexes(t) : HasReached(t, i)
        /\ wait[t].polled => HasReached(t, n)
    BY <1>2, <2>5 DEF Polled
  <2>7. Polled(t, w, "poll_value")
    <3>1. CASE wait[t].polled
      <4>1. w.next = n + 1 /\ w.reached = r + 1 /\ HasReached(t, n) /\ n \in Indexes(t)
        BY <1>4, <2>4, <2>5, <2>6, <3>1
      <4>2. r + 1 < n + 1
        BY <2>6
      <4>3. ASSUME r + 1 + 1 = n + 1, NEW i \in Indexes(t), i < n + 1 PROVE HasReached(t, i)
        <5>1. i < n \/ i = n
          BY <1>3, <4>3
        <5>. QED
          BY <2>6, <4>1, <4>3, <5>1
      <4>. QED
        BY <4>1, <4>2, <4>3 DEF Polled
    <3>2. CASE ~wait[t].polled
      <4>1. w.next = n + 1 /\ w.reached = r
        BY <2>4, <2>5, <3>2
      <4>2. r < n + 1 /\ r + 1 # n + 1
        BY <2>6
      <4>. QED
        BY <2>6, <4>1, <4>2 DEF Polled
    <3>. QED
      BY <3>1, <3>2
  <2>8. w.next <= Count(t) + 1
    BY <1>3, <2>4
  <2>. QED
    BY <1>1, <2>2, <2>4, <2>7, <2>8, PollGoes
<1>. QED
  BY <1>5, <1>6

LEMMA PollEndKeeps ==
  ASSUME Inv, WInv, NEW t \in Threads, PollEnd(t)
  PROVE  Inv' /\ WInv'
<1>0. /\ TypedWait /\ wait[t] \in WaitSet /\ WaitOK(t)
  BY WaitFacts DEF WInv
<1>1. At(t, "poll_value") /\ UNCHANGED <<semVars, tp, todo>> /\ AtEnd(t)
  BY DEF PollEnd
<1>2. /\ wait[t].live /\ wait[t].registered = 0 /\ Polled(t, wait[t], "poll_value") /\ Phase(t)
      /\ \A i \in Indexes(t) : ~Active(t, i)
      /\ BasePc(t) = "poll_value" /\ "poll_value" \in BasePcs
  BY <1>1, PollFacts
<1>3. /\ Count(t) \in Nat /\ wait[t].next \in Nat /\ wait[t].next = Count(t) + 1 /\ wait[t].reached \in Nat
      /\ \A i \in Indexes(t) : i \in Nat /\ i <= Count(t)
  BY <1>0, <1>1, <1>2, WaitFacts DEF Phase, WaitSet, Indexes, AtEnd
<1>4. CASE IF wait[t].mode = "all" THEN wait[t].reached = Count(t) ELSE wait[t].reached # 0
  <2>1. Finish(t, "ok")
    BY <1>4 DEF PollEnd
  <2>2. Satisfied(t)
    <3>1. CASE wait[t].mode = "all"
      <4>1. wait[t].reached + 1 = wait[t].next /\ \A i \in Indexes(t) : i < wait[t].next
        BY <1>3, <1>4, <3>1
      <4>. QED
        BY <1>2, <3>1, <4>1 DEF Polled, Satisfied
    <3>2. CASE wait[t].mode # "all"
      BY <1>2, <1>4, <3>2 DEF Polled, Satisfied
    <3>. QED
      BY <3>1, <3>2
  <2>3. Truthful(t, "ok")
    BY <2>2, SemaphoreAssumption DEF Truthful
  <2>4. "ok" \in Statuses \cup {"deadline_exceeded", "resource_exhausted"}
    BY DEF Statuses
  <2>. QED
    BY <1>1, <1>2, <2>1, <2>3, <2>4, FinishKeeps
<1>5. CASE ~(IF wait[t].mode = "all" THEN wait[t].reached = Count(t) ELSE wait[t].reached # 0)
           /\ wait[t].timeout = "immediate"
  <2>1. Finish(t, "deadline_exceeded")
    BY <1>5 DEF PollEnd
  <2>2. Truthful(t, "deadline_exceeded")
    BY NothingReturned DEF Truthful
  <2>. QED
    BY <1>1, <1>2, <2>1, <2>2, FinishKeeps
<1>6. CASE ~(IF wait[t].mode = "all" THEN wait[t].reached = Count(t) ELSE wait[t].reached # 0)
           /\ wait[t].timeout # "immediate"
  <2>1. PICK w : w = [wait[t] EXCEPT !.next = 1]
    OBVIOUS
  <2>2. Set(t, w) /\ Goto(t, "register")
    BY <1>6, <2>1 DEF PollEnd
  <2>3. 1 \in Nat \ {0}
    OBVIOUS
  <2>4. Keeps(t, w) /\ w.live /\ w.registered = 0 /\ w.result = wait[t].result /\ w.next = 1
    BY <1>0, <1>2, <2>1, <2>3 DEF Keeps, WaitSet
  <2>5. w.next <= Count(t) + 1
    BY <1>3, <2>4
  <2>. QED
    BY <1>1, <2>2, <2>4, <2>5, PollGoes
<1>. QED
  BY <1>4, <1>5, <1>6

----------------------------------------------------------------------------
(* A wait begins.                                                          *)

LEMMA CallWaitKeeps ==
  ASSUME Inv, WInv, NEW t \in Threads, stack[t] = <<>>, todo[t] # <<>>, CallWait(t, Head(todo[t]))
  PROVE  Inv' /\ WInv'
<1>0. TypedWait /\ ScriptInv /\ BaseInv /\ ActiveInv /\ CallbackTyped /\ CallbackInv /\ Typed
  BY DEF WInv, Inv
<1>1. PICK c : c = Head(todo[t])
  OBVIOUS
<1>2. PICK w : w = [NoWait EXCEPT !.mode = c.mode, !.operands = c.operands, !.timeout = c.timeout,
                                  !.live = TRUE, !.remaining = Len(c.operands)]
  OBVIOUS
<1>3. PICK pc \in {"poll_value", "register"} :
        pc = IF Len(c.operands) = 1 \/ c.timeout = "immediate" THEN "poll_value" ELSE "register"
  OBVIOUS
<1>4. /\ c.op = "wait" /\ \A i \in 1..Len(c.operands) : alive[c.operands[i].sem]
      /\ \A i \in 1..Len(c.operands) : tp[c.operands[i].tp].state \in Ended
      /\ Begin(t, Frame(pc, None)) /\ Set(t, w) /\ UNCHANGED <<semVars, tp>>
  BY <1>1, <1>2, <1>3 DEF CallWait
<1>5. c \in Calls /\ c.operands # <<>>
  BY <1>0, <1>1, <1>4, CallsOwned
<1>6. /\ c.operands \in Seq(Operands) /\ w \in WaitSet
      /\ w.operands = c.operands /\ w.live /\ w.remaining = Len(c.operands)
      /\ w.failure = "ok" /\ w.completed = {} /\ w.next = 1 /\ w.registered = 0 /\ w.reached = 0
      /\ w.result = None
  <2>1. /\ c.mode \in {"all", "any"} /\ c.operands \in Seq(Operands)
        /\ c.timeout \in {"immediate", "finite", "infinite"}
    BY <1>4, <1>5 DEF Calls
  <2>2. Len(c.operands) \in Int /\ 1 \in Nat \ {0} /\ 0 \in Nat /\ 0 \in Int
    BY <2>1, LenProperties
  <2>3. PICK n : n = notification_initialize
    OBVIOUS
  <2>4. n \in NoteSet
    BY <2>3 DEF notification_initialize, NoteSet
  <2>5. w = [mode |-> c.mode, operands |-> c.operands, timeout |-> c.timeout, live |-> TRUE,
             remaining |-> Len(c.operands), failure |-> "ok", note |-> n, completed |-> {},
             token |-> 0, next |-> 1, registered |-> 0, reached |-> 0, polled |-> FALSE,
             status |-> "ok", result |-> None]
    BY <1>2, <2>3 DEF NoWait
  <2>6. "ok" \in Statuses
    BY DEF Statuses
  <2>7. w \in WaitSet
    BY <2>1, <2>2, <2>4, <2>5, <2>6 DEF WaitSet
  <2>. QED
    BY <2>1, <2>5, <2>7
<1>7. /\ wait' \in [Threads -> WaitSet] /\ wait'[t] = w
      /\ \A u \in Threads : u # t => wait'[u] = wait[u]
  BY <1>0, <1>4, <1>6 DEF TypedWait, Set
<1>8. PICK f : f = Frame(pc, None)
  OBVIOUS
<1>9. pc \in BasePcs
  BY DEF BasePcs, WaitPcs, CallbackPcs
<1>10. f \in FrameSet /\ f.pc = pc /\ f.list = {}
  <2>1. pc \in CallPcs \cup WaitPcs
    BY <1>9, BasePcPlain
  <2>. QED
    BY <1>8, <2>1, NewFrame
<1>11. Unmoved /\ UNCHANGED <<timeline_value, failure_status, alive, tp>>
  BY <1>4 DEF Unmoved, semVars
<1>12. Inv'
  <2>1. FrameOK(t, f) /\ Claim(f) = {} /\ f.pc # "acquire_insert"
    BY <1>9, <1>10, BasePcPlain, PlainFrame
  <2>2. Begin(t, f)
    BY <1>4, <1>8
  <2>. QED
    BY <1>10, <1>11, <2>1, <2>2, QuietBegin
<1>13. stack'[t] = <<f>> /\ \A u \in Threads : u # t => stack'[u] = stack[u]
  BY <1>0, <1>4, <1>8 DEF Begin, Typed
<1>14. Len(stack'[t]) = 1 /\ stack'[t][1] = f /\ stack'[t] # <<>>
  BY <1>13
<1>15. BasePc(t)' = pc
  BY <1>10, <1>14 DEF BasePc
<1>16. TypedWait' /\ ~wait[t].live
  BY <1>0, <1>7 DEF TypedWait, BaseInv
<1>17. ScriptInv'
  BY <1>0, <1>1, <1>4, <1>6, <1>7, ScriptShrinks
<1>18. BaseInv'
  <2>1. SUFFICES ASSUME NEW u \in Threads
                 PROVE  /\ \A i \in 1..Len(stack'[u]) :
                             stack'[u][i].pc \in BasePcs => i = Len(stack'[u]) /\ wait'[u].live
                        /\ wait'[u].live => stack'[u] # <<>> /\ stack'[u][Len(stack'[u])].pc \in BasePcs
    BY DEF BaseInv, BasePc
  <2>2. CASE u # t
    BY <1>0, <1>7, <1>13, <2>2 DEF BaseInv, BasePc
  <2>3. CASE u = t
    <3>1. \A i \in 1..1 : i = 1
      OBVIOUS
    <3>. QED
      BY <1>6, <1>7, <1>9, <1>10, <1>14, <2>3, <3>1
  <2>. QED
    BY <2>2, <2>3
<1>19. ASSUME NEW v \in Threads, NEW p
       PROVE  /\ Calling(v, p) => stack'[v] = stack[v] /\ v # t
              /\ Calling(v, p)' => stack'[v] = stack[v] /\ v # t
  <2>1. ~Calling(t, p) /\ ~Calling(t, p)'
    BY <1>9, <1>10, <1>14, PcsApart DEF Calling
  <2>. QED
    BY <1>13, <2>1
<1>20. ASSUME NEW u \in Threads, u # t PROVE Beside(t, u) /\ WaitOK(u)'
  <2>1. wait'[u] = wait[u] /\ BasePc(u)' = BasePc(u) /\ Grows
    BY <1>7, <1>11, <1>13, <1>20, GrowsStill DEF BasePc
  <2>2. WaitOK(u) /\ (wait[u].live => \A i \in Indexes(u) : alive'[Sem(u, i)])
    BY <1>11 DEF WInv, WaitOK, PhaseOK, Phase
  <2>3. Beside(t, u)
    BY <1>11, <1>19, <2>1, <2>2 DEF Beside, Calling
  <2>. QED
    BY <1>0, <1>12, <2>2, <2>3, BesideKeeps
<1>21. /\ Indexes(t)' = 1..Len(c.operands) /\ Count(t)' = Len(c.operands) /\ Len(c.operands) \in Nat
       /\ \A i : /\ Sem(t, i)' = c.operands[i].sem /\ Value(t, i)' = c.operands[i].value
                 /\ Tp(t, i)' = c.operands[i].tp
  BY <1>6, <1>7, LenProperties DEF Indexes, Count, Sem, Value, Tp
<1>22. Begun(t)' = 0 /\ \A i \in Indexes(t)' : i \in Nat /\ i >= 1 /\ ~(i <= Begun(t)')
  <2>1. Begun(t)' = 0
    BY <1>6, <1>7, <1>15 DEF Begun
  <2>. QED
    BY <1>21, <2>1
<1>23. WaitOK(t)'
  <2>1. PhaseOK(t)'
    <3>1. ~Cleaning(t)'
      BY <1>15 DEF Cleaning
    <3>2. \A i \in Indexes(t)' : alive'[Sem(t, i)']
      BY <1>4, <1>11, <1>21
    <3>3. Phase(t)'
      BY <1>5, <1>6, <1>7, <1>15, <1>21, <3>1, <3>2 DEF Phase
    <3>. QED
      BY <3>3 DEF PhaseOK
  <2>2. OperandOK(t)'
    BY <1>22 DEF OperandOK
  <2>3. QuietOK(t)'
    BY <1>4, <1>11, <1>21 DEF QuietOK
  <2>4. CompletedOK(t)'
    BY <1>6, <1>7 DEF CompletedOK
  <2>5. CountOK(t)'
    <3>1. Counted(t)' = {}
      BY <1>22 DEF Counted
    <3>2. Cardinality(Counted(t)') = 0
      BY <3>1, FS_EmptySet
    <3>3. wait'[t].remaining = Count(t)' - 0
      BY <1>6, <1>7, <1>21
    <3>. QED
      BY <3>2, <3>3 DEF CountOK
  <2>6. FailureOK(t)'
    BY <1>6, <1>7, <1>22 DEF FailureOK
  <2>7. StatusOK(t)'
    <3>1. Truthful(t, wait[t].result)'
      BY <1>6, <1>7, NothingReturned DEF Truthful
    <3>. QED
      BY <1>15, <3>1 DEF StatusOK, Cleaning, Truthful
  <2>8. PollOK(t)'
    <3>1. \A i \in Indexes(t)' : ~(i < 1)
      BY <1>22
    <3>. QED
      BY <1>6, <1>7, <1>15, <3>1 DEF PollOK
  <2>. QED
    BY <2>1, <2>2, <2>3, <2>4, <2>5, <2>6, <2>7, <2>8 DEF WaitOK
<1>24. ASSUME NEW u \in Threads, NEW i \in Indexes(u), Active(u, i)
       PROVE  u # t /\ i \in Indexes(u)' /\ Active(u, i)' /\ Tp(u, i)' = Tp(u, i) /\ wait'[u] = wait[u]
  <2>1. u # t
    BY <1>16, <1>24 DEF Active
  <2>2. wait'[u] = wait[u] /\ BasePc(u)' = BasePc(u)
    BY <1>7, <1>13, <2>1 DEF BasePc
  <2>. QED
    BY <1>24, <2>1, <2>2, SameWait
<1>25. ActiveInv'
  BY <1>0, <1>11, <1>24 DEF ActiveInv
<1>26. CallbackTyped'
  <2>1. SUFFICES ASSUME NEW u \in Threads, stack'[u] # <<>>, stack'[u][1].pc \in CallbackPcs
                 PROVE  stack'[u][1].tp \in Timepoints
    BY DEF CallbackTyped
  <2>2. u # t
    BY <1>9, <1>10, <1>14, <2>1, PcsApart
  <2>. QED
    BY <1>0, <1>13, <2>1, <2>2 DEF CallbackTyped
<1>27. CallbackInv'
  <2>1. SUFFICES ASSUME NEW u \in Threads, NEW p \in Timepoints, Calling(u, p)'
                 PROVE  /\ tp'[p].state = "answered" /\ stack'[u][1].status = tp'[p].status
                        /\ \A v \in Threads : Calling(v, p)' => v = u
                        /\ \E x \in Threads : \E i \in Indexes(x)' :
                             Active(x, i)' /\ Tp(x, i)' = p /\ p \notin wait'[x].completed
    BY DEF CallbackInv
  <2>2. \A v \in Threads : Calling(v, p)' => Calling(v, p) /\ stack'[v] = stack[v]
    BY <1>19 DEF Calling
  <2>3. /\ tp[p].state = "answered" /\ stack[u][1].status = tp[p].status
        /\ \A v \in Threads : Calling(v, p) => v = u
        /\ \E x \in Threads : \E i \in Indexes(x) :
             Active(x, i) /\ Tp(x, i) = p /\ p \notin wait[x].completed
    BY <1>0, <2>1, <2>2 DEF CallbackInv
  <2>. QED
    BY <1>11, <1>24, <2>1, <2>2, <2>3
<1>28. \A u \in Threads : WaitOK(u)'
  BY <1>20, <1>23
<1>. QED
  BY <1>12, <1>16, <1>17, <1>18, <1>25, <1>26, <1>27, <1>28 DEF WInv

----------------------------------------------------------------------------
(* A wait registers its next operand.                                      *)

\* The wait starts acquire_timepoint for the timepoint p of operand n.
Registering(t, n, p) ==
  /\ wait[t].live /\ stack[t] # <<>> /\ stack[t][1].pc \in BasePcs /\ wait' = wait
  /\ BasePc(t) = "register" /\ BasePc(t)' = "registered"
  /\ n = wait[t].next /\ n = wait[t].registered + 1 /\ n \in Indexes(t)
  /\ p = Tp(t, n) /\ p \in Timepoints
  /\ UNCHANGED <<timeline_value, failure_status, alive, todo>>
  /\ \A u \in Threads : u # t => stack'[u] = stack[u]
  /\ stack'[t] # <<>> /\ Len(stack'[t]) = 2
  /\ stack'[t][1].pc = "acquire_failure" /\ stack'[t][2].pc = "registered"
  /\ \A q \in Timepoints : q # p => tp'[q] = tp[q]
  /\ tp'[p].state = "acquiring" /\ tp'[p].callback = "wait"
  /\ tp'[p].sem = Sem(t, n) /\ tp'[p].min = Value(t, n)
  /\ \A q \in Timepoints : tp'[q].state = "detached" => tp[q].state = "detached"

LEMMA RegisterBegins ==
  ASSUME Inv, WInv, NEW t \in Threads, WaitRegister(t)
  PROVE  /\ Inv' /\ \E n, p : Registering(t, n, p)
         /\ Operand(t).tp \in Timepoints /\ Operand(t).sem \in Semaphores
         /\ \E r : r.min = Operand(t).value /\ Registers(Operand(t).tp, Operand(t).sem, r)
         /\ alive[Operand(t).sem]
<1>0. TypedWait /\ WaitOK(t)
  BY DEF WInv
<1>1. At(t, "register") /\ ~AtEnd(t) /\ UNCHANGED <<semVars, todo, wait>> /\ "register" \in BasePcs
  BY DEF WaitRegister, BasePcs, WaitPcs, CallbackPcs
<1>2. /\ wait[t].live /\ Phase(t) /\ BasePc(t) = "register" /\ stack[t] # <<>> /\ stack[t] = <<Top(t)>>
      /\ Top(t) \in FrameSet /\ Top(t).list = {} /\ Top(t).pc = "register" /\ Top(t) = stack[t][1]
  BY <1>1, OwnTop
<1>3. /\ Count(t) \in Nat /\ wait[t].next \in Nat /\ wait[t].registered \in Nat
      /\ wait[t].next <= Count(t) /\ wait[t].next = wait[t].registered + 1
  BY <1>0, <1>1, <1>2, WaitFacts DEF AtEnd, Phase
<1>4. PICK n \in Indexes(t), p \in Timepoints, s \in Semaphores, v \in Nat :
         /\ n = wait[t].next /\ p = Operand(t).tp /\ s = Operand(t).sem /\ v = Operand(t).value
         /\ p = Tp(t, n) /\ s = Sem(t, n) /\ v = Value(t, n)
  BY <1>0, <1>3, OperandFacts
<1>5. PICK q : q = Acquiring(s, v)
  OBVIOUS
<1>6. PICK r : r = [q EXCEPT !.callback = "wait"]
  OBVIOUS
<1>7. PICK h : h = Frame("acquire_failure", s)
  OBVIOUS
<1>8. PICK g : g = [h EXCEPT !.tp = p]
  OBVIOUS
<1>9. PICK f : f = [Top(t) EXCEPT !.pc = "registered"]
  OBVIOUS
<1>10. tp' = [tp EXCEPT ![p] = r] /\ stack' = [stack EXCEPT ![t] = <<g, f>> \o Tail(@)]
  BY <1>4, <1>5, <1>6, <1>7, <1>8, <1>9 DEF WaitRegister
<1>11. /\ r \in TimepointSet /\ r.state = "acquiring" /\ r.sem = s /\ r.min = v /\ r.callback = "wait"
       /\ r.late <=> Failed(s)
  <2>1. PICK b \in BOOLEAN : b = Failed(s)
    BY DEF Failed
  <2>2. q = [state |-> "acquiring", sem |-> s, min |-> v, late |-> b, status |-> "ok",
             callback |-> "user", target |-> None, targetValue |-> 0]
    BY <1>5, <2>1 DEF Acquiring, IdleTimepoint
  <2>3. "ok" \in Statuses /\ "acquiring" \in TimepointStates
    BY DEF Statuses, TimepointStates
  <2>4. r = [state |-> "acquiring", sem |-> s, min |-> v, late |-> b, status |-> "ok",
             callback |-> "wait", target |-> None, targetValue |-> 0]
    BY <1>6, <2>2
  <2>5. r \in TimepointSet
    BY <2>3, <2>4 DEF TimepointSet
  <2>. QED
    BY <2>1, <2>4, <2>5
<1>12. /\ g \in FrameSet /\ g.pc = "acquire_failure" /\ g.sem = s /\ g.tp = p /\ g.list = {}
  <2>1. "acquire_failure" \in CallPcs \cup WaitPcs
    BY DEF CallPcs, AcquirePcs
  <2>2. h \in FrameSet /\ h.pc = "acquire_failure" /\ h.sem = s /\ h.list = {}
    BY <1>7, <2>1, NewFrame
  <2>. QED
    BY <1>8, <2>2 DEF FrameSet
<1>13. f \in FrameSet /\ f.pc = "registered" /\ f.list = {}
  <2>1. "registered" \in CallPcs \cup WaitPcs
    BY DEF WaitPcs
  <2>. QED
    BY <1>2, <1>9, <2>1, GotoFrame
<1>14. stack \in [Threads -> Seq(FrameSet)] /\ tp \in [Timepoints -> TimepointSet]
  BY DEF Inv, Typed
<1>15. stack'[t] = <<g, f>> /\ \A u \in Threads : u # t => stack'[u] = stack[u]
  <2>1. Tail(stack[t]) = <<>>
    BY <1>2
  <2>2. <<g, f>> \o <<>> = <<g, f>>
    BY <1>12, <1>13
  <2>. QED
    BY <1>10, <1>14, <2>1, <2>2
<1>16. /\ Len(stack'[t]) = 2 /\ stack'[t][1] = g /\ stack'[t][2] = f /\ stack'[t] # <<>>
       /\ stack'[t] \in Seq(FrameSet) /\ Len(stack[t]) = 1
  BY <1>2, <1>12, <1>13, <1>15
<1>17. stack' \in [Threads -> Seq(FrameSet)]
  BY <1>10, <1>14, <1>16
<1>18. Shape(t, 2, -1)
  <2>1. \A i \in 1..2 : ~(i > 2)
    OBVIOUS
  <2>2. \A j \in 2..1 : FALSE
    OBVIOUS
  <2>. QED
    BY <1>15, <1>16, <1>17, <2>1, <2>2 DEF Shape
<1>19. tp[p].state \in Ended
  <2>1. Begun(t) = wait[t].registered
    BY <1>2, <1>3 DEF Begun
  <2>2. ~Active(t, n)
    BY <1>3, <1>4, <2>1 DEF Active
  <2>. QED
    BY <1>0, <1>4, <2>2 DEF WaitOK, QuietOK
<1>20. Registers(p, s, r)
  BY <1>1, <1>10, <1>11, <1>19 DEF Registers, semVars
<1>21. Inv'
  <2>1. RegisterFrame(g, s, p)
    BY <1>12 DEF RegisterFrame
  <2>2. \A x, y : ~Collects(stack[t][1], x, y)
    BY <1>2 DEF Collects
  <2>3. RegisterStack(t, 2, -1, g)
    BY <1>13, <1>16, <1>18, <2>2 DEF RegisterStack
  <2>4. todo' \in [Threads -> Seq(Calls)]
    BY <1>1 DEF Inv, Typed
  <2>. QED
    BY <1>20, <2>1, <2>3, <2>4, RegisterStep
<1>22. /\ tp'[p] = r /\ \A x \in Timepoints : x # p => tp'[x] = tp[x]
  BY <1>10, <1>14
<1>23. BasePc(t)' = "registered"
  BY <1>13, <1>16 DEF BasePc
<1>24. \A x \in Timepoints : tp'[x].state = "detached" => tp[x].state = "detached"
  BY <1>11, <1>22
<1>25. Registering(t, n, p)
  BY <1>1, <1>2, <1>3, <1>4, <1>11, <1>12, <1>13, <1>15, <1>16, <1>22, <1>23, <1>24
     DEF Registering, semVars
<1>26. alive[s]
  BY <1>2, <1>4 DEF Phase
<1>. QED
  BY <1>4, <1>11, <1>20, <1>21, <1>25, <1>26

LEMMA RegisteringFacts ==
  ASSUME WInv, NEW t \in Threads, NEW n, NEW p, Registering(t, n, p)
  PROVE  /\ \A u \in Threads : \A i \in Indexes(u) : Tp(u, i) = p => u = t /\ i = n
         /\ Begun(t) = n - 1 /\ Begun(t)' = n /\ n \in Nat /\ n >= 1
         /\ \A i \in Indexes(t) : /\ i \in Nat
                                  /\ Active(t, i) <=> i <= n - 1
                                  /\ Active(t, i)' <=> i <= n
         /\ \A u \in Threads : ~Calling(u, p)
<1>0. TypedWait /\ ScriptInv /\ CallbackInv
  BY DEF WInv
<1>1. \A u \in Threads : \A i \in Indexes(u) : Tp(u, i) = p => u = t /\ i = n
  BY <1>0, Owned DEF Registering
<1>2. /\ wait[t].registered \in Nat /\ n \in Nat /\ n >= 1 /\ \A i \in Indexes(t) : i \in Nat
  BY <1>0, WaitFacts DEF Registering, Indexes
<1>3. Begun(t) = n - 1 /\ Begun(t)' = n
  BY <1>2 DEF Registering, Begun
<1>4. \A i \in Indexes(t) : (Active(t, i) <=> i <= n - 1) /\ (Active(t, i)' <=> i <= n)
  BY <1>3 DEF Registering, Active, Cleaning
<1>5. \A u \in Threads : ~Calling(u, p)
  <2>1. SUFFICES ASSUME NEW u \in Threads, Calling(u, p) PROVE FALSE
    OBVIOUS
  <2>2. PICK v \in Threads : \E i \in Indexes(v) : Active(v, i) /\ Tp(v, i) = p
    BY <1>0, <2>1 DEF CallbackInv, Registering
  <2>3. Active(t, n) /\ n \in Indexes(t)
    BY <1>1, <2>2
  <2>. QED
    BY <1>2, <1>4, <2>3
<1>. QED
  BY <1>1, <1>2, <1>3, <1>4, <1>5

\* No callback starts or ends.
LEMMA RegisteringCallbacks ==
  ASSUME NEW t \in Threads, NEW n, NEW p, Registering(t, n, p), NEW v \in Threads
  PROVE  /\ \A q : Calling(v, q) => v # t /\ stack'[v] = stack[v]
         /\ \A q : Calling(v, q)' => v # t /\ stack'[v] = stack[v]
<1>1. \A q : ~Calling(t, q) /\ ~Calling(t, q)'
  <2>1. "acquire_failure" \notin CallbackPcs
    BY DEF CallbackPcs
  <2>. QED
    BY <2>1, PcsApart DEF Registering, Calling
<1>. QED
  BY <1>1 DEF Registering

LEMMA RegisteringKeepsOwn ==
  ASSUME WInv, NEW t \in Threads, NEW n, NEW p, Registering(t, n, p)
  PROVE  WaitOK(t)'
<1>0. /\ TypedWait /\ WaitOK(t) /\ wait[t].live /\ wait' = wait
      /\ BasePc(t) = "register" /\ BasePc(t)' = "registered" /\ p \in Timepoints /\ p = Tp(t, n)
      /\ n \in Indexes(t)
  BY DEF WInv, Registering
<1>1. /\ \A i \in Indexes(t) : Tp(t, i) = p => i = n
      /\ Begun(t) = n - 1 /\ Begun(t)' = n /\ n \in Nat
      /\ \A i \in Indexes(t) : /\ i \in Nat /\ (Active(t, i) <=> i <= n - 1)
                               /\ (Active(t, i)' <=> i <= n)
  BY RegisteringFacts
<1>2. /\ Indexes(t)' = Indexes(t) /\ Count(t)' = Count(t)
      /\ \A i : Sem(t, i)' = Sem(t, i) /\ Value(t, i)' = Value(t, i) /\ Tp(t, i)' = Tp(t, i)
      /\ \A i \in Indexes(t) : Tp(t, i) \in Timepoints
  BY <1>0, WaitFacts DEF Indexes, Count, Sem, Value, Tp
<1>3. ASSUME NEW i \in Indexes(t), i # n PROVE tp'[Tp(t, i)] = tp[Tp(t, i)]
  BY <1>1, <1>2, <1>3 DEF Registering
<1>4. ASSUME NEW i \in Indexes(t), i # n PROVE i <= Begun(t)' <=> i <= Begun(t)
  BY <1>1, <1>4
<1>5. tp'[Tp(t, n)].state = "acquiring" /\ ~(n <= Begun(t))
  BY <1>0, <1>1 DEF Registering
<1>6. ASSUME NEW v \in Threads, NEW q
      PROVE (Recording(v, q)' <=> Recording(v, q)) /\ (Counting(v, q)' <=> Counting(v, q))
  BY RegisteringCallbacks DEF Recording, Counting, Calling
<1>7. Phase(t)
  BY <1>0 DEF WaitOK, PhaseOK
<1>8. PhaseOK(t)'
  <2>1. ~Polling(t)' /\ ~Cleaning(t)' /\ alive' = alive /\ n = wait[t].next /\ n = wait[t].registered + 1
    BY <1>0 DEF Polling, Cleaning, Registering
  <2>2. wait[t].next <= Count(t)
    BY <1>0, <2>1, WaitFacts DEF Indexes
  <2>3. \A i \in Indexes(t)' : alive'[Sem(t, i)']
    BY <1>2, <1>7, <2>1 DEF Phase
  <2>4. Phase(t)'
    BY <1>0, <1>2, <1>7, <2>1, <2>2, <2>3 DEF Phase
  <2>. QED
    BY <2>4 DEF PhaseOK
<1>9. OperandOK(t)'
  <2>1. SUFFICES ASSUME NEW i \in Indexes(t), i <= Begun(t)' PROVE Operates(t, i)'
    BY <1>2 DEF OperandOK
  <2>2. CASE i = n
    BY <1>0, <1>2, <2>2 DEF Operates, Registering
  <2>3. CASE i # n
    <3>1. Operates(t, i)
      BY <1>0, <1>4, <2>1, <2>3 DEF WaitOK, OperandOK
    <3>2. PICK q \in Timepoints : q = Tp(t, i)
      BY <1>2
    <3>3. tp'[q] = tp[q]
      BY <1>3, <2>3, <3>2
    <3>. QED
      BY <1>2, <3>1, <3>2, <3>3 DEF Operates, Registering
  <2>. QED
    BY <2>2, <2>3
<1>10. QuietOK(t)'
  <2>1. SUFFICES ASSUME NEW i \in Indexes(t), ~Active(t, i)' PROVE tp'[Tp(t, i)].state \in Ended
    BY <1>2 DEF QuietOK
  <2>2. i # n /\ ~Active(t, i)
    BY <1>1, <2>1
  <2>. QED
    BY <1>0, <1>3, <2>2 DEF WaitOK, QuietOK
<1>11. CompletedOK(t)'
  <2>1. SUFFICES ASSUME NEW q \in wait[t].completed
                 PROVE  tp'[q].state = "answered" /\ \E i \in Indexes(t) : i <= Begun(t)' /\ Tp(t, i) = q
    BY <1>0, <1>2 DEF CompletedOK
  <2>2. PICK i \in Indexes(t) : i <= Begun(t) /\ Tp(t, i) = q /\ tp[q].state = "answered"
    BY <1>0, <2>1 DEF WaitOK, CompletedOK
  <2>3. i # n
    BY <1>1, <2>2
  <2>. QED
    BY <1>3, <1>4, <2>2, <2>3
<1>12. CountOK(t)'
  <2>1. ASSUME NEW i \in Indexes(t)
        PROVE  (i <= Begun(t)' /\ tp'[Tp(t, i)].state = "answered")
               <=> (i <= Begun(t) /\ tp[Tp(t, i)].state = "answered")
    BY <1>3, <1>4, <1>5
  <2>2. Counted(t)' = Counted(t)
    BY <1>2, <1>6, <2>1 DEF Counted
  <2>. QED
    BY <1>0, <1>2, <2>2 DEF WaitOK, CountOK
<1>13. FailureOK(t)'
  <2>1. wait[t].failure # "ok" => Blamed(t, wait[t].failure)'
    BY <1>0, <1>2 DEF WaitOK, FailureOK, Blamed, Registering
  <2>2. ASSUME NEW i \in Indexes(t), i <= Begun(t)', tp'[Tp(t, i)].state = "answered",
               tp'[Tp(t, i)].status # "ok", wait[t].failure = "ok"
        PROVE  \E v \in Threads : Recording(v, Tp(t, i))'
    <3>1. i # n
      BY <1>5, <2>2
    <3>2. /\ i <= Begun(t) /\ tp[Tp(t, i)].state = "answered" /\ tp[Tp(t, i)].status # "ok"
      BY <1>3, <1>4, <2>2, <3>1
    <3>3. PICK v \in Threads : Recording(v, Tp(t, i))
      BY <1>0, <2>2, <3>2 DEF WaitOK, FailureOK
    <3>4. PICK q : q = Tp(t, i)
      OBVIOUS
    <3>5. Recording(v, q)'
      BY <1>6, <3>3, <3>4
    <3>. QED
      BY <1>2, <3>4, <3>5 DEF Recording, Calling
  <2>. QED
    BY <1>0, <1>2, <2>1, <2>2 DEF FailureOK
<1>14. StatusOK(t)'
  <2>1. wait'[t].result = None
    BY <1>0, <1>7 DEF Phase
  <2>2. Truthful(t, wait[t].result)'
    BY <2>1, NothingReturned DEF Truthful
  <2>. QED
    BY <1>0, <2>2 DEF StatusOK, Cleaning, Truthful
<1>15. PollOK(t)'
  BY <1>0 DEF PollOK, Polling
<1>. QED
  BY <1>8, <1>9, <1>10, <1>11, <1>12, <1>13, <1>14, <1>15 DEF WaitOK

LEMMA RegisterKeeps ==
  ASSUME Inv, WInv, NEW t \in Threads, WaitRegister(t)
  PROVE  Inv' /\ WInv'
<1>0. TypedWait /\ ScriptInv /\ BaseInv /\ ActiveInv /\ CallbackTyped /\ CallbackInv
  BY DEF WInv
<1>1. Inv' /\ \E n, p : Registering(t, n, p)
  BY RegisterBegins
<1>2. PICK n, p : Registering(t, n, p)
  BY <1>1
<1>3. /\ \A u \in Threads : \A i \in Indexes(u) : Tp(u, i) = p => u = t /\ i = n
      /\ n \in Nat /\ n >= 1
      /\ \A i \in Indexes(t) : /\ i \in Nat
                               /\ Active(t, i) <=> i <= n - 1
                               /\ Active(t, i)' <=> i <= n
      /\ \A u \in Threads : ~Calling(u, p)
  BY <1>2, RegisteringFacts
<1>4. /\ wait' = wait /\ UNCHANGED <<timeline_value, failure_status, alive, todo>> /\ p \in Timepoints
      /\ \A u \in Threads : u # t => stack'[u] = stack[u]
      /\ \A q \in Timepoints : q # p => tp'[q] = tp[q]
      /\ n \in Indexes(t) /\ p = Tp(t, n) /\ wait[t].live
  BY <1>2 DEF Registering
<1>5. ASSUME NEW v \in Threads
      PROVE  /\ \A q : Calling(v, q) => v # t /\ stack'[v] = stack[v]
             /\ \A q : Calling(v, q)' => v # t /\ stack'[v] = stack[v]
  BY <1>2, RegisteringCallbacks
<1>6. ASSUME NEW u \in Threads PROVE WaitOK(u)'
  <2>1. CASE u = t
    BY <1>2, <2>1, RegisteringKeepsOwn
  <2>2. CASE u # t
    <3>1. wait'[u] = wait[u] /\ BasePc(u)' = BasePc(u) /\ Grows
      BY <1>4, <2>2, GrowsStill DEF BasePc
    <3>2. WaitOK(u) /\ (wait[u].live => \A i \in Indexes(u) : alive'[Sem(u, i)])
      BY <1>4 DEF WInv, WaitOK, PhaseOK, Phase
    <3>3. \A i \in Indexes(u) : tp'[Tp(u, i)] = tp[Tp(u, i)]
      BY <1>0, <1>3, <1>4, <2>2, WaitFacts
    <3>4. Beside(t, u)
      BY <1>5, <3>1, <3>2, <3>3 DEF Beside, Calling
    <3>. QED
      BY <1>0, <1>1, <3>2, <3>4, BesideKeeps
  <2>. QED
    BY <2>1, <2>2
<1>7. TypedWait' /\ ScriptInv'
  BY <1>0, <1>4 DEF TypedWait, ScriptInv, Follows
<1>8. BaseInv'
  <2>1. SUFFICES ASSUME NEW u \in Threads
                 PROVE  /\ \A i \in 1..Len(stack'[u]) :
                             stack'[u][i].pc \in BasePcs => i = Len(stack'[u]) /\ wait'[u].live
                        /\ wait'[u].live => stack'[u] # <<>> /\ stack'[u][Len(stack'[u])].pc \in BasePcs
    BY DEF BaseInv, BasePc
  <2>2. CASE u # t
    BY <1>0, <1>4, <2>2 DEF BaseInv, BasePc
  <2>3. CASE u = t
    <3>1. \A i \in 1..2 : i = 1 \/ i = 2
      OBVIOUS
    <3>2. "acquire_failure" \notin BasePcs /\ "registered" \in BasePcs
      BY DEF BasePcs, WaitPcs, CallbackPcs
    <3>3. /\ stack'[t] # <<>> /\ Len(stack'[t]) = 2
          /\ stack'[t][1].pc = "acquire_failure" /\ stack'[t][2].pc = "registered"
      BY <1>2 DEF Registering
    <3>. QED
      BY <1>4, <2>3, <3>1, <3>2, <3>3
  <2>. QED
    BY <2>2, <2>3
<1>9. ASSUME NEW u \in Threads, NEW i \in Indexes(u), Active(u, i)
      PROVE  i \in Indexes(u)' /\ Active(u, i)' /\ Tp(u, i)' = Tp(u, i)
  <2>1. Indexes(u)' = Indexes(u) /\ Tp(u, i)' = Tp(u, i)
    BY <1>4 DEF Indexes, Tp
  <2>2. CASE u = t
    BY <1>3, <1>9, <2>1, <2>2
  <2>3. CASE u # t
    <3>1. wait'[u] = wait[u] /\ BasePc(u)' = BasePc(u)
      BY <1>4, <2>3 DEF BasePc
    <3>. QED
      BY <1>9, <2>1, <3>1, SameWait
  <2>. QED
    BY <2>2, <2>3
<1>10. ActiveInv'
  <2>1. SUFFICES ASSUME NEW q \in Timepoints, tp'[q].callback = "wait", tp'[q].state \notin Ended
                 PROVE  \E u \in Threads : \E i \in Indexes(u)' : Active(u, i)' /\ Tp(u, i)' = q
    BY DEF ActiveInv
  <2>2. CASE q = p
    <3>1. n \in Indexes(t)' /\ Tp(t, n)' = p /\ Active(t, n)'
      BY <1>3, <1>4 DEF Indexes, Tp
    <3>. QED
      BY <2>2, <3>1
  <2>3. CASE q # p
    <3>1. \E u \in Threads : \E i \in Indexes(u) : Active(u, i) /\ Tp(u, i) = q
      BY <1>0, <1>4, <2>1, <2>3 DEF ActiveInv
    <3>. QED
      BY <1>9, <3>1
  <2>. QED
    BY <2>2, <2>3
<1>11. CallbackTyped'
  <2>1. SUFFICES ASSUME NEW u \in Threads, stack'[u] # <<>>, stack'[u][1].pc \in CallbackPcs
                 PROVE  stack'[u][1].tp \in Timepoints
    BY DEF CallbackTyped
  <2>2. PICK q : q = stack'[u][1].tp
    OBVIOUS
  <2>3. Calling(u, q)'
    BY <2>1, <2>2 DEF Calling
  <2>. QED
    BY <1>0, <1>5, <2>1, <2>3 DEF CallbackTyped
<1>12. CallbackInv'
  <2>1. SUFFICES ASSUME NEW u \in Threads, NEW q \in Timepoints, Calling(u, q)'
                 PROVE  /\ tp'[q].state = "answered" /\ stack'[u][1].status = tp'[q].status
                        /\ \A v \in Threads : Calling(v, q)' => v = u
                        /\ \E x \in Threads : \E i \in Indexes(x)' :
                             Active(x, i)' /\ Tp(x, i)' = q /\ q \notin wait'[x].completed
    BY DEF CallbackInv
  <2>2. \A v \in Threads : Calling(v, q)' => Calling(v, q) /\ stack'[v] = stack[v]
    BY <1>5 DEF Calling
  <2>3. /\ tp[q].state = "answered" /\ stack[u][1].status = tp[q].status
        /\ \A v \in Threads : Calling(v, q) => v = u
        /\ \E x \in Threads : \E i \in Indexes(x) :
             Active(x, i) /\ Tp(x, i) = q /\ q \notin wait[x].completed
    BY <1>0, <2>1, <2>2 DEF CallbackInv
  <2>4. q # p
    BY <1>3, <2>1, <2>2
  <2>. QED
    BY <1>4, <1>9, <2>1, <2>2, <2>3, <2>4
<1>. QED
  BY <1>1, <1>6, <1>7, <1>8, <1>10, <1>11, <1>12 DEF WInv

----------------------------------------------------------------------------
(* The callbacks: a thread touches the state of the wait v, whose operand  *)
(* j has the timepoint p.                                                  *)

CallbackOf(t, v, j, p) ==
  /\ stack[t] # <<>> /\ stack[t][1].pc \in CallbackPcs /\ stack[t][1].tp = p /\ p \in Timepoints
  /\ tp[p].state = "answered" /\ stack[t][1].status = tp[p].status
  /\ \A u \in Threads : Calling(u, p) => u = t
  /\ v \in Threads /\ wait[v].live /\ j \in Indexes(v) /\ j <= Begun(v) /\ Tp(v, j) = p
  /\ \A u \in Threads : \A i \in Indexes(u) : Tp(u, i) = p => u = v /\ i = j
  /\ p \notin wait[v].completed /\ WaiterOf(p) = v

CallbackMoves(t, v, p, w) ==
  /\ UNCHANGED <<timeline_value, failure_status, timepoints, mutex, alive, tp, todo>> /\ Set(v, w)
  /\ w \in WaitSet /\ w.operands = wait[v].operands /\ w.mode = wait[v].mode /\ w.live
  /\ w.next = wait[v].next /\ w.registered = wait[v].registered /\ w.result = wait[v].result
  /\ w.status = wait[v].status /\ w.reached = wait[v].reached /\ w.polled = wait[v].polled
  /\ w.remaining <= wait[v].remaining
  /\ wait[v].failure # "ok" => w.failure # "ok"
  /\ \/ (\E to \in CallbackPcs : Goto(t, to)) /\ w.completed = wait[v].completed
     \/ Return(t) /\ w.completed = wait[v].completed \cup {p}

LEMMA CallbackRuns ==
  ASSUME Inv, WInv, NEW t \in Threads, NEW pc \in CallbackPcs, At(t, pc)
  PROVE  /\ Top(t) = stack[t][1] /\ Top(t).pc = pc
         /\ \E v, j : CallbackOf(t, v, j, Top(t).tp)
<1>0. TypedWait /\ ScriptInv /\ CallbackTyped /\ CallbackInv
  BY DEF WInv
<1>1. stack[t] # <<>> /\ Top(t).pc = pc /\ Top(t) = stack[t][1]
  BY TopFacts DEF At, Inv
<1>2. PICK p \in Timepoints : p = Top(t).tp
  BY <1>0, <1>1 DEF CallbackTyped
<1>3. Calling(t, p)
  BY <1>1, <1>2 DEF Calling
<1>4. /\ tp[p].state = "answered" /\ stack[t][1].status = tp[p].status
      /\ \A u \in Threads : Calling(u, p) => u = t
      /\ \E v \in Threads : \E j \in Indexes(v) :
           Active(v, j) /\ Tp(v, j) = p /\ p \notin wait[v].completed
  BY <1>0, <1>3 DEF CallbackInv
<1>5. PICK v \in Threads : \E j \in Indexes(v) :
        Active(v, j) /\ Tp(v, j) = p /\ p \notin wait[v].completed
  BY <1>4
<1>6. PICK j \in Indexes(v) : Active(v, j) /\ Tp(v, j) = p /\ p \notin wait[v].completed
  BY <1>5
<1>7. \A u \in Threads : \A i \in Indexes(u) : Tp(u, i) = p => u = v /\ i = j
  BY <1>0, <1>6, Owned
<1>8. WaiterOf(p) = v
  <2>1. \A u \in Threads : (\E i \in 1..Count(u) : wait[u].operands[i].tp = p) <=> u = v
    BY <1>6, <1>7 DEF Indexes, Count, Tp
  <2>. QED
    BY <2>1 DEF WaiterOf
<1>9. CallbackOf(t, v, j, p)
  BY <1>1, <1>2, <1>4, <1>6, <1>7, <1>8 DEF CallbackOf, Active
<1>. QED
  BY <1>1, <1>2, <1>9

LEMMA CallbackPcPlain ==
  \A pc \in CallbackPcs :
    /\ pc \notin AcquirePcs /\ pc \notin CallPcs /\ pc # "acquire_insert" /\ pc # "fail" /\ pc \notin BasePcs
    /\ pc \notin {"recheck", "merge", "mark", "collect", "flush", "deinit", "cancel", "dispatch", "registered"}
    /\ pc \in CallPcs \cup WaitPcs
BY DEF BasePcs, WaitPcs, CallbackPcs, AcquirePcs, CallPcs, SignalPcs

\* The stack of the thread that runs the callback.
LEMMA CallbackStack ==
  ASSUME Inv, WInv, NEW t \in Threads, stack[t] # <<>>, stack[t][1].pc \in CallbackPcs,
         (\E to \in CallbackPcs : Goto(t, to)) \/ Return(t),
         UNCHANGED <<timeline_value, failure_status, timepoints, mutex, alive, tp, todo>>,
         \A u \in Threads : wait'[u].live = wait[u].live
  PROVE  /\ Inv' /\ BaseInv' /\ \A u \in Threads : u # t => stack'[u] = stack[u]
         /\ \A u \in Threads : wait[u].live => stack'[u] # <<>> /\ BasePc(u)' = BasePc(u)
         /\ \A to \in CallbackPcs : Goto(t, to) =>
              /\ stack'[t] # <<>> /\ stack'[t][1].pc = to /\ stack'[t][1].tp = stack[t][1].tp
              /\ stack'[t][1].status = stack[t][1].status
         /\ Return(t) => stack'[t] = <<>> \/ stack'[t][1].pc \notin CallbackPcs
<1>0. /\ stack \in [Threads -> Seq(FrameSet)] /\ Top(t) = stack[t][1] /\ Top(t) \in FrameSet
      /\ FrameOK(t, Top(t)) /\ BaseInv /\ Unmoved /\ todo' = todo /\ stack[t][1].pc \notin BasePcs
  BY TopFacts, CallbackPcPlain DEF Inv, Typed, WInv, Unmoved
<1>1. Top(t).list = {} /\ \A s, v : ~Collects(Top(t), s, v)
  BY <1>0, CallbackPcPlain DEF FrameOK, Collects
<1>2. ASSUME NEW to \in CallbackPcs, Goto(t, to)
      PROVE  /\ stack'[t] # <<>> /\ stack'[t][1].pc = to /\ stack'[t][1].tp = stack[t][1].tp
             /\ stack'[t][1].status = stack[t][1].status
             /\ Inv' /\ Shape(t, 1, 0)
  <2>1. PICK g : g = [Top(t) EXCEPT !.pc = to]
    OBVIOUS
  <2>2. /\ g \in FrameSet /\ g.pc = to /\ g.list = {} /\ g.tp = Top(t).tp /\ g.status = Top(t).status
    BY <1>0, <1>1, <2>1, CallbackPcPlain, GotoFrame
  <2>3. Become(t, g)
    BY <1>2, <2>1 DEF Goto
  <2>4. FrameOK(t, g) /\ Claim(g) = {} /\ g.pc # "acquire_insert"
    BY <2>2, CallbackPcPlain, PlainFrame
  <2>5. Inv'
    BY <1>0, <1>1, <2>2, <2>3, <2>4, QuietBecome
  <2>6. Shape(t, 1, 0) /\ stack'[t][1] = g
    BY <1>0, <2>2, <2>3, BecomeShape
  <2>7. stack'[t] # <<>>
    BY <1>0, <2>3 DEF Become
  <2>. QED
    BY <1>0, <2>2, <2>5, <2>6, <2>7
<1>3. ASSUME Return(t) PROVE Inv' /\ Shape(t, 0, 1) /\ (stack'[t] = <<>> \/ stack'[t][1].pc \notin CallbackPcs)
  <2>1. Inv' /\ Shape(t, 0, 1)
    BY <1>0, <1>1, <1>3, QuietReturn, ReturnShape
  <2>2. ASSUME stack'[t] # <<>> PROVE stack'[t][1].pc \notin CallbackPcs
    <3>1. Len(stack'[t]) \in Nat /\ Len(stack'[t]) >= 1
      BY <2>1, <2>2, EmptySeq, LenProperties DEF Shape
    <3>2. 2 \in 2..Len(stack[t]) /\ stack'[t][1] = stack[t][2]
      BY <2>1, <3>1 DEF Shape
    <3>3. stack[t][2].pc \in {"dispatch", "registered"}
      <4>1. \A i \in 2..Len(stack[t]) : stack[t][i].pc \in {"dispatch", "registered"}
        BY DEF Inv, FrameInv
      <4>. QED
        BY <3>2, <4>1
    <3>. QED
      BY <3>2, <3>3, PcsApart
  <2>. QED
    BY <2>1, <2>2
<1>4. PICK k \in 0..1, d \in Int : Shape(t, k, d) /\ \A i \in 1..k : stack'[t][i].pc \notin BasePcs
  <2>1. CASE Return(t)
    <3>1. 0 \in 0..1 /\ 1 \in Int /\ \A i \in 1..0 : FALSE
      OBVIOUS
    <3>. QED
      BY <1>3, <2>1, <3>1
  <2>2. CASE \E to \in CallbackPcs : Goto(t, to)
    <3>1. 1 \in 0..1 /\ 0 \in Int /\ \A i \in 1..1 : i = 1
      OBVIOUS
    <3>2. PICK to \in CallbackPcs : Goto(t, to)
      BY <2>2
    <3>3. Shape(t, 1, 0) /\ stack'[t][1].pc \notin BasePcs
      BY <1>2, <3>2, CallbackPcPlain
    <3>. QED
      BY <3>1, <3>3
  <2>. QED
    BY <2>1, <2>2
<1>5. k \in 0..2
  OBVIOUS
<1>6. /\ BaseInv'
      /\ \A u \in Threads : wait[u].live => stack'[u] # <<>> /\ BasePc(u)' = BasePc(u)
  BY <1>0, <1>4, <1>5, BaseKept
<1>7. \A u \in Threads : u # t => stack'[u] = stack[u]
  BY <1>4 DEF Shape
<1>. QED
  BY <1>2, <1>3, <1>6, <1>7

\* What the step leaves alone.
LEMMA CallbackLeaves ==
  ASSUME Inv, WInv, NEW t \in Threads, NEW v, NEW j, NEW p, CallbackOf(t, v, j, p),
         NEW w, CallbackMoves(t, v, p, w)
  PROVE  /\ Inv' /\ BaseInv' /\ TypedWait' /\ ScriptInv' /\ wait'[v] = w
         /\ \A u \in Threads : u # v => wait'[u] = wait[u]
         /\ \A u \in Threads : u # t => stack'[u] = stack[u]
         /\ \A u \in Threads :
              /\ wait'[u].live = wait[u].live
              /\ wait[u].live => BasePc(u)' = BasePc(u) /\ Begun(u)' = Begun(u)
              /\ Indexes(u)' = Indexes(u) /\ Count(u)' = Count(u)
              /\ \A i : /\ Sem(u, i)' = Sem(u, i) /\ Value(u, i)' = Value(u, i) /\ Tp(u, i)' = Tp(u, i)
                        /\ Active(u, i)' <=> Active(u, i)
         /\ \A q : Calling(t, q)' => q = p /\ w.completed = wait[v].completed
         /\ \A q : Calling(t, q)' => stack'[t][1].status = stack[t][1].status
<1>0. TypedWait /\ ScriptInv /\ v \in Threads /\ wait[v].live
  BY DEF WInv, CallbackOf
<1>1. /\ wait' \in [Threads -> WaitSet] /\ wait'[v] = w /\ \A u \in Threads : u # v => wait'[u] = wait[u]
  BY <1>0 DEF CallbackMoves, Set, TypedWait
<1>2. ASSUME NEW u \in Threads
      PROVE  /\ wait'[u].live = wait[u].live /\ wait'[u].operands = wait[u].operands
             /\ wait'[u].registered = wait[u].registered /\ wait'[u].next = wait[u].next
  <2>1. w.live = wait[v].live
    BY <1>0 DEF CallbackMoves, TypedWait, WaitSet
  <2>2. CASE u = v
    BY <1>1, <2>1, <2>2 DEF CallbackMoves
  <2>3. CASE u # v
    BY <1>1, <2>3
  <2>. QED
    BY <2>2, <2>3
<1>3. /\ Inv' /\ BaseInv' /\ \A u \in Threads : u # t => stack'[u] = stack[u]
      /\ \A u \in Threads : wait[u].live => stack'[u] # <<>> /\ BasePc(u)' = BasePc(u)
      /\ \A to \in CallbackPcs : Goto(t, to) =>
              /\ stack'[t] # <<>> /\ stack'[t][1].pc = to /\ stack'[t][1].tp = stack[t][1].tp
              /\ stack'[t][1].status = stack[t][1].status
      /\ Return(t) => stack'[t] = <<>> \/ stack'[t][1].pc \notin CallbackPcs
  <2>1. stack[t] # <<>> /\ stack[t][1].pc \in CallbackPcs
    BY DEF CallbackOf
  <2>2. /\ (\E to \in CallbackPcs : Goto(t, to)) \/ Return(t)
        /\ UNCHANGED <<timeline_value, failure_status, timepoints, mutex, alive, tp, todo>>
    BY DEF CallbackMoves
  <2>. QED
    BY <1>2, <2>1, <2>2, CallbackStack
<1>4. ASSUME NEW u \in Threads
      PROVE  /\ wait[u].live => BasePc(u)' = BasePc(u) /\ Begun(u)' = Begun(u)
             /\ Indexes(u)' = Indexes(u) /\ Count(u)' = Count(u)
             /\ \A i : /\ Sem(u, i)' = Sem(u, i) /\ Value(u, i)' = Value(u, i) /\ Tp(u, i)' = Tp(u, i)
                       /\ Active(u, i)' <=> Active(u, i)
  <2>1. /\ Indexes(u)' = Indexes(u) /\ Count(u)' = Count(u)
        /\ \A i : Sem(u, i)' = Sem(u, i) /\ Value(u, i)' = Value(u, i) /\ Tp(u, i)' = Tp(u, i)
    BY <1>2 DEF Indexes, Count, Sem, Value, Tp
  <2>2. wait[u].live => BasePc(u)' = BasePc(u) /\ Begun(u)' = Begun(u)
    BY <1>2, <1>3 DEF Begun
  <2>3. \A i : Active(u, i)' <=> Active(u, i)
    BY <1>2, <2>2 DEF Active, Cleaning
  <2>. QED
    BY <2>1, <2>2, <2>3
<1>5. TypedWait' /\ ScriptInv'
  BY <1>0, <1>1, <1>2 DEF TypedWait, ScriptInv, Follows, CallbackMoves
<1>6. ASSUME NEW q, Calling(t, q)'
      PROVE  q = p /\ w.completed = wait[v].completed /\ stack'[t][1].status = stack[t][1].status
  <2>1. ~Return(t)
    BY <1>3, <1>6 DEF Calling
  <2>2. (\E to \in CallbackPcs : Goto(t, to)) /\ w.completed = wait[v].completed
    BY <2>1 DEF CallbackMoves
  <2>3. stack'[t][1].tp = stack[t][1].tp /\ stack'[t][1].status = stack[t][1].status
    BY <1>3, <2>2
  <2>. QED
    BY <1>6, <2>2, <2>3 DEF Calling, CallbackOf
<1>. QED
  BY <1>1, <1>2, <1>3, <1>4, <1>5, <1>6

\* What is known of the wait itself, but for its count and its failure.
LEMMA CallbackKeepsOwn ==
  ASSUME Inv, WInv, NEW t \in Threads, NEW v, NEW j, NEW p, CallbackOf(t, v, j, p),
         NEW w, CallbackMoves(t, v, p, w), CountOK(v)', FailureOK(v)'
  PROVE  WaitOK(v)'
<1>0. /\ TypedWait /\ v \in Threads /\ wait[v].live /\ WaitOK(v) /\ j \in Indexes(v) /\ j <= Begun(v)
      /\ Tp(v, j) = p /\ tp[p].state = "answered" /\ wait[v] \in WaitSet
  BY WaitFacts DEF WInv, CallbackOf
<1>1. /\ wait'[v] = w /\ wait'[v].live = wait[v].live /\ BasePc(v)' = BasePc(v) /\ Begun(v)' = Begun(v)
      /\ Indexes(v)' = Indexes(v) /\ Count(v)' = Count(v)
      /\ \A i : /\ Sem(v, i)' = Sem(v, i) /\ Value(v, i)' = Value(v, i) /\ Tp(v, i)' = Tp(v, i)
                /\ Active(v, i)' <=> Active(v, i)
  <2>1. \A u \in Threads :
              /\ wait'[u].live = wait[u].live
              /\ wait[u].live => BasePc(u)' = BasePc(u) /\ Begun(u)' = Begun(u)
              /\ Indexes(u)' = Indexes(u) /\ Count(u)' = Count(u)
              /\ \A i : /\ Sem(u, i)' = Sem(u, i) /\ Value(u, i)' = Value(u, i) /\ Tp(u, i)' = Tp(u, i)
                        /\ Active(u, i)' <=> Active(u, i)
    BY CallbackLeaves
  <2>2. wait'[v] = w
    BY CallbackLeaves
  <2>3. PICK u \in Threads : u = v
    BY <1>0
  <2>. QED
    BY <1>0, <2>1, <2>2, <2>3
<1>2. /\ w.operands = wait[v].operands /\ w.mode = wait[v].mode
      /\ w.next = wait[v].next /\ w.registered = wait[v].registered /\ w.result = wait[v].result
      /\ w.status = wait[v].status /\ w.reached = wait[v].reached /\ w.polled = wait[v].polled
      /\ UNCHANGED <<timeline_value, failure_status, alive, tp>> /\ w \in WaitSet
  BY DEF CallbackMoves
<1>3. (Polling(v)' <=> Polling(v)) /\ (Cleaning(v)' <=> Cleaning(v))
  BY <1>1 DEF Polling, Cleaning
<1>4. PhaseOK(v)'
  <2>1. Phase(v)
    BY <1>0 DEF WaitOK, PhaseOK
  <2>2. Phase(v)'
    BY <1>1, <1>2, <1>3, <2>1 DEF Phase
  <2>. QED
    BY <2>2 DEF PhaseOK
<1>5. OperandOK(v)'
  <2>1. SUFFICES ASSUME NEW i \in Indexes(v), i <= Begun(v) PROVE Operates(v, i)'
    BY <1>1 DEF OperandOK
  <2>2. Operates(v, i)
    BY <1>0, <2>1 DEF WaitOK, OperandOK
  <2>. QED
    BY <1>1, <1>2, <2>2 DEF Operates
<1>6. QuietOK(v)'
  BY <1>0, <1>1, <1>2 DEF WaitOK, QuietOK
<1>7. CompletedOK(v)'
  <2>1. SUFFICES ASSUME NEW q \in w.completed
                 PROVE  tp[q].state = "answered" /\ \E i \in Indexes(v) : i <= Begun(v) /\ Tp(v, i) = q
    BY <1>1, <1>2 DEF CompletedOK
  <2>2. q \in wait[v].completed \/ q = p
    BY <2>1 DEF CallbackMoves
  <2>. QED
    BY <1>0, <2>2 DEF WaitOK, CompletedOK
<1>8. \A i : HasReached(v, i)' <=> HasReached(v, i)
  BY <1>1, <1>2 DEF HasReached
<1>9. StatusOK(v)'
  <2>1. \A status : Truthful(v, status)' <=> Truthful(v, status)
    BY <1>1, <1>2, <1>8 DEF Truthful, Satisfied, Blamed
  <2>2. Condition(v) => Condition(v)'
    <3>1. /\ w.remaining \in Int /\ wait[v].remaining \in Int /\ w.remaining <= wait[v].remaining
          /\ Count(v) \in Nat /\ (wait[v].failure # "ok" => w.failure # "ok")
      BY <1>0, <1>2, WaitFacts DEF WaitSet, CallbackMoves
    <3>. QED
      BY <1>1, <1>2, <3>1 DEF Condition
  <2>3. PICK a, b : a = wait[v].result /\ b = wait[v].status
    OBVIOUS
  <2>4. Truthful(v, a)' /\ (Cleaning(v) => Truthful(v, b)')
    BY <1>0, <2>1, <2>3 DEF WaitOK, StatusOK
  <2>5. BasePc(v) = "status" => Condition(v)'
    BY <1>0, <2>2 DEF WaitOK, StatusOK
  <2>. QED
    BY <1>1, <1>2, <1>3, <2>3, <2>4, <2>5 DEF StatusOK, Truthful
<1>10. PollOK(v)'
  <2>1. SUFFICES ASSUME Polling(v) PROVE PollOK(v)'
    BY <1>3 DEF PollOK
  <2>2. PICK n, r : n = wait[v].next /\ r = wait[v].reached
    OBVIOUS
  <2>3. /\ r < n
        /\ r + 1 = n => \A i \in Indexes(v) : i < n => HasReached(v, i)'
        /\ r # 0 => \E i \in Indexes(v) : HasReached(v, i)'
        /\ BasePc(v) = "poll_failure" /\ wait[v].polled => HasReached(v, n)'
    BY <1>0, <1>8, <2>1, <2>2 DEF WaitOK, PollOK
  <2>. QED
    BY <1>1, <1>2, <2>2, <2>3 DEF PollOK, HasReached, Sem, Value
<1>. QED
  BY <1>4, <1>5, <1>6, <1>7, <1>9, <1>10 DEF WaitOK

LEMMA CallbackKeeps ==
  ASSUME Inv, WInv, NEW t \in Threads, NEW v, NEW j, NEW p, CallbackOf(t, v, j, p),
         NEW w, CallbackMoves(t, v, p, w), CountOK(v)', FailureOK(v)'
  PROVE  Inv' /\ WInv'
<1>0. /\ TypedWait /\ ScriptInv /\ ActiveInv /\ CallbackTyped /\ CallbackInv /\ v \in Threads
      /\ stack[t] # <<>> /\ stack[t][1].tp = p /\ p \in Timepoints /\ tp[p].state = "answered"
      /\ stack[t][1].status = tp[p].status /\ stack[t][1].pc \in CallbackPcs
      /\ \A u \in Threads : \A i \in Indexes(u) : Tp(u, i) = p => u = v /\ i = j
  BY DEF WInv, CallbackOf
<1>1. /\ Inv' /\ BaseInv' /\ TypedWait' /\ ScriptInv' /\ wait'[v] = w
      /\ \A u \in Threads : u # v => wait'[u] = wait[u]
      /\ \A u \in Threads : u # t => stack'[u] = stack[u]
      /\ \A u \in Threads : /\ wait[u].live => BasePc(u)' = BasePc(u)
                            /\ Indexes(u)' = Indexes(u)
                            /\ \A i : Tp(u, i)' = Tp(u, i) /\ (Active(u, i)' <=> Active(u, i))
      /\ \A q : Calling(t, q)' => q = p /\ w.completed = wait[v].completed
      /\ \A q : Calling(t, q)' => stack'[t][1].status = stack[t][1].status
  BY CallbackLeaves
<1>2. UNCHANGED <<timeline_value, failure_status, alive, tp>>
  BY DEF CallbackMoves
<1>3. Calling(t, p) /\ \A u \in Threads : Calling(u, p) => u = t
  BY <1>0 DEF Calling, CallbackOf
<1>4. ASSUME NEW u \in Threads PROVE WaitOK(u)'
  <2>1. CASE u = v
    BY <2>1, CallbackKeepsOwn
  <2>2. CASE u # v
    <3>1. WaitOK(u) /\ (wait[u].live => \A i \in Indexes(u) : alive'[Sem(u, i)])
      BY <1>2 DEF WInv, WaitOK, PhaseOK, Phase
    <3>2. Grows /\ wait'[u] = wait[u]
      BY <1>1, <1>2, <2>2, GrowsStill
    <3>3. ASSUME NEW x \in Threads, NEW i \in Indexes(u)
          PROVE  /\ Calling(x, Tp(u, i)) => stack'[x] # <<>> /\ stack'[x][1] = stack[x][1]
                 /\ Calling(x, Tp(u, i))' => stack[x] # <<>> /\ stack'[x][1] = stack[x][1]
      <4>1. Tp(u, i) # p /\ Tp(u, i)' = Tp(u, i)
        BY <1>0, <1>1, <2>2
      <4>2. Calling(x, Tp(u, i)) => x # t
        BY <1>0, <4>1 DEF Calling
      <4>3. PICK q : q = Tp(u, i)
        OBVIOUS
      <4>4. Calling(x, Tp(u, i))' => Calling(x, q)'
        BY <4>1, <4>3 DEF Calling
      <4>5. Calling(x, q)' => x # t
        BY <1>1, <4>1, <4>3
      <4>6. x # t => stack'[x] = stack[x]
        BY <1>1
      <4>. QED
        BY <4>2, <4>4, <4>5, <4>6 DEF Calling
    <3>4. Beside(t, u)
      BY <1>1, <1>2, <3>1, <3>2, <3>3 DEF Beside
    <3>. QED
      BY <1>0, <1>1, <3>1, <3>4, BesideKeeps
  <2>. QED
    BY <2>1, <2>2
<1>5. ActiveInv'
  BY <1>0, <1>1, <1>2 DEF ActiveInv
<1>6. CallbackTyped'
  <2>1. SUFFICES ASSUME NEW u \in Threads, stack'[u] # <<>>, stack'[u][1].pc \in CallbackPcs
                 PROVE  stack'[u][1].tp \in Timepoints
    BY DEF CallbackTyped
  <2>2. PICK q : q = stack'[u][1].tp
    OBVIOUS
  <2>3. Calling(u, q)'
    BY <2>1, <2>2 DEF Calling
  <2>4. CASE u = t
    BY <1>0, <1>1, <2>2, <2>3, <2>4
  <2>5. CASE u # t
    BY <1>0, <1>1, <2>1, <2>5 DEF CallbackTyped
  <2>. QED
    BY <2>4, <2>5
<1>7. CallbackInv'
  <2>1. SUFFICES ASSUME NEW u \in Threads, NEW q \in Timepoints, Calling(u, q)'
                 PROVE  /\ tp'[q].state = "answered" /\ stack'[u][1].status = tp'[q].status
                        /\ \A x \in Threads : Calling(x, q)' => x = u
                        /\ \E x \in Threads : \E i \in Indexes(x)' :
                             Active(x, i)' /\ Tp(x, i)' = q /\ q \notin wait'[x].completed
    BY DEF CallbackInv
  <2>2. \A x \in Threads : Calling(x, q)' => Calling(x, q)
    <3>1. Calling(t, q)' => q = p
      BY <1>1
    <3>. QED
      BY <1>1, <1>3, <3>1 DEF Calling
  <2>3. /\ tp[q].state = "answered" /\ stack[u][1].status = tp[q].status
        /\ \A x \in Threads : Calling(x, q) => x = u
    BY <1>0, <2>1, <2>2 DEF CallbackInv
  <2>4. PICK x \in Threads : \E i \in Indexes(x) :
             Active(x, i) /\ Tp(x, i) = q /\ q \notin wait[x].completed
    BY <1>0, <2>1, <2>2 DEF CallbackInv
  <2>5. PICK i \in Indexes(x) : Active(x, i) /\ Tp(x, i) = q /\ q \notin wait[x].completed
    BY <2>4
  <2>6. stack'[u][1].status = stack[u][1].status
    BY <1>1, <2>1
  <2>7. q \notin wait'[x].completed
    <3>1. CASE x # v
      BY <1>1, <2>5, <3>1
    <3>2. CASE x = v /\ q # p
      BY <1>1, <2>5, <3>2 DEF CallbackMoves
    <3>3. CASE x = v /\ q = p
      <4>1. u = t
        BY <1>3, <2>1, <2>2, <3>3
      <4>2. w.completed = wait[v].completed
        BY <1>1, <2>1, <4>1
      <4>. QED
        BY <1>1, <2>5, <3>3, <4>2
    <3>. QED
      BY <3>1, <3>2, <3>3
  <2>. QED
    BY <1>1, <1>2, <2>2, <2>3, <2>5, <2>6, <2>7
<1>. QED
  BY <1>1, <1>4, <1>5, <1>6, <1>7 DEF WInv

LEMMA CountedFinite ==
  ASSUME TypedWait, NEW t \in Threads
  PROVE  IsFiniteSet(Counted(t)) /\ Cardinality(Counted(t)) \in Nat
<1>1. PICK n \in Nat : n = Len(wait[t].operands)
  BY WaitFacts
<1>2. IsFiniteSet(1..n)
  BY FS_Interval
<1>3. Counted(t) \subseteq 1..n
  BY <1>1 DEF Counted, Indexes
<1>. QED
  BY <1>2, <1>3, FS_Subset, FS_CardinalityType

\* Of the callbacks, only that of p goes on.
LEMMA CallbackOthers ==
  ASSUME Inv, WInv, NEW t \in Threads, NEW v, NEW j, NEW p, CallbackOf(t, v, j, p),
         NEW w, CallbackMoves(t, v, p, w), NEW u \in Threads, NEW q, u # t \/ q # p
  PROVE  /\ Calling(u, q)' <=> Calling(u, q)
         /\ Counting(u, q)' <=> Counting(u, q)
         /\ Recording(u, q)' <=> Recording(u, q)
<1>1. /\ \A x \in Threads : x # t => stack'[x] = stack[x]
      /\ \A x : Calling(t, x)' => x = p
  BY CallbackLeaves
<1>2. Calling(t, q) => q = p
  BY DEF Calling, CallbackOf
<1>3. CASE u # t
  BY <1>1, <1>3 DEF Calling, Counting, Recording
<1>4. CASE u = t /\ q # p
  BY <1>1, <1>2, <1>4 DEF Counting, Recording
<1>. QED
  BY <1>3, <1>4

LEMMA CallbackCounts ==
  ASSUME Inv, WInv, NEW t \in Threads, NEW v, NEW j, NEW p, CallbackOf(t, v, j, p),
         NEW w, CallbackMoves(t, v, p, w), w.remaining = wait[v].remaining,
         Counting(t, p)' <=> Counting(t, p)
  PROVE  CountOK(v)'
<1>0. v \in Threads /\ wait[v].live /\ WaitOK(v) /\ tp' = tp
  BY DEF WInv, CallbackOf, CallbackMoves
<1>1. /\ wait'[v] = w
      /\ \A u \in Threads : /\ wait[u].live => Begun(u)' = Begun(u)
                            /\ Indexes(u)' = Indexes(u) /\ Count(u)' = Count(u)
                            /\ \A i : Tp(u, i)' = Tp(u, i)
  BY CallbackLeaves
<1>2. ASSUME NEW u \in Threads, NEW q PROVE Counting(u, q)' <=> Counting(u, q)
  BY CallbackOthers
<1>3. Counted(v)' = Counted(v)
  <2>1. Indexes(v)' = Indexes(v) /\ Begun(v)' = Begun(v) /\ \A i : Tp(v, i)' = Tp(v, i)
    BY <1>0, <1>1
  <2>. QED
    BY <1>0, <1>2, <2>1 DEF Counted
<1>4. Count(v)' = Count(v)
  BY <1>0, <1>1
<1>. QED
  BY <1>0, <1>1, <1>3, <1>4 DEF WaitOK, CountOK

LEMMA CallbackBlames ==
  ASSUME Inv, WInv, NEW t \in Threads, NEW v, NEW j, NEW p, CallbackOf(t, v, j, p),
         NEW w, CallbackMoves(t, v, p, w),
         w.failure # "ok" /\ w.failure # wait[v].failure => Blamed(v, w.failure),
         Recording(t, p) /\ w.failure = "ok" => tp[p].status = "ok"
  PROVE  FailureOK(v)'
<1>0. /\ v \in Threads /\ wait[v].live /\ WaitOK(v) /\ UNCHANGED <<tp, failure_status>>
      /\ \A i \in Indexes(v) : Tp(v, i) = p => i = j
      /\ \A u \in Threads : Calling(u, p) => u = t
      /\ (wait[v].failure # "ok" => w.failure # "ok")
  BY DEF WInv, CallbackOf, CallbackMoves
<1>1. /\ wait'[v] = w
      /\ \A u \in Threads : /\ wait[u].live => Begun(u)' = Begun(u)
                            /\ Indexes(u)' = Indexes(u)
                            /\ \A i : Tp(u, i)' = Tp(u, i) /\ Sem(u, i)' = Sem(u, i)
  BY CallbackLeaves
<1>2. Indexes(v)' = Indexes(v) /\ Begun(v)' = Begun(v) /\ \A i : Tp(v, i)' = Tp(v, i) /\ Sem(v, i)' = Sem(v, i)
  BY <1>0, <1>1
<1>3. w.failure # "ok" => Blamed(v, w.failure)'
  <2>1. w.failure # "ok" => Blamed(v, w.failure)
    BY <1>0 DEF WaitOK, FailureOK
  <2>. QED
    BY <1>0, <1>2, <2>1 DEF Blamed
<1>4. ASSUME NEW i \in Indexes(v), i <= Begun(v), tp[Tp(v, i)].state = "answered",
             tp[Tp(v, i)].status # "ok", w.failure = "ok"
      PROVE  \E u \in Threads : Recording(u, Tp(v, i))'
  <2>1. PICK u \in Threads : Recording(u, Tp(v, i))
    BY <1>0, <1>4 DEF WaitOK, FailureOK
  <2>2. PICK q : q = Tp(v, i)
    OBVIOUS
  <2>3. u # t \/ q # p
    BY <1>4, <2>1, <2>2
  <2>4. Recording(u, q)'
    BY <2>1, <2>2, <2>3, CallbackOthers
  <2>. QED
    BY <1>2, <2>2, <2>4 DEF Recording, Calling
<1>5. Blamed(v, wait[v].failure)' <=> Blamed(v, w.failure)'
  BY <1>1 DEF Blamed
<1>. QED
  BY <1>0, <1>1, <1>2, <1>3, <1>4, <1>5 DEF FailureOK, Blamed

LEMMA CallbackFailureKeeps ==
  ASSUME Inv, WInv, NEW t \in Threads, CallbackFailure(t)
  PROVE  Inv' /\ WInv'
<1>1. At(t, "cb_failure") /\ "cb_failure" \in CallbackPcs /\ "cb_count" \in CallbackPcs
  BY DEF CallbackFailure, CallbackStep, CallbackPcs
<1>2. Top(t) = stack[t][1] /\ Top(t).pc = "cb_failure" /\ \E v, j : CallbackOf(t, v, j, Top(t).tp)
  BY <1>1, CallbackRuns
<1>3. PICK v, j : CallbackOf(t, v, j, Top(t).tp)
  BY <1>2
<1>4. PICK p : p = Top(t).tp
  OBVIOUS
<1>5. /\ CallbackOf(t, v, j, p) /\ WaiterOf(Top(t).tp) = v /\ v \in Threads
      /\ Top(t).status = tp[p].status /\ wait[v].live
      /\ j \in Indexes(v) /\ Tp(v, j) = p /\ tp[p].state = "answered" /\ j <= Begun(v)
      /\ stack[t] # <<>> /\ stack[t][1].pc \in CallbackPcs /\ stack[t][1].tp = p
  BY <1>2, <1>3, <1>4 DEF CallbackOf
<1>6. PICK w : w = [wait[v] EXCEPT !.failure = RecordFailure(t)]
  OBVIOUS
<1>7. RecordFailure(t) = IF wait[v].failure = "ok" THEN tp[p].status ELSE wait[v].failure
  BY <1>5 DEF RecordFailure, Waited
<1>8. Goto(t, "cb_count") /\ Set(v, w) /\ UNCHANGED <<semVars, tp, todo>>
  BY <1>5, <1>6 DEF CallbackFailure, CallbackStep, Waited
<1>9. wait[v] \in WaitSet /\ tp[p].status \in Statuses /\ WaitOK(v)
  BY <1>5, WaitFacts DEF WInv, Inv, Typed, TimepointSet, CallbackOf
<1>10. RecordFailure(t) \in Statuses
  BY <1>7, <1>9 DEF WaitSet
<1>11. /\ w \in WaitSet /\ w.failure = RecordFailure(t) /\ w.operands = wait[v].operands
       /\ w.mode = wait[v].mode /\ w.live = wait[v].live /\ w.remaining = wait[v].remaining
       /\ w.next = wait[v].next /\ w.registered = wait[v].registered /\ w.result = wait[v].result
       /\ w.status = wait[v].status /\ w.reached = wait[v].reached /\ w.polled = wait[v].polled
       /\ w.completed = wait[v].completed
  BY <1>6, <1>9, <1>10 DEF WaitSet
<1>12. w.remaining <= wait[v].remaining
  BY <1>9, <1>11 DEF WaitSet
<1>13. CallbackMoves(t, v, p, w)
  BY <1>1, <1>5, <1>7, <1>8, <1>11, <1>12 DEF CallbackMoves, semVars
<1>14. /\ stack'[t] # <<>> /\ stack'[t][1].pc = "cb_count" /\ stack'[t][1].tp = p
  <2>1. \A u \in Threads : wait'[u].live = wait[u].live
    BY <1>5, <1>13, CallbackLeaves
  <2>2. UNCHANGED <<timeline_value, failure_status, timepoints, mutex, alive, tp, todo>>
    BY <1>8 DEF semVars
  <2>. QED
    BY <1>1, <1>5, <1>8, <2>1, <2>2, CallbackStack
<1>15. CountOK(v)'
  <2>1. Counting(t, p)' /\ Counting(t, p)
    BY <1>1, <1>2, <1>5, <1>14 DEF Counting, Calling
  <2>. QED
    BY <1>5, <1>11, <1>13, <2>1, CallbackCounts
<1>16. FailureOK(v)'
  <2>1. w.failure # "ok" /\ w.failure # wait[v].failure => Blamed(v, w.failure)
    <3>1. Operates(v, j)
      BY <1>5, <1>9 DEF WaitOK, OperandOK
    <3>2. tp[p].status # "ok" => failure_status[Sem(v, j)] = tp[p].status
      BY <1>5, <3>1 DEF Operates
    <3>. QED
      BY <1>5, <1>7, <1>11, <3>2 DEF Blamed
  <2>2. Recording(t, p) /\ w.failure = "ok" => tp[p].status = "ok"
    BY <1>7, <1>11
  <2>. QED
    BY <1>5, <1>13, <2>1, <2>2, CallbackBlames
<1>. QED
  BY <1>5, <1>13, <1>15, <1>16, CallbackKeeps

LEMMA CallbackCountKeeps ==
  ASSUME Inv, WInv, NEW t \in Threads, CallbackCount(t)
  PROVE  Inv' /\ WInv'
<1>1. At(t, "cb_count") /\ "cb_count" \in CallbackPcs /\ "cb_post" \in CallbackPcs
  BY DEF CallbackCount, CallbackStep, CallbackPcs
<1>2. Top(t) = stack[t][1] /\ Top(t).pc = "cb_count" /\ \E v, j : CallbackOf(t, v, j, Top(t).tp)
  BY <1>1, CallbackRuns
<1>3. PICK v, j : CallbackOf(t, v, j, Top(t).tp)
  BY <1>2
<1>4. PICK p : p = Top(t).tp
  OBVIOUS
<1>5. /\ CallbackOf(t, v, j, p) /\ WaiterOf(Top(t).tp) = v /\ v \in Threads /\ wait[v].live
      /\ j \in Indexes(v) /\ Tp(v, j) = p /\ tp[p].state = "answered" /\ j <= Begun(v)
      /\ \A i \in Indexes(v) : Tp(v, i) = p => i = j
      /\ \A u \in Threads : Calling(u, p) => u = t
      /\ stack[t] # <<>> /\ stack[t][1].pc \in CallbackPcs /\ stack[t][1].tp = p
  BY <1>2, <1>3, <1>4 DEF CallbackOf
<1>6. PICK w : w = [wait[v] EXCEPT !.remaining = @ - 1]
  OBVIOUS
<1>8. Goto(t, "cb_post") /\ Set(v, w) /\ UNCHANGED <<semVars, tp, todo>>
  BY <1>5, <1>6 DEF CallbackCount, CallbackStep, Waited
<1>9. wait[v] \in WaitSet /\ WaitOK(v) /\ wait[v].remaining \in Int /\ wait[v].remaining - 1 \in Int /\ TypedWait
  <2>1. wait[v] \in WaitSet /\ WaitOK(v) /\ wait[v].remaining \in Int /\ TypedWait
    BY <1>5, WaitFacts DEF WInv, WaitSet
  <2>. QED
    BY <2>1
<1>11. /\ w \in WaitSet /\ w.failure = wait[v].failure /\ w.operands = wait[v].operands
       /\ w.mode = wait[v].mode /\ w.live = wait[v].live /\ w.remaining = wait[v].remaining - 1
       /\ w.next = wait[v].next /\ w.registered = wait[v].registered /\ w.result = wait[v].result
       /\ w.status = wait[v].status /\ w.reached = wait[v].reached /\ w.polled = wait[v].polled
       /\ w.completed = wait[v].completed
  BY <1>6, <1>9 DEF WaitSet
<1>12. w.remaining <= wait[v].remaining
  BY <1>9, <1>11
<1>13. CallbackMoves(t, v, p, w)
  BY <1>1, <1>5, <1>8, <1>11, <1>12 DEF CallbackMoves, semVars
<1>14. /\ stack'[t] # <<>> /\ stack'[t][1].pc = "cb_post" /\ stack'[t][1].tp = p
  <2>1. \A u \in Threads : wait'[u].live = wait[u].live
    BY <1>5, <1>13, CallbackLeaves
  <2>2. UNCHANGED <<timeline_value, failure_status, timepoints, mutex, alive, tp, todo>>
    BY <1>8 DEF semVars
  <2>. QED
    BY <1>1, <1>5, <1>8, <2>1, <2>2, CallbackStack
<1>15. CountOK(v)'
  <2>0. /\ wait'[v] = w /\ tp' = tp
        /\ \A u \in Threads : /\ wait[u].live => Begun(u)' = Begun(u)
                              /\ Indexes(u)' = Indexes(u) /\ Count(u)' = Count(u)
                              /\ \A i : Tp(u, i)' = Tp(u, i)
    BY <1>5, <1>8, <1>13, CallbackLeaves
  <2>1. /\ Begun(v)' = Begun(v) /\ Indexes(v)' = Indexes(v) /\ Count(v)' = Count(v)
        /\ \A i : Tp(v, i)' = Tp(v, i)
    BY <1>5, <2>0
  <2>2. Counting(t, p) /\ \A u \in Threads : ~Counting(u, p)'
    <3>1. Counting(t, p)
      BY <1>1, <1>2, <1>5 DEF Counting, Calling
    <3>2. ~Counting(t, p)'
      BY <1>14 DEF Counting
    <3>3. ASSUME NEW u \in Threads, u # t PROVE ~Counting(u, p)'
      <4>1. ~Counting(u, p)
        BY <1>5, <3>3 DEF Counting
      <4>. QED
        BY <1>5, <1>13, <3>3, <4>1, CallbackOthers
    <3>. QED
      BY <3>1, <3>2, <3>3
  <2>3. ASSUME NEW u \in Threads, NEW i \in Indexes(v), i # j
        PROVE  Counting(u, Tp(v, i))' <=> Counting(u, Tp(v, i))
    <3>1. PICK q : q = Tp(v, i)
      OBVIOUS
    <3>2. q # p
      BY <1>5, <2>3, <3>1
    <3>3. Counting(u, q)' <=> Counting(u, q)
      BY <1>5, <1>13, <3>2, CallbackOthers
    <3>. QED
      BY <2>1, <3>1, <3>3 DEF Counting, Calling
  <2>4. j \notin Counted(v)
    BY <1>5, <2>2 DEF Counted
  <2>5. j \in Counted(v)'
    <3>1. \A u \in Threads : ~Counting(u, Tp(v, j))'
      BY <1>5, <2>1, <2>2 DEF Counting, Calling
    <3>. QED
      BY <1>5, <2>0, <2>1, <3>1 DEF Counted
  <2>6. \A i \in Indexes(v) : i # j => (i \in Counted(v)' <=> i \in Counted(v))
    BY <2>0, <2>1, <2>3 DEF Counted
  <2>7. Counted(v)' = Counted(v) \cup {j}
    <3>1. Counted(v)' \subseteq Indexes(v) /\ Counted(v) \subseteq Indexes(v)
      BY <2>1 DEF Counted
    <3>. QED
      BY <1>5, <2>5, <2>6, <3>1
  <2>8. IsFiniteSet(Counted(v)) /\ Cardinality(Counted(v)) \in Nat
    BY <1>5, <1>9, CountedFinite
  <2>9. Cardinality(Counted(v)') = Cardinality(Counted(v)) + 1
    BY <2>4, <2>7, <2>8, FS_AddElement
  <2>10. wait[v].remaining = Count(v) - Cardinality(Counted(v)) /\ Count(v) \in Nat
    BY <1>5, <1>9, WaitFacts DEF WaitOK, CountOK
  <2>11. wait'[v].remaining = Count(v)' - Cardinality(Counted(v)')
    BY <1>11, <2>0, <2>1, <2>8, <2>9, <2>10
  <2>. QED
    BY <2>11 DEF CountOK
<1>16. FailureOK(v)'
  <2>1. ~Recording(t, p)
    BY <1>2 DEF Recording
  <2>. QED
    BY <1>5, <1>11, <1>13, <2>1, CallbackBlames
<1>. QED
  BY <1>5, <1>13, <1>15, <1>16, CallbackKeeps

\* The callback posts, wakes and completes.
LEMMA CallbackEndKeeps ==
  ASSUME Inv, WInv, NEW t \in Threads, CallbackPost(t) \/ CallbackWake(t) \/ CallbackComplete(t)
  PROVE  Inv' /\ WInv'
<1>1. PICK pc \in {"cb_post", "cb_wake", "cb_complete"} : At(t, pc)
  BY DEF CallbackPost, CallbackWake, CallbackComplete, CallbackStep
<1>2. /\ pc \in CallbackPcs /\ {"cb_wake", "cb_complete"} \subseteq CallbackPcs
  BY DEF CallbackPcs
<1>3. Top(t) = stack[t][1] /\ Top(t).pc = pc /\ \E v, j : CallbackOf(t, v, j, Top(t).tp)
  BY <1>1, <1>2, CallbackRuns
<1>4. PICK v, j : CallbackOf(t, v, j, Top(t).tp)
  BY <1>3
<1>5. PICK p : p = Top(t).tp
  OBVIOUS
<1>6. /\ CallbackOf(t, v, j, p) /\ WaiterOf(Top(t).tp) = v /\ v \in Threads /\ wait[v].live
      /\ p \in Timepoints /\ stack[t] # <<>> /\ stack[t][1].pc \in CallbackPcs /\ stack[t][1].tp = p
  BY <1>3, <1>4, <1>5 DEF CallbackOf
<1>7. wait[v] \in WaitSet /\ wait[v].note \in NoteSet /\ wait[v].remaining \in Int /\ wait[v].completed \in SUBSET Timepoints
  BY <1>6, WaitFacts DEF WInv, WaitSet
<1>8. post(wait[v].note) \in NoteSet /\ futex_wake(wait[v].note) \in NoteSet
  BY <1>7, NotesTyped
<1>9. PICK w : CallbackMoves(t, v, p, w) /\ w.remaining = wait[v].remaining /\ w.failure = wait[v].failure
               /\ ((\E to \in {"cb_wake", "cb_complete"} : Goto(t, to)) \/ Return(t))
  <2>1. CASE CallbackPost(t)
    <3>1. PICK w : w = [wait[v] EXCEPT !.note = post(@)]
      OBVIOUS
    <3>2. post(wait[v].note) \in NoteSet
      BY <1>8
    <3>3. /\ w \in WaitSet /\ w.failure = wait[v].failure /\ w.operands = wait[v].operands
          /\ w.mode = wait[v].mode /\ w.live = wait[v].live /\ w.remaining = wait[v].remaining
          /\ w.next = wait[v].next /\ w.registered = wait[v].registered /\ w.result = wait[v].result
          /\ w.status = wait[v].status /\ w.reached = wait[v].reached /\ w.polled = wait[v].polled
          /\ w.completed = wait[v].completed
      BY <1>6, <1>7, <1>8, <3>1, <3>2 DEF WaitSet
    <3>4. w.remaining <= wait[v].remaining
      BY <1>7, <3>3
    <3>5. /\ Set(v, w) /\ UNCHANGED <<semVars, tp, todo>>
          /\ \E to \in {"cb_wake", "cb_complete"} : Goto(t, to)
      BY <1>6, <2>1, <3>1 DEF CallbackPost, CallbackStep, Waited
    <3>6. CallbackMoves(t, v, p, w)
      BY <1>2, <1>6, <3>3, <3>4, <3>5 DEF CallbackMoves, semVars
    <3>. QED
      BY <3>3, <3>5, <3>6
  <2>2. CASE CallbackWake(t)
    <3>1. PICK w : w = [wait[v] EXCEPT !.note = futex_wake(@)]
      OBVIOUS
    <3>2. futex_wake(wait[v].note) \in NoteSet
      BY <1>8
    <3>3. /\ w \in WaitSet /\ w.failure = wait[v].failure /\ w.operands = wait[v].operands
          /\ w.mode = wait[v].mode /\ w.live = wait[v].live /\ w.remaining = wait[v].remaining
          /\ w.next = wait[v].next /\ w.registered = wait[v].registered /\ w.result = wait[v].result
          /\ w.status = wait[v].status /\ w.reached = wait[v].reached /\ w.polled = wait[v].polled
          /\ w.completed = wait[v].completed
      BY <1>6, <1>7, <1>8, <3>1, <3>2 DEF WaitSet
    <3>4. w.remaining <= wait[v].remaining
      BY <1>7, <3>3
    <3>5. /\ Set(v, w) /\ UNCHANGED <<semVars, tp, todo>>
          /\ \E to \in {"cb_wake", "cb_complete"} : Goto(t, to)
      BY <1>6, <2>2, <3>1 DEF CallbackWake, CallbackStep, Waited
    <3>6. CallbackMoves(t, v, p, w)
      BY <1>2, <1>6, <3>3, <3>4, <3>5 DEF CallbackMoves, semVars
    <3>. QED
      BY <3>3, <3>5, <3>6
  <2>3. CASE CallbackComplete(t)
    <3>1. PICK w : w = [wait[v] EXCEPT !.completed = @ \cup {p}]
      OBVIOUS
    <3>2. wait[v].completed \cup {p} \in SUBSET Timepoints
      BY <1>6, <1>7
    <3>3. /\ w \in WaitSet /\ w.failure = wait[v].failure /\ w.operands = wait[v].operands
          /\ w.mode = wait[v].mode /\ w.live = wait[v].live /\ w.remaining = wait[v].remaining
          /\ w.next = wait[v].next /\ w.registered = wait[v].registered /\ w.result = wait[v].result
          /\ w.status = wait[v].status /\ w.reached = wait[v].reached /\ w.polled = wait[v].polled
          /\ w.completed = wait[v].completed \cup {p}
      BY <1>6, <1>7, <1>8, <3>1, <3>2 DEF WaitSet
    <3>4. w.remaining <= wait[v].remaining
      BY <1>7, <3>3
    <3>5. /\ Set(v, w) /\ UNCHANGED <<semVars, tp, todo>> /\ Return(t)
      BY <1>5, <1>6, <2>3, <3>1 DEF CallbackComplete, Waited
    <3>6. CallbackMoves(t, v, p, w)
      BY <1>2, <1>6, <3>3, <3>4, <3>5 DEF CallbackMoves, semVars
    <3>. QED
      BY <3>3, <3>5, <3>6
  <2>. QED
    BY <2>1, <2>2, <2>3
<1>10. ~Counting(t, p) /\ ~Recording(t, p) /\ ~Counting(t, p)'
  <2>1. ~Counting(t, p) /\ ~Recording(t, p)
    BY <1>3 DEF Counting, Recording
  <2>2. \A u \in Threads : wait'[u].live = wait[u].live
    BY <1>6, <1>9, CallbackLeaves
  <2>3. UNCHANGED <<timeline_value, failure_status, timepoints, mutex, alive, tp, todo>>
    BY <1>9 DEF CallbackMoves
  <2>4. (\E to \in CallbackPcs : Goto(t, to)) \/ Return(t)
    BY <1>2, <1>9
  <2>5. /\ \A to \in CallbackPcs : Goto(t, to) => stack'[t][1].pc = to
        /\ Return(t) => stack'[t] = <<>> \/ stack'[t][1].pc \notin CallbackPcs
    BY <1>6, <2>2, <2>3, <2>4, CallbackStack
  <2>6. ~Counting(t, p)'
    BY <1>2, <1>9, <2>5 DEF Counting, Calling
  <2>. QED
    BY <2>1, <2>6
<1>11. CountOK(v)'
  BY <1>6, <1>9, <1>10, CallbackCounts
<1>12. FailureOK(v)'
  BY <1>6, <1>9, <1>10, CallbackBlames
<1>. QED
  BY <1>6, <1>9, <1>11, <1>12, CallbackKeeps

----------------------------------------------------------------------------
(* Every step keeps the invariant.                                         *)

LEMMA WaitInitInv == WaitInit => Inv /\ WInv
<1>1. SUFFICES ASSUME WaitInit PROVE Inv /\ WInv
  OBVIOUS
<1>2. /\ wait = [t \in Threads |-> NoWait] /\ stack = [t \in Threads |-> <<>>]
      /\ todo \in Scripts /\ tp = [p \in Timepoints |-> IdleTimepoint]
  BY <1>1 DEF WaitInit, Init
<1>3. Inv
  BY <1>1, InitInv DEF WaitInit
<1>4. NoWait \in WaitSet
  <2>1. notification_initialize \in NoteSet
    BY DEF notification_initialize, NoteSet
  <2>2. 1 \in Nat \ {0} /\ <<>> \in Seq(Operands)
    OBVIOUS
  <2>. QED
    BY <2>1, <2>2 DEF NoWait, WaitSet, Statuses
<1>5. TypedWait
  BY <1>2, <1>4 DEF TypedWait
<1>6. \A t \in Threads : /\ ~wait[t].live /\ wait[t].operands = <<>> /\ Indexes(t) = {}
                         /\ wait[t].result = None /\ stack[t] = <<>>
  BY <1>2 DEF NoWait, Indexes
<1>7. ScriptInv
  <2>1. Follows(todo)
    BY <1>6 DEF Follows, CallsOf
  <2>. QED
    BY <1>2, <2>1 DEF ScriptInv
<1>8. BaseInv
  <2>1. \A t \in Threads : \A i \in 1..Len(stack[t]) : FALSE
    BY <1>2
  <2>. QED
    BY <1>6, <2>1 DEF BaseInv
<1>9. ActiveInv
  BY <1>2 DEF ActiveInv, IdleTimepoint, Ended
<1>10. CallbackTyped /\ CallbackInv
  BY <1>6 DEF CallbackTyped, CallbackInv, Calling
<1>11. ASSUME NEW t \in Threads PROVE WaitOK(t)
  <2>1. Truthful(t, wait[t].result)
    BY <1>6, WaitAssumption DEF Truthful, None
  <2>. QED
    BY <1>6, <2>1
    DEF WaitOK, PhaseOK, OperandOK, QuietOK, CompletedOK, CountOK, FailureOK, StatusOK, PollOK
<1>. QED
  BY <1>3, <1>5, <1>7, <1>8, <1>9, <1>10, <1>11 DEF WInv

\* One step of a thread.
WaitAction(t) ==
  \/ CallOther(t)
  \/ stack[t] = <<>> /\ todo[t] # <<>> /\ CallWait(t, Head(todo[t]))
  \/ Step(t) /\ UNCHANGED wait
  \/ WaitStep(t)
  \/ WaitWokenSpuriously(t) \/ WaitExpire(t)

LEMMA WaitActionKeeps ==
  ASSUME Inv, WInv, NEW t \in Threads, WaitAction(t)
  PROVE  Inv' /\ WInv'
<1>1. CASE CallOther(t) \/ (Step(t) /\ UNCHANGED wait)
  BY <1>1, CallKeepsWaits, StepKeepsWaits
<1>2. CASE stack[t] = <<>> /\ todo[t] # <<>> /\ CallWait(t, Head(todo[t]))
  BY <1>2, CallWaitKeeps
<1>3. CASE \/ WaitCheck(t) \/ WaitPrepare(t) \/ WaitRecheck(t) \/ WaitCommit(t) \/ WaitWoken(t)
           \/ WaitWokenSpuriously(t)
  BY <1>3, LoopStepsKeep
<1>4. CASE WaitStatus(t) \/ WaitExpire(t)
  BY <1>4, StatusKeeps
<1>5. CASE PollValue(t) \/ PollFailure(t) \/ PollEnd(t)
  BY <1>5, PollValueKeeps, PollFailureKeeps, PollEndKeeps
<1>6. CASE WaitRegister(t) \/ WaitRegistered(t)
  BY <1>6, RegisterKeeps, RegisteredKeeps
<1>7. CASE WaitCancel(t) \/ WaitJoin(t) \/ WaitEnd(t)
  BY <1>7, CancelsKeep, JoinKeeps, EndKeeps
<1>8. CASE CallbackFailure(t) \/ CallbackCount(t)
  BY <1>8, CallbackFailureKeeps, CallbackCountKeeps
<1>9. CASE CallbackPost(t) \/ CallbackWake(t) \/ CallbackComplete(t)
  BY <1>9, CallbackEndKeeps
<1>. QED
  BY <1>1, <1>2, <1>3, <1>4, <1>5, <1>6, <1>7, <1>8, <1>9 DEF WaitAction, WaitStep

LEMMA StutterWaits == WInv /\ UNCHANGED allVars => WInv'
<1>1. SUFFICES ASSUME WInv, UNCHANGED allVars PROVE WInv'
  OBVIOUS
<1>2. /\ timeline_value' = timeline_value /\ failure_status' = failure_status /\ alive' = alive
      /\ tp' = tp /\ stack' = stack /\ todo' = todo /\ wait' = wait
  BY <1>1 DEF allVars, vars
<1>3. TypedWait' /\ ScriptInv' /\ BaseInv' /\ ActiveInv' /\ CallbackTyped' /\ CallbackInv'
  BY <1>1, <1>2
  DEF WInv, TypedWait, ScriptInv, Follows, BaseInv, BasePc, ActiveInv, Active, Begun, Cleaning,
      Indexes, Tp, CallbackTyped, CallbackInv, Calling
<1>4. ASSUME NEW t \in Threads PROVE WaitOK(t)'
  <2>1. WaitOK(t)
    BY <1>1 DEF WInv
  <2>2. (PhaseOK(t) /\ OperandOK(t) /\ QuietOK(t) /\ CompletedOK(t))'
    BY <1>2, <2>1
    DEF WaitOK, PhaseOK, Phase, OperandOK, Operates, QuietOK, CompletedOK, Active, Begun,
        Cleaning, Polling, BasePc, Indexes, Count, Sem, Value, Tp
  <2>3. Counted(t)' = Counted(t)
    BY <1>2 DEF Counted, Indexes, Begun, BasePc, Tp, Counting, Calling
  <2>4. CountOK(t)' /\ FailureOK(t)'
    BY <1>2, <2>1, <2>3
    DEF WaitOK, CountOK, Count, FailureOK, Blamed, Begun, BasePc, Indexes, Sem, Tp, Recording,
       Calling
  <2>5. StatusOK(t)' /\ PollOK(t)'
    BY <1>2, <2>1
    DEF WaitOK, StatusOK, Truthful, Satisfied, HasReached, Blamed, Condition, Count, PollOK,
        Polling, Cleaning, BasePc, Indexes, Sem, Value
  <2>. QED
    BY <2>2, <2>4, <2>5 DEF WaitOK
<1>. QED
  BY <1>3, <1>4 DEF WInv

LEMMA WaitNextKeeps == Inv /\ WInv /\ [WaitNext]_allVars => Inv' /\ WInv'
<1>1. SUFFICES ASSUME Inv, WInv, [WaitNext]_allVars PROVE Inv' /\ WInv'
  OBVIOUS
<1>2. CASE UNCHANGED allVars
  BY <1>1, <1>2, StutterWaits, StutterInv DEF allVars
<1>3. CASE WaitNext
  BY <1>1, <1>3, WaitActionKeeps DEF WaitNext, WaitAction
<1>. QED
  BY <1>1, <1>2, <1>3

----------------------------------------------------------------------------
(* Every detached timepoint stays on a dispatch list.                      *)

LEMMA ListsMove ==
  ASSUME ListInv, NEW t \in Threads, NEW k \in Int, NEW d \in Int, Shape(t, k, d), Lists(t, k)
  PROVE  ListInv'
<1>1. SUFFICES ASSUME NEW p \in Timepoints, tp'[p].state = "detached"
               PROVE  \E u \in Threads : \E i \in 1..Len(stack'[u]) : p \in stack'[u][i].list
  BY DEF ListInv
<1>2. stack' \in [Threads -> Seq(FrameSet)] /\ k <= Len(stack'[t]) /\ Len(stack'[t]) \in Nat
  BY DEF Shape
<1>3. CASE \E i \in 1..k : p \in stack'[t][i].list
  BY <1>2, <1>3
<1>4. CASE tp[p].state = "detached" /\ (stack[t] # <<>> => p \notin stack[t][1].list)
  <2>1. PICK u \in Threads : \E i \in 1..Len(stack[u]) : p \in stack[u][i].list
    BY <1>4 DEF ListInv
  <2>2. PICK i \in 1..Len(stack[u]) : p \in stack[u][i].list
    BY <2>1
  <2>3. CASE u # t
    BY <2>2, <2>3 DEF Shape
  <2>4. CASE u = t
    <3>1. i # 1
      <4>1. stack[t] = <<>> => Len(stack[t]) = 0
        OBVIOUS
      <4>. QED
        BY <1>4, <2>2, <2>4, <4>1
    <3>2. i \in 2..Len(stack[t])
      BY <2>2, <2>4, <3>1
    <3>3. i - d \in 1..Len(stack'[t]) /\ stack'[t][i - d] = stack[t][i]
      BY <3>2 DEF Shape
    <3>. QED
      BY <2>2, <2>4, <3>3
  <2>. QED
    BY <2>3, <2>4
<1>. QED
  BY <1>1, <1>3, <1>4 DEF Lists

LEMMA ListsStay ==
  ASSUME ListInv, NEW t \in Threads, \A u \in Threads : u # t => stack'[u] = stack[u],
         \A i \in 1..Len(stack[t]) : stack[t][i].list = {},
         \A p \in Timepoints : tp'[p].state = "detached" => tp[p].state = "detached"
  PROVE  ListInv'
<1>1. SUFFICES ASSUME NEW p \in Timepoints, tp'[p].state = "detached"
               PROVE  \E u \in Threads : \E i \in 1..Len(stack'[u]) : p \in stack'[u][i].list
  BY DEF ListInv
<1>2. PICK u \in Threads : \E i \in 1..Len(stack[u]) : p \in stack[u][i].list
  BY <1>1 DEF ListInv
<1>3. u # t
  BY <1>2
<1>. QED
  BY <1>2, <1>3

\* The steps of a wait's own code.
OwnActions(t) ==
  \/ PollValue(t) \/ PollFailure(t) \/ PollEnd(t)
  \/ WaitRegister(t) \/ WaitRegistered(t) \/ WaitCheck(t)
  \/ WaitPrepare(t) \/ WaitRecheck(t) \/ WaitCommit(t) \/ WaitWoken(t)
  \/ WaitStatus(t) \/ WaitCancel(t) \/ WaitJoin(t) \/ WaitEnd(t)
  \/ WaitWokenSpuriously(t) \/ WaitExpire(t)

CallbackActions(t) ==
  \/ CallbackFailure(t) \/ CallbackCount(t) \/ CallbackPost(t) \/ CallbackWake(t)
  \/ CallbackComplete(t)

LEMMA OwnActionShape ==
  ASSUME NEW t \in Threads, stack \in [Threads -> Seq(FrameSet)], OwnActions(t)
  PROVE  /\ \E pc \in BasePcs : At(t, pc)
         /\ \A u \in Threads : u # t => stack'[u] = stack[u]
         /\ todo' = todo
         /\ WaitRegister(t) \/ WaitCancel(t) \/ UNCHANGED <<semVars, tp>>
<1>. USE DEF Goto, Become, Finish, Return
<1>1. CASE PollValue(t) \/ PollFailure(t) \/ PollEnd(t)
  BY <1>1 DEF PollValue, PollFailure, PollEnd, BasePcs, WaitPcs, CallbackPcs
<1>2. CASE WaitRegister(t) \/ WaitRegistered(t) \/ WaitCheck(t)
  BY <1>2 DEF WaitRegister, WaitRegistered, WaitCheck, BasePcs, WaitPcs, CallbackPcs
<1>3. CASE WaitPrepare(t) \/ WaitRecheck(t) \/ WaitCommit(t) \/ WaitWoken(t)
  BY <1>3 DEF WaitPrepare, WaitRecheck, WaitCommit, WaitWoken, BasePcs, WaitPcs, CallbackPcs
<1>4. CASE WaitStatus(t) \/ WaitWokenSpuriously(t) \/ WaitExpire(t)
  BY <1>4 DEF WaitStatus, WaitWokenSpuriously, WaitExpire, BasePcs, WaitPcs, CallbackPcs
<1>5. CASE WaitCancel(t) \/ WaitJoin(t) \/ WaitEnd(t)
  BY <1>5 DEF WaitCancel, WaitJoin, WaitEnd, BasePcs, WaitPcs, CallbackPcs
<1>. QED
  BY <1>1, <1>2, <1>3, <1>4, <1>5 DEF OwnActions

\* The operand whose turn it is to be cancelled.
LEMMA CancelOperand ==
  ASSUME Inv, WInv, NEW t \in Threads, WaitCancel(t)
  PROVE  Operand(t).tp \in Timepoints /\ tp[Operand(t).tp].sem \in Semaphores
<1>0. TypedWait /\ WaitOK(t)
  BY DEF WInv
<1>1. At(t, "cleanup") /\ wait[t].next <= wait[t].registered /\ "cleanup" \in BasePcs
  BY DEF WaitCancel, BasePcs, WaitPcs, CallbackPcs
<1>2. wait[t].live /\ Phase(t) /\ BasePc(t) = "cleanup"
  BY <1>1, OwnTop
<1>3. wait[t].next \in Indexes(t)
  BY <1>0, <1>1, <1>2, WaitFacts DEF Phase, Indexes
<1>4. Operand(t).tp = Tp(t, wait[t].next) /\ Tp(t, wait[t].next) \in Timepoints
  BY <1>0, <1>3, WaitFacts DEF Operand, Tp
<1>5. wait[t].next <= Begun(t)
  BY <1>0, <1>1, <1>2, WaitFacts DEF Begun
<1>6. tp[Tp(t, wait[t].next)].sem = Sem(t, wait[t].next)
  BY <1>0, <1>2, <1>3, <1>5 DEF WaitOK, OperandOK, Operates
<1>. QED
  BY <1>0, <1>3, <1>4, <1>6, WaitFacts

LEMMA OwnActionLists ==
  ASSUME Inv, WInv, ListInv, NEW t \in Threads, OwnActions(t)
  PROVE  ListInv'
<1>0. stack \in [Threads -> Seq(FrameSet)] /\ tp \in [Timepoints -> TimepointSet]
  BY DEF Inv, Typed
<1>1. PICK pc \in BasePcs : At(t, pc)
  BY <1>0, OwnActionShape
<1>2. stack[t] = <<Top(t)>> /\ Top(t).list = {}
  BY <1>1, OwnTop
<1>3. \A i \in 1..Len(stack[t]) : stack[t][i].list = {}
  <2>1. PICK f : f = Top(t)
    OBVIOUS
  <2>2. stack[t] = <<f>> /\ f.list = {} /\ Len(<<f>>) = 1 /\ <<f>>[1] = f
    BY <1>2, <2>1
  <2>3. \A i \in 1..1 : i = 1
    OBVIOUS
  <2>. QED
    BY <2>2, <2>3
<1>4. \A p \in Timepoints : tp'[p].state = "detached" => tp[p].state = "detached"
  <2>1. CASE WaitRegister(t)
    BY <2>1, RegisterBegins DEF Registering
  <2>2. CASE WaitCancel(t)
    <3>1. PICK p \in Timepoints : p = Operand(t).tp
      BY <2>2, CancelOperand
    <3>2. tp' = [tp EXCEPT ![p].state = IF tp[p].state = "pending" THEN "withdrawn" ELSE @]
      BY <2>2, <3>1 DEF WaitCancel, CancelTimepoint, Cancellable
    <3>. QED
      BY <1>0, <3>1, <3>2 DEF TimepointSet
  <2>. QED
    BY <1>0, <2>1, <2>2, OwnActionShape
<1>5. \A u \in Threads : u # t => stack'[u] = stack[u]
  BY <1>0, OwnActionShape
<1>. QED
  BY <1>3, <1>4, <1>5, ListsStay

LEMMA CallbackActionShape ==
  ASSUME Inv, NEW t \in Threads, CallbackActions(t)
  PROVE  /\ \E k, d : k \in Int /\ d \in Int /\ Shape(t, k, d) /\ Lists(t, k)
         /\ UNCHANGED <<semVars, tp, todo>>
<1>0. stack \in [Threads -> Seq(FrameSet)]
  BY DEF Inv, Typed
<1>1. /\ \E pc \in CallbackPcs : At(t, pc)
      /\ UNCHANGED <<semVars, tp, todo>>
      /\ Return(t) \/ \E to \in CallbackPcs : Goto(t, to)
  <2>1. CASE CallbackPost(t)
    BY <2>1 DEF CallbackPost, CallbackStep, CallbackPcs
  <2>. QED
    BY <2>1
    DEF CallbackActions, CallbackFailure, CallbackCount, CallbackWake, CallbackComplete,
        CallbackStep, CallbackPcs
<1>2. PICK pc \in CallbackPcs : At(t, pc)
  BY <1>1
<1>3. /\ stack[t] # <<>> /\ Top(t) = stack[t][1] /\ Top(t) \in FrameSet /\ FrameOK(t, Top(t))
      /\ Top(t).pc \in CallbackPcs
  BY <1>2, TopFacts DEF Inv, At
<1>4. stack[t][1].list = {}
  BY <1>3 DEF FrameOK, CallbackPcs
<1>5. CASE Return(t)
  <2>1. Shape(t, 0, 1)
    BY <1>0, <1>3, <1>5, ReturnShape
  <2>2. Lists(t, 0)
    BY <1>1, <1>4 DEF Lists
  <2>. QED
    BY <1>1, <2>1, <2>2
<1>6. CASE \E to \in CallbackPcs : Goto(t, to)
  <2>1. PICK to \in CallbackPcs : Goto(t, to)
    BY <1>6
  <2>2. PICK g : g = [Top(t) EXCEPT !.pc = to]
    OBVIOUS
  <2>3. to \in CallPcs \cup WaitPcs
    BY DEF CallbackPcs, WaitPcs
  <2>4. g \in FrameSet
    BY <1>3, <2>2, <2>3 DEF FrameSet
  <2>5. Become(t, g)
    BY <2>1, <2>2 DEF Goto
  <2>6. Shape(t, 1, 0)
    BY <1>0, <1>3, <2>4, <2>5, BecomeShape
  <2>7. Lists(t, 1)
    BY <1>1, <1>4 DEF Lists
  <2>. QED
    BY <1>1, <2>6, <2>7
<1>. QED
  BY <1>1, <1>5, <1>6

LEMMA WaitActionCases ==
  ASSUME NEW t \in Threads, WaitAction(t)
  PROVE  \/ CallOther(t) \/ Step(t) \/ OwnActions(t) \/ CallbackActions(t)
         \/ stack[t] = <<>> /\ todo[t] # <<>> /\ CallWait(t, Head(todo[t]))
BY DEF WaitAction, WaitStep, OwnActions, CallbackActions

LEMMA ListsKept ==
  ASSUME Inv, WInv, Inv', ListInv, NEW t \in Threads, WaitAction(t)
  PROVE  ListInv'
<1>1. CASE CallOther(t)
  <2>1. Outside(t, 1, 0)
    BY <1>1, CallOutside DEF CallOther, WInv
  <2>. QED
    BY <2>1, ListsMove DEF Outside
<1>2. CASE Step(t)
  <2>1. PICK k, d : Outside(t, k, d)
    BY <1>2, StepMoves DEF Moving
  <2>2. k \in Int /\ d \in Int /\ Shape(t, k, d) /\ Lists(t, k)
    BY <2>1 DEF Outside
  <2>. QED
    BY <2>2, ListsMove
<1>3. CASE OwnActions(t)
  BY <1>3, OwnActionLists
<1>4. CASE CallbackActions(t)
  BY <1>4, CallbackActionShape, ListsMove
<1>5. CASE stack[t] = <<>> /\ todo[t] # <<>> /\ CallWait(t, Head(todo[t]))
  <2>1. /\ \A u \in Threads : u # t => stack'[u] = stack[u]
        /\ tp' = tp /\ Len(stack[t]) = 0
    BY <1>5 DEF CallWait, Begin, Inv, Typed
  <2>. QED
    BY <2>1, ListsStay
<1>. QED
  BY <1>1, <1>2, <1>3, <1>4, <1>5, WaitActionCases

----------------------------------------------------------------------------
(* The heap fits its allocation, and the watermark follows the timeline.   *)

LEMMA SizesStay ==
  ASSUME Inv, Inv', SizeInv, UNCHANGED <<last_untainted_value, frontier, capacity>>, Grows,
         \A s \in Semaphores : timepoints'[s] \subseteq timepoints[s]
  PROVE  SizeInv'
<1>1. SUFFICES ASSUME NEW s \in Semaphores
               PROVE  /\ Cardinality(timepoints'[s]) <= capacity[s]
                      /\ last_untainted_value[s] <= timeline_value'[s]
  BY DEF SizeInv
<1>2. /\ timepoints[s] \in SUBSET Timepoints /\ IsFiniteSet(timepoints[s])
      /\ timeline_value[s] \in Nat /\ timeline_value'[s] \in Nat
      /\ last_untainted_value[s] \in Nat /\ capacity[s] \in Nat
  BY SemaphoreAssumption, FS_Subset DEF Inv, Typed, SizeInv
<1>3. Cardinality(timepoints'[s]) <= Cardinality(timepoints[s]) /\ IsFiniteSet(timepoints'[s])
  BY <1>2, FS_Subset
<1>4. Cardinality(timepoints'[s]) \in Nat /\ Cardinality(timepoints[s]) \in Nat
  BY <1>2, <1>3, FS_CardinalityType
<1>5. Cardinality(timepoints[s]) <= capacity[s] /\ last_untainted_value[s] <= timeline_value[s]
  BY DEF SizeInv
<1>6. timeline_value'[s] >= timeline_value[s]
  BY DEF Grows
<1>. QED
  BY <1>2, <1>3, <1>4, <1>5, <1>6

\* A frontier is merged.
LEMMA SizesMerge ==
  ASSUME Inv, Inv', SizeInv, NEW t \in Threads, SignalMerge(t) \/ MergeFrontier(t)
  PROVE  SizeInv'
<1>1. /\ stack[t] # <<>> /\ Top(t).pc \in {"merge", "merge_frontier"}
      /\ UNCHANGED <<timeline_value, last_untainted_value, timepoints, capacity>>
      /\ frontier' = [frontier EXCEPT ![Top(t).sem] =
                        IF Fits(Merged(@, Top(t).frontier)) THEN Merged(@, Top(t).frontier) ELSE @]
  BY DEF SignalMerge, MergeFrontier, At
<1>2. Top(t) \in FrameSet /\ FrameOK(t, Top(t))
  BY <1>1, TopFacts DEF Inv
<1>3. PICK s \in Semaphores, g \in [Axes -> Nat] : s = Top(t).sem /\ g = Top(t).frontier
  BY <1>1, <1>2 DEF FrameOK, FrameSet, CallPcs, SignalPcs
<1>4. frontier \in [Semaphores -> [Axes -> Nat]]
  BY DEF SizeInv
<1>5. Merged(frontier[s], g) \in [Axes -> Nat]
  <2>1. \A a \in Axes : frontier[s][a] \in Nat /\ g[a] \in Nat
    BY <1>3, <1>4
  <2>. QED
    BY <2>1 DEF Merged
<1>6. \E x \in [Axes -> Nat] : frontier' = [frontier EXCEPT ![s] = x]
  <2>1. CASE Fits(Merged(frontier[s], g))
    BY <1>1, <1>3, <1>5, <2>1
  <2>2. CASE ~Fits(Merged(frontier[s], g))
    BY <1>1, <1>3, <1>4, <2>2
  <2>. QED
    BY <2>1, <2>2
<1>8. frontier' \in [Semaphores -> [Axes -> Nat]]
  BY <1>3, <1>4, <1>6
<1>. QED
  BY <1>1, <1>8 DEF SizeInv

\* The watermark follows a signal, or is lowered.
LEMMA SizesMark ==
  ASSUME Inv, Inv', SizeInv, NEW t \in Threads, SignalMark(t) \/ MarkTainted(t)
  PROVE  SizeInv'
<1>1. /\ stack[t] # <<>> /\ Top(t).pc \in {"mark", "taint"}
      /\ UNCHANGED <<timeline_value, frontier, timepoints, capacity>>
  BY DEF SignalMark, MarkTainted, At
<1>2. Top(t) \in FrameSet /\ FrameOK(t, Top(t))
  BY <1>1, TopFacts DEF Inv
<1>3. PICK s \in Semaphores, n \in Nat : s = Top(t).sem /\ n = Top(t).value
  BY <1>1, <1>2 DEF FrameOK, FrameSet, CallPcs, SignalPcs
<1>4. /\ last_untainted_value \in [Semaphores -> Nat] /\ timeline_value \in [Semaphores -> Nat]
      /\ last_untainted_value[s] <= timeline_value[s]
  BY DEF SizeInv, Inv, Typed
<1>5. PICK m \in Nat : /\ m <= timeline_value[s]
                       /\ last_untainted_value' = [last_untainted_value EXCEPT ![s] = m]
  <2>1. CASE SignalMark(t)
    <3>1. Top(t).pc = "mark"
      BY <2>1 DEF SignalMark, At
    <3>2. timeline_value[s] >= n
      BY <1>2, <1>3, <3>1 DEF FrameOK
    <3>3. PICK m : m = IF n > last_untainted_value[s] THEN n ELSE last_untainted_value[s]
      OBVIOUS
    <3>4. last_untainted_value' = [last_untainted_value EXCEPT ![s] = m]
      BY <1>3, <2>1, <3>3 DEF SignalMark
    <3>. QED
      BY <1>3, <1>4, <3>2, <3>3, <3>4
  <2>2. CASE MarkTainted(t)
    <3>1. PICK m : m = Lowered(last_untainted_value[s], n)
      OBVIOUS
    <3>2. last_untainted_value' = [last_untainted_value EXCEPT ![s] = m]
      BY <1>3, <2>2, <3>1 DEF MarkTainted
    <3>3. m \in Nat /\ m <= timeline_value[s]
      <4>1. PICK a \in Nat, b \in Nat : a = last_untainted_value[s] /\ b = timeline_value[s] /\ a <= b
        BY <1>3, <1>4
      <4>2. m = IF n < a THEN n ELSE a
        BY <3>1, <4>1 DEF Lowered
      <4>. QED
        BY <1>3, <4>1, <4>2
    <3>. QED
      BY <3>2, <3>3
  <2>. QED
    BY <2>1, <2>2
<1>6. last_untainted_value' \in [Semaphores -> Nat]
  BY <1>3, <1>4, <1>5
<1>7. \A r \in Semaphores : last_untainted_value'[r] <= timeline_value[r]
  BY <1>3, <1>4, <1>5 DEF SizeInv
<1>. QED
  BY <1>1, <1>6, <1>7 DEF SizeInv

\* A timepoint is indexed; a full index is doubled.
LEMMA SizesInsert ==
  ASSUME Inv, Inv', SizeInv, NEW t \in Threads, AcquireInsert(t)
  PROVE  SizeInv'
<1>1. /\ stack[t] # <<>> /\ Top(t).pc = "acquire_insert"
      /\ UNCHANGED <<timeline_value, last_untainted_value, frontier>>
  BY DEF AcquireInsert, At
<1>2. FrameOK(t, Top(t))
  BY <1>1, TopFacts DEF Inv
<1>3. PICK s \in Semaphores, p \in Timepoints : s = Top(t).sem /\ p = Top(t).tp
  BY <1>1, <1>2 DEF FrameOK, CallPcs, AcquirePcs
<1>4. CASE UNCHANGED <<timepoints, capacity>>
  BY <1>1, <1>4 DEF SizeInv
<1>5. CASE /\ timepoints' = [timepoints EXCEPT ![s] = @ \cup {p}]
           /\ capacity' = [capacity EXCEPT ![s] = IF Full(s) THEN 2 * @ ELSE @]
  <2>1. /\ capacity \in [Semaphores -> Nat \ {0}] /\ timepoints \in [Semaphores -> SUBSET Timepoints]
        /\ IsFiniteSet(timepoints[s])
    BY <1>3, SemaphoreAssumption, FS_Subset DEF SizeInv, Inv, Typed
  <2>2. PICK n \in Nat, c \in Nat \ {0} : n = Cardinality(timepoints[s]) /\ c = capacity[s]
    BY <1>3, <2>1, FS_CardinalityType
  <2>3. n <= c
    BY <1>3, <2>2 DEF SizeInv
  <2>4. PICK m : m = IF n = c THEN 2 * c ELSE c
    OBVIOUS
  <2>5. capacity' = [capacity EXCEPT ![s] = m]
    BY <1>5, <2>2, <2>4 DEF Full
  <2>6. m \in Nat \ {0} /\ n + 1 <= m /\ c <= m
    BY <2>2, <2>3, <2>4
  <2>7. Cardinality(timepoints[s] \cup {p}) <= n + 1
    <3>1. CASE p \in timepoints[s]
      <4>1. timepoints[s] \cup {p} = timepoints[s]
        BY <3>1
      <4>2. Cardinality(timepoints[s] \cup {p}) = n
        BY <2>2, <4>1
      <4>. QED
        BY <2>2, <4>2
    <3>2. CASE p \notin timepoints[s]
      <4>1. Cardinality(timepoints[s] \cup {p}) = Cardinality(timepoints[s]) + 1
        BY <2>1, <3>2, FS_AddElement
      <4>2. Cardinality(timepoints[s] \cup {p}) = n + 1
        BY <2>2, <4>1
      <4>. QED
        BY <2>2, <4>2
    <3>. QED
      BY <3>1, <3>2
  <2>8. Cardinality(timepoints[s] \cup {p}) \in Nat
    BY <2>1, FS_AddElement, FS_CardinalityType
  <2>9. Cardinality(timepoints'[s]) <= m
    <3>1. timepoints'[s] = timepoints[s] \cup {p}
      BY <1>3, <1>5, <2>1
    <3>. QED
      BY <2>2, <2>6, <2>7, <2>8, <3>1
  <2>10. capacity' \in [Semaphores -> Nat \ {0}] /\ capacity'[s] = m
    BY <1>3, <2>1, <2>5, <2>6
  <2>11. \A r \in Semaphores : Cardinality(timepoints'[r]) <= capacity'[r]
    <3>1. SUFFICES ASSUME NEW r \in Semaphores, r # s PROVE Cardinality(timepoints'[r]) <= capacity'[r]
      BY <2>9, <2>10
    <3>2. timepoints'[r] = timepoints[r] /\ capacity'[r] = capacity[r]
      BY <1>5, <2>1, <2>5, <3>1
    <3>. QED
      BY <3>2 DEF SizeInv
  <2>. QED
    BY <1>1, <2>10, <2>11 DEF SizeInv
<1>. QED
  BY <1>3, <1>4, <1>5 DEF AcquireInsert

LEMMA StepSizes ==
  ASSUME Inv, Inv', SizeInv, NEW t \in Threads, Step(t)
  PROVE  SizeInv'
<1>0. timepoints \in [Semaphores -> SUBSET Timepoints] /\ Grows
  <2>1. PICK k, d : Outside(t, k, d)
    BY StepMoves DEF Moving
  <2>. QED
    BY <2>1 DEF Outside, Inv, Typed
<1>1. CASE SignalMerge(t) \/ MergeFrontier(t)
  BY <1>1, SizesMerge
<1>2. CASE SignalMark(t) \/ MarkTainted(t)
  BY <1>2, SizesMark
<1>3. CASE AcquireInsert(t)
  BY <1>3, SizesInsert
<1>4. CASE \/ SignalCheck(t) \/ SignalCas(t) \/ SignalPast(t) \/ FailCas(t)
           \/ Dispatch(t) \/ DispatchEnd(t)
           \/ AcquireFailure(t) \/ AcquireValue(t) \/ ResolveAllocate(t)
           \/ AcquireLock(t) \/ AcquireAnswered(t)
  <2>1. UNCHANGED <<last_untainted_value, frontier, capacity, timepoints>>
    BY <1>4
    DEF SignalCheck, SignalCas, SignalPast, FailCas, Dispatch, DispatchEnd, AcquireFailure,
        AcquireValue, ResolveAllocate, AcquireLock, AcquireAnswered, semVars
  <2>. QED
    BY <1>0, <2>1, SizesStay
<1>5. CASE Collect(t) \/ FailFlush(t) \/ Deinitialize(t) \/ Cancel(t)
  <2>1. UNCHANGED <<last_untainted_value, frontier, capacity>>
    BY <1>5 DEF Collect, FailFlush, Deinitialize, DetachAll, Cancel, CancelTimepoint
  <2>2. \E r, x : timepoints' = [timepoints EXCEPT ![r] = @ \ x]
    <3>1. CASE Collect(t) \/ Cancel(t)
      BY <3>1 DEF Collect, Cancel, CancelTimepoint
    <3>2. CASE FailFlush(t) \/ Deinitialize(t)
      <4>1. timepoints' = [timepoints EXCEPT ![Top(t).sem] = {}]
        BY <3>2 DEF FailFlush, Deinitialize, DetachAll
      <4>2. timepoints' = [timepoints EXCEPT ![Top(t).sem] = @ \ timepoints[Top(t).sem]]
        BY <4>1
      <4>. QED
        BY <4>2
    <3>. QED
      BY <1>5, <3>1, <3>2
  <2>3. \A s \in Semaphores : timepoints'[s] \subseteq timepoints[s]
    BY <1>0, <2>2
  <2>. QED
    BY <1>0, <2>1, <2>3, SizesStay
<1>. QED
  BY <1>1, <1>2, <1>3, <1>4, <1>5 DEF Step

LEMMA SizesKept ==
  ASSUME Inv, WInv, Inv', SizeInv, NEW t \in Threads, WaitAction(t)
  PROVE  SizeInv'
<1>0. stack \in [Threads -> Seq(FrameSet)] /\ timepoints \in [Semaphores -> SUBSET Timepoints]
  BY DEF Inv, Typed
<1>1. CASE Step(t)
  BY <1>1, StepSizes
<1>2. CASE UNCHANGED <<timeline_value, failure_status, last_untainted_value, frontier, timepoints, capacity>>
  <2>1. Grows
    BY <1>2, GrowsStill
  <2>. QED
    BY <1>2, <2>1, SizesStay
<1>3. CASE UNCHANGED semVars
  BY <1>2, <1>3 DEF semVars
<1>4. CASE CallOther(t)
  <2>1. UNCHANGED <<timeline_value, failure_status, last_untainted_value, frontier, timepoints, capacity>>
    BY <1>4
    DEF CallOther, Call, CallSignal, CallFail, CallTaint, CallRelease, CallAcquire, CallCancel,
       semVars
  <2>. QED
    BY <1>2, <2>1
<1>5. CASE stack[t] = <<>> /\ todo[t] # <<>> /\ CallWait(t, Head(todo[t]))
  BY <1>3, <1>5 DEF CallWait
<1>6. CASE CallbackActions(t)
  BY <1>3, <1>6, CallbackActionShape
<1>7. CASE OwnActions(t)
  <2>1. CASE WaitCancel(t)
    <3>1. /\ UNCHANGED <<timeline_value, failure_status, last_untainted_value, frontier, capacity>>
          /\ timepoints' = [timepoints EXCEPT ![tp[Operand(t).tp].sem] = @ \ {Operand(t).tp}]
      BY <2>1 DEF WaitCancel, CancelTimepoint
    <3>2. \A s \in Semaphores : timepoints'[s] \subseteq timepoints[s]
      BY <1>0, <3>1
    <3>3. Grows
      BY <3>1, GrowsStill
    <3>. QED
      BY <3>1, <3>2, <3>3, SizesStay
  <2>2. CASE WaitRegister(t)
    BY <1>3, <2>2 DEF WaitRegister
  <2>. QED
    BY <1>0, <1>3, <1>7, <2>1, <2>2, OwnActionShape
<1>. QED
  BY <1>1, <1>4, <1>5, <1>6, <1>7, WaitActionCases

----------------------------------------------------------------------------
(* The whole invariant.                                                    *)

FullInv == Inv /\ WInv /\ SizeInv /\ ListInv

LEMMA WaitInitFull == WaitInit => FullInv
<1>1. SUFFICES ASSUME WaitInit PROVE FullInv
  OBVIOUS
<1>2. SizeInv
  <2>1. /\ \A s \in Semaphores : /\ timepoints[s] = {} /\ capacity[s] = InlineCapacity
                                 /\ last_untainted_value[s] = 0 /\ timeline_value[s] = 0
        /\ last_untainted_value \in [Semaphores -> Nat] /\ capacity \in [Semaphores -> Nat \ {0}]
    BY <1>1, SemaphoreAssumption DEF WaitInit, Init
  <2>2. frontier \in [Semaphores -> [Axes -> Nat]]
    BY <1>1 DEF WaitInit, Init, NoFrontier
  <2>3. Cardinality({}) = 0
    BY FS_EmptySet
  <2>4. InlineCapacity \in Nat /\ 0 <= InlineCapacity
    BY SemaphoreAssumption
  <2>5. \A s \in Semaphores : Cardinality(timepoints[s]) = 0
    BY <2>1, <2>3
  <2>6. \A s \in Semaphores : /\ Cardinality(timepoints[s]) <= capacity[s]
                              /\ last_untainted_value[s] <= timeline_value[s]
    BY <2>1, <2>4, <2>5
  <2>. QED
    BY <2>1, <2>2, <2>6 DEF SizeInv
<1>3. ListInv
  BY <1>1 DEF WaitInit, Init, ListInv, IdleTimepoint
<1>. QED
  BY <1>1, <1>2, <1>3, WaitInitInv DEF FullInv

LEMMA WaitNextFull == FullInv /\ [WaitNext]_allVars => FullInv'
<1>1. SUFFICES ASSUME FullInv, [WaitNext]_allVars PROVE FullInv'
  OBVIOUS
<1>2. Inv' /\ WInv'
  BY <1>1, WaitNextKeeps DEF FullInv
<1>3. CASE UNCHANGED allVars
  <2>1. SizeInv' /\ ListInv'
    BY <1>1, <1>3 DEF FullInv, SizeInv, ListInv, allVars, vars
  <2>. QED
    BY <1>2, <2>1 DEF FullInv
<1>4. CASE WaitNext
  <2>1. PICK t \in Threads : WaitAction(t)
    BY <1>4 DEF WaitNext, WaitAction
  <2>2. SizeInv' /\ ListInv'
    BY <1>1, <1>2, <2>1, SizesKept, ListsKept DEF FullInv
  <2>. QED
    BY <1>2, <2>2 DEF FullInv
<1>. QED
  BY <1>1, <1>3, <1>4

\* The heap and the dispatch lists own every timepoint once.
LEMMA OwnerIsOne == Inv /\ ListInv => OneOwner
<1>1. SUFFICES ASSUME Inv, ListInv, NEW p \in Timepoints
               PROVE  Cardinality(Dispatchers(p)) = IF tp[p].state = "detached" THEN 1 ELSE 0
  BY DEF OneOwner, Inv, HeapInv, TimepointOK
<1>2. ASSUME NEW t \in Threads, NEW i \in 1..Len(stack[t]), p \in stack[t][i].list
      PROVE  tp[p].state = "detached" /\ p \in Claim(stack[t][i])
  <2>1. FrameOK(t, stack[t][i])
    BY <1>1 DEF Inv, FrameInv
  <2>. QED
    BY <1>2, <2>1 DEF FrameOK, Claim, AcquirePcs
<1>3. CASE tp[p].state # "detached"
  <2>1. Dispatchers(p) = {}
    BY <1>2, <1>3 DEF Dispatchers
  <2>. QED
    BY <1>3, <2>1, FS_EmptySet
<1>4. CASE tp[p].state = "detached"
  <2>1. PICK t \in Threads : \E i \in 1..Len(stack[t]) : p \in stack[t][i].list
    BY <1>1, <1>4 DEF ListInv
  <2>2. PICK i \in 1..Len(stack[t]) : p \in stack[t][i].list
    BY <2>1
  <2>3. ASSUME NEW u \in Threads, NEW j \in 1..Len(stack[u]), p \in stack[u][j].list
        PROVE  u = t /\ j = i
    <3>1. p \in Claim(stack[t][i]) /\ p \in Claim(stack[u][j])
      BY <1>2, <2>2, <2>3
    <3>. QED
      BY <1>1, <3>1 DEF Inv, ClaimInv
  <2>4. Dispatchers(p) = {<<t, i>>}
    <3>1. <<t, i>> \in Dispatchers(p)
      BY <2>2 DEF Dispatchers
    <3>2. ASSUME NEW x \in Dispatchers(p) PROVE x = <<t, i>>
      <4>1. PICK u \in Threads : x \in {<<u, j>> : j \in {k \in 1..Len(stack[u]) : p \in stack[u][k].list}}
        BY DEF Dispatchers
      <4>2. PICK j \in 1..Len(stack[u]) : p \in stack[u][j].list /\ x = <<u, j>>
        BY <4>1
      <4>. QED
        BY <2>3, <4>2
    <3>. QED
      BY <3>1, <3>2
  <2>5. PICK x : x = <<t, i>>
    OBVIOUS
  <2>6. Dispatchers(p) = {x} /\ Cardinality({x}) = 1
    BY <2>4, <2>5, FS_Singleton
  <2>. QED
    BY <1>4, <2>6
<1>. QED
  BY <1>3, <1>4

\* A wait that has returned has no callback under way.
LEMMA ReturnedIsQuiet ==
  ASSUME Inv, WInv, NEW t \in Threads, ~wait[t].live, NEW i \in 1..Count(t), NEW p, p = Tp(t, i)
  PROVE  /\ tp[p].state \in Ended
         /\ \A u \in Threads : \A j \in 1..Len(stack[u]) :
              stack[u][j].tp = p => stack[u][j].pc \notin CallbackPcs
<1>0. TypedWait /\ ScriptInv /\ CallbackInv /\ WaitOK(t) /\ FrameInv /\ i \in Indexes(t)
  BY DEF WInv, Inv, Indexes, Count
<1>1. tp[p].state \in Ended
  BY <1>0 DEF WaitOK, QuietOK, Active
<1>2. ASSUME NEW u \in Threads, NEW j \in 1..Len(stack[u]), stack[u][j].tp = p,
             stack[u][j].pc \in CallbackPcs
      PROVE  FALSE
  <2>1. j = 1
    <3>1. j > 1 => stack[u][j].pc \in {"dispatch", "registered"}
      BY <1>0 DEF FrameInv
    <3>. QED
      BY <1>2, <3>1 DEF CallbackPcs
  <2>2. p \in Timepoints
    BY <1>0, WaitFacts
  <2>3. Calling(u, p)
    <3>1. stack[u] # <<>>
      BY <2>1
    <3>. QED
      BY <1>2, <2>1, <3>1 DEF Calling
  <2>4. PICK v \in Threads : \E k \in Indexes(v) : Active(v, k) /\ Tp(v, k) = p
    BY <1>0, <2>2, <2>3 DEF CallbackInv
  <2>5. PICK k \in Indexes(v) : Active(v, k) /\ Tp(v, k) = p
    BY <2>4
  <2>6. v = t
    BY <1>0, <2>5, Owned
  <2>. QED
    BY <2>5, <2>6 DEF Active
<1>. QED
  BY <1>1, <1>2

LEMMA FullOutlives == FullInv => WaitOutlivesCallbacks
<1>1. SUFFICES ASSUME FullInv PROVE WaitOutlivesCallbacks
  OBVIOUS
<1>2. TypeOK
  BY <1>1 DEF FullInv, Inv, Typed, SizeInv, TypeOK, Statuses, TimepointSet
<1>3. OneOwner
  BY <1>1, OwnerIsOne DEF FullInv
<1>4. ASSUME NEW t \in Threads, ~wait[t].live, NEW i \in 1..Count(t), NEW p, p = Tp(t, i)
      PROVE  /\ tp[p].state \in Ended
             /\ \A u \in Threads : \A j \in 1..Len(stack[u]) :
                  stack[u][j].tp = p => stack[u][j].pc \notin CallbackPcs
  BY <1>1, <1>4, ReturnedIsQuiet DEF FullInv
<1>. QED
  BY <1>2, <1>3, <1>4 DEF WaitOutlivesCallbacks, Tp

LEMMA FullIsTrue == FullInv => WaitResultIsTrue
<1>1. SUFFICES ASSUME FullInv, NEW t \in Threads
               PROVE  LET w == wait[t]
                          ops == {w.operands[i] : i \in 1..Count(t)}
                      IN  /\ w.result = "ok" =>
                               IF w.mode = "all" THEN \A o \in ops : OperandReached(o)
                                                 ELSE \E o \in ops : OperandReached(o)
                          /\ w.result \in AllFailures => \E o \in ops : failure_status[o.sem] = w.result
  BY DEF WaitResultIsTrue
<1>2. Truthful(t, wait[t].result)
  BY <1>1 DEF FullInv, WInv, WaitOK, StatusOK
<1>3. \A i \in Indexes(t) : i \in 1..Count(t) /\ (HasReached(t, i) <=> OperandReached(wait[t].operands[i]))
  BY DEF Indexes, Count, HasReached, OperandReached, Sem, Value
<1>4. Indexes(t) = 1..Count(t)
  BY DEF Indexes, Count
<1>. QED
  BY <1>2, <1>3, <1>4 DEF Truthful, Satisfied, Blamed, Sem

----------------------------------------------------------------------------
(* The waits keep to what semaphore.h allows.                              *)

LEMMA WaitActionImplements ==
  ASSUME Inv, WInv, NEW t \in Threads, WaitAction(t)
  PROVE  Timeline!Next \/ UNCHANGED Timeline!vars
<1>0. stack \in [Threads -> Seq(FrameSet)] /\ tp \in [Timepoints -> TimepointSet]
  BY DEF Inv, Typed
<1>1. CASE Step(t)
  BY <1>1, StepImplements
<1>2. CASE CallOther(t)
  BY <1>2, CallImplements DEF CallOther
<1>3. CASE UNCHANGED <<semVars, tp>>
  BY <1>3, InvisibleStutters DEF semVars, Invisible
<1>4. CASE stack[t] = <<>> /\ todo[t] # <<>> /\ CallWait(t, Head(todo[t]))
  BY <1>3, <1>4 DEF CallWait
<1>5. CASE CallbackActions(t)
  BY <1>3, <1>5, CallbackActionShape
<1>6. CASE WaitRegister(t)
  BY <1>0, <1>6, RegisterBegins, RegisterImplements
<1>7. CASE WaitCancel(t)
  BY <1>7, CancelOperand, CancelImplements DEF WaitCancel
<1>8. CASE OwnActions(t)
  BY <1>0, <1>3, <1>6, <1>7, <1>8, OwnActionShape
<1>. QED
  BY <1>1, <1>2, <1>4, <1>5, <1>8, WaitActionCases

----------------------------------------------------------------------------
(* The theorems.                                                           *)

\* Every step, of a client, a wait or a callback, keeps the invariant.
THEOREM WaitInvariance == WaitSpec => []FullInv
BY WaitInitFull, WaitNextFull, PTL DEF WaitSpec

\* Blocking waits leave no timepoint behind in a heap: when its value was
\* published or its semaphore failed, a thread is on its way to take it out.
THEOREM WaitStrandsNothing == WaitSpec => []NoTimepointIsStranded
BY WaitInvariance, PTL DEF FullInv, Inv

\* A timepoint has one owner, and when iree_async_semaphore_multi_wait has
\* returned, no callback that would touch its stack is pending, on a dispatch
\* list or running.
THEOREM WaitOutlives == WaitSpec => []WaitOutlivesCallbacks
BY WaitInvariance, FullOutlives, PTL

\* A multi-wait returns OK only if its operands were reached, and a failure
\* only if an operand failed with it.
THEOREM WaitIsTruthful == WaitSpec => []WaitResultIsTrue
BY WaitInvariance, FullIsTrue, PTL

\* With blocking waits, too, the semaphores do nothing that semaphore.h does
\* not allow.
THEOREM WaitImplementsTimelineSafely == WaitSpec => TimelineSafety
<1>1. WaitInit => Timeline!Init
  <2>1. SUFFICES ASSUME WaitInit PROVE Timeline!Init
    OBVIOUS
  <2>2. \A p \in Timepoints : Promise(p) = [state |-> "idle"]
    BY <2>1 DEF WaitInit, Init, IdleTimepoint, Promise
  <2>. QED
    BY <2>1, <2>2 DEF WaitInit, Init, Timeline!Init, Timeline!Idle
<1>2. FullInv /\ [WaitNext]_allVars => [Timeline!Next]_(Timeline!vars)
  <2>1. SUFFICES ASSUME FullInv, [WaitNext]_allVars PROVE Timeline!Next \/ UNCHANGED Timeline!vars
    OBVIOUS
  <2>2. CASE UNCHANGED allVars
    BY <2>2, InvisibleStutters DEF allVars, vars, Invisible
  <2>3. CASE WaitNext
    BY <2>1, <2>3, WaitActionImplements DEF WaitNext, WaitAction, FullInv
  <2>. QED
    BY <2>1, <2>2, <2>3
<1>. QED
  BY <1>1, <1>2, WaitInvariance, PTL DEF WaitSpec, TimelineSafety
=============================================================================
