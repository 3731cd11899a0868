------------------------ MODULE AsyncSemaphoreProofs ------------------------
(***************************************************************************)
(* Proofs about AsyncSemaphore, for any number of semaphores, timepoints   *)
(* and threads and any calls they make: the heap and the dispatch lists    *)
(* own every timepoint exactly once, no timepoint is left behind in the    *)
(* heap, and every step is a step that semaphore.h allows (AsyncTimeline). *)
(*                                                                         *)
(* The invariant also allows the frames a multi-wait adds to a stack, so   *)
(* that the same lemmas serve the specification with blocking waits.       *)
(***************************************************************************)
EXTENDS AsyncSemaphore, FiniteSetTheorems, SequenceTheorems, TLAPS

----------------------------------------------------------------------------
(* The inductive invariant.                                                *)

SignalPcs == {"check", "cas", "recheck", "merge", "mark", "collect"}
AcquirePcs == {"resolve_failure", "resolve_value", "resolve_alloc", "acquire_failure",
               "acquire_value", "acquire_lock", "acquire_insert"}
WaitPcs == {"poll_value", "poll_failure", "register", "registered", "prepare",
            "recheck_condition", "commit", "asleep", "status", "cleanup", "join",
            "cb_failure", "cb_count", "cb_post", "cb_wake", "cb_complete"}
CallPcs == SignalPcs \cup AcquirePcs
           \cup {"fail", "flush", "deinit", "dispatch", "cancel", "taint", "merge_frontier"}

Statuses == {"ok"} \cup AllFailures

FrameSet ==
  [pc : CallPcs \cup WaitPcs, sem : Semaphores \cup {None}, value : Nat,
   frontier : [Axes -> Nat], status : Statuses, list : SUBSET Timepoints,
   tp : Timepoints \cup {None}, kind : {"signal", "untainted", "publish"}, relay : BOOLEAN]

TimepointSet ==
  [state : TimepointStates, sem : Semaphores \cup {None}, min : Nat, late : BOOLEAN,
   status : Statuses, callback : {"user", "link", "wait"},
   target : Semaphores \cup {None}, targetValue : Nat]

Typed ==
  /\ timeline_value \in [Semaphores -> Nat]
  /\ failure_status \in [Semaphores -> Statuses]
  /\ timepoints \in [Semaphores -> SUBSET Timepoints]
  /\ mutex \in [Semaphores -> Threads \cup {None}]
  /\ alive \in [Semaphores -> BOOLEAN]
  /\ tp \in [Timepoints -> TimepointSet]
  /\ stack \in [Threads -> Seq(FrameSet)]
  /\ todo \in [Threads -> Seq(Calls)]

\* A timepoint that was ever registered knows its semaphore; one registered
\* after the failure is never indexed; the heap holds the pending ones.
TimepointOK(p) ==
  /\ tp[p].state # "idle" => tp[p].sem \in Semaphores
  /\ tp[p].callback = "link" => tp[p].target \in Semaphores
  /\ tp[p].state # "idle" /\ tp[p].late => Failed(tp[p].sem)
  /\ tp[p].state = "pending" => ~tp[p].late
  /\ \A s \in Semaphores : p \in timepoints[s] <=> tp[p].state = "pending" /\ tp[p].sem = s

HeapInv == \A p \in Timepoints : TimepointOK(p)

\* The status with which the timepoint may be called back, as in AsyncTimeline.
Reason(p, status) ==
  \/ status = "ok" /\ timeline_value[tp[p].sem] >= tp[p].min /\ ~tp[p].late
  \/ status # "ok" /\ status = failure_status[tp[p].sem]
  \/ status = "cancelled" /\ ~alive[tp[p].sem]

\* The timepoints a frame answers for.
Claim(f) == IF f.pc \in AcquirePcs THEN {f.tp} ELSE f.list

\* What the next step of a frame relies on.
FrameOK(t, f) ==
  /\ f.pc \in CallPcs => f.sem \in Semaphores
  /\ f.pc \in AcquirePcs =>
       /\ f.tp \in Timepoints /\ tp[f.tp].state = "acquiring" /\ tp[f.tp].sem = f.sem
       /\ f.pc \notin {"resolve_failure", "acquire_failure"} => ~tp[f.tp].late
  /\ f.pc # "dispatch" => f.list = {}
  /\ \A p \in f.list :
       tp[p].state = "detached" /\ tp[p].sem = f.sem /\ Reason(p, f.status)
  /\ f.pc \in {"recheck", "merge", "mark", "collect"} => timeline_value[f.sem] >= f.value
  /\ f.pc = "fail" => f.status # "ok"
  /\ f.pc = "flush" => f.status # "ok" /\ f.status = failure_status[f.sem]
  /\ f.pc = "deinit" => ~alive[f.sem]
  /\ f.pc = "cancel" => f.tp \in Timepoints /\ tp[f.tp].state # "idle"
  /\ f.pc = "acquire_insert" => mutex[f.sem] = t

\* Below the top of a stack a thread dispatches, or registers for a wait.
FrameInv ==
  \A t \in Threads : \A i \in 1..Len(stack[t]) :
    /\ FrameOK(t, stack[t][i])
    /\ i > 1 => stack[t][i].pc \in {"dispatch", "registered"}

\* No two frames answer for the same timepoint.
ClaimInv ==
  \A t, u \in Threads : \A i \in 1..Len(stack[t]), j \in 1..Len(stack[u]) :
    \A p \in Timepoints :
      p \in Claim(stack[t][i]) /\ p \in Claim(stack[u][j]) => t = u /\ i = j

\* The frame will take the timepoints of s waiting for at most v out.
Collects(f, s, v) ==
  /\ f.sem = s
  /\ \/ f.pc \in {"merge", "mark", "collect"} /\ f.value >= v
     \/ f.pc = "recheck" /\ f.value >= v /\ ~Failed(s)
     \/ f.pc = "flush"

\* A value published while a registration holds the lock is still collected.
InsertInv ==
  \A t \in Threads : \A i \in 1..Len(stack[t]) :
    /\ stack[t][i].pc = "acquire_insert" /\ ~Failed(stack[t][i].sem)
    /\ timeline_value[stack[t][i].sem] >= tp[stack[t][i].tp].min
    => WillCollect(stack[t][i].sem, tp[stack[t][i].tp].min)

Inv == Typed /\ HeapInv /\ FrameInv /\ ClaimInv /\ NoTimepointIsStranded /\ InsertInv

----------------------------------------------------------------------------
(* How a step of thread t changes its stack: the first k frames are new,   *)
(* below them are the frames that were below the top, moved by d.          *)

Shape(t, k, d) ==
  /\ stack' \in [Threads -> Seq(FrameSet)]
  /\ \A u \in Threads : u # t => stack'[u] = stack[u]
  /\ k <= Len(stack'[t])
  /\ \A i \in 1..Len(stack'[t]) :
       i > k => i + d \in 2..Len(stack[t]) /\ stack'[t][i] = stack[t][i + d]
  /\ \A j \in 2..Len(stack[t]) :
       j - d \in 1..Len(stack'[t]) /\ j - d > k /\ stack'[t][j - d] = stack[t][j]

\* The parts of a nonempty stack.
LEMMA StackParts ==
  ASSUME NEW q \in Seq(FrameSet), q # <<>>
  PROVE  /\ Len(q) \in Nat /\ Len(q) >= 1 /\ Head(q) = q[1] /\ q[1] \in FrameSet
         /\ Tail(q) \in Seq(FrameSet) /\ Len(Tail(q)) = Len(q) - 1
         /\ \A i \in 1..Len(Tail(q)) : Tail(q)[i] = q[i + 1]
<1>1. Len(q) \in Nat /\ Len(q) >= 1 /\ Head(q) = q[1]
  BY EmptySeq, LenProperties
<1>2. q[1] \in FrameSet
  BY <1>1, ElementOfSeq
<1>. QED
  BY <1>1, <1>2, HeadTailProperties

\* One frame on top of another stack.
LEMMA Pushed ==
  ASSUME NEW f \in FrameSet, NEW q \in Seq(FrameSet)
  PROVE  /\ <<f>> \o q \in Seq(FrameSet) /\ Len(<<f>> \o q) = Len(q) + 1
         /\ (<<f>> \o q)[1] = f
         /\ \A i \in 1..Len(q) + 1 : i > 1 => (<<f>> \o q)[i] = q[i - 1]
<1>1. <<f>> \in Seq(FrameSet) /\ Len(<<f>>) = 1 /\ <<f>>[1] = f
  OBVIOUS
<1>2. Len(q) \in Nat
  BY LenProperties
<1>. QED
  BY <1>1, <1>2, ConcatProperties

LEMMA BecomeShape ==
  ASSUME stack \in [Threads -> Seq(FrameSet)], NEW t \in Threads, stack[t] # <<>>,
         NEW f \in FrameSet, Become(t, f)
  PROVE  Shape(t, 1, 0) /\ stack'[t][1] = f /\ Top(t) = stack[t][1]
<1>1. stack'[t] = <<f>> \o Tail(stack[t]) /\ \A u \in Threads : u # t => stack'[u] = stack[u]
  BY DEF Become
<1>2. /\ Len(stack[t]) \in Nat /\ Len(stack[t]) >= 1 /\ Tail(stack[t]) \in Seq(FrameSet)
      /\ Head(stack[t]) = stack[t][1]
      /\ Len(Tail(stack[t])) = Len(stack[t]) - 1
      /\ \A i \in 1..Len(Tail(stack[t])) : Tail(stack[t])[i] = stack[t][i + 1]
  BY StackParts
<1>3. /\ stack'[t] \in Seq(FrameSet) /\ Len(stack'[t]) = Len(stack[t])
      /\ stack'[t][1] = f
      /\ \A i \in 1..Len(stack[t]) : i > 1 => stack'[t][i] = Tail(stack[t])[i - 1]
  BY <1>1, <1>2, Pushed
<1>4. \A i \in 1..Len(stack[t]) : i > 1 => stack'[t][i] = stack[t][i]
  BY <1>2, <1>3
<1>5. stack' \in [Threads -> Seq(FrameSet)]
  BY <1>1, <1>3 DEF Become
<1>. QED
  BY <1>1, <1>2, <1>3, <1>4, <1>5 DEF Shape, Top

LEMMA ReturnShape ==
  ASSUME stack \in [Threads -> Seq(FrameSet)], NEW t \in Threads, stack[t] # <<>>, Return(t)
  PROVE  Shape(t, 0, 1) /\ Top(t) = stack[t][1]
<1>1. stack'[t] = Tail(stack[t]) /\ \A u \in Threads : u # t => stack'[u] = stack[u]
  BY DEF Return
<1>2. /\ Len(stack[t]) \in Nat /\ Len(stack[t]) >= 1 /\ Tail(stack[t]) \in Seq(FrameSet)
      /\ Head(stack[t]) = stack[t][1]
      /\ Len(Tail(stack[t])) = Len(stack[t]) - 1
      /\ \A i \in 1..Len(Tail(stack[t])) : Tail(stack[t])[i] = stack[t][i + 1]
  BY StackParts
<1>3. stack' \in [Threads -> Seq(FrameSet)]
  BY <1>1, <1>2 DEF Return
<1>4. \A j \in 2..Len(stack[t]) : stack'[t][j - 1] = stack[t][j]
  BY <1>1, <1>2
<1>. QED
  BY <1>1, <1>2, <1>3, <1>4 DEF Shape, Top

\* A nested call above a changed top.
LEMMA PushShape ==
  ASSUME stack \in [Threads -> Seq(FrameSet)], NEW t \in Threads, stack[t] # <<>>,
         NEW g \in FrameSet, NEW f \in FrameSet,
         stack' = [stack EXCEPT ![t] = <<g>> \o (<<f>> \o Tail(@))]
  PROVE  /\ Shape(t, 2, -1) /\ stack'[t][1] = g /\ stack'[t][2] = f
         /\ Top(t) = stack[t][1]
<1>1. /\ stack'[t] = <<g>> \o (<<f>> \o Tail(stack[t]))
      /\ \A u \in Threads : u # t => stack'[u] = stack[u]
  OBVIOUS
<1>2. /\ Len(stack[t]) \in Nat /\ Len(stack[t]) >= 1 /\ Tail(stack[t]) \in Seq(FrameSet)
      /\ Head(stack[t]) = stack[t][1]
      /\ Len(Tail(stack[t])) = Len(stack[t]) - 1
      /\ \A i \in 1..Len(Tail(stack[t])) : Tail(stack[t])[i] = stack[t][i + 1]
  BY StackParts
<1>3. PICK q : q = <<f>> \o Tail(stack[t])
  OBVIOUS
<1>4. /\ q \in Seq(FrameSet) /\ Len(q) = Len(stack[t]) /\ q[1] = f
      /\ \A i \in 1..Len(stack[t]) : i > 1 => q[i] = Tail(stack[t])[i - 1]
  BY <1>2, <1>3, Pushed
<1>5. \A i \in 1..Len(stack[t]) : i > 1 => q[i] = stack[t][i]
  BY <1>2, <1>4
<1>6. /\ stack'[t] \in Seq(FrameSet) /\ Len(stack'[t]) = Len(stack[t]) + 1
      /\ stack'[t][1] = g
      /\ \A i \in 1..Len(stack[t]) + 1 : i > 1 => stack'[t][i] = q[i - 1]
  BY <1>1, <1>3, <1>4, Pushed
<1>7. stack' \in [Threads -> Seq(FrameSet)]
  BY <1>1, <1>6
<1>8. stack'[t][2] = f
  BY <1>2, <1>4, <1>6
<1>9. /\ \A i \in 1..Len(stack'[t]) :
           i > 2 => i + (-1) \in 2..Len(stack[t]) /\ stack'[t][i] = stack[t][i + (-1)]
      /\ \A j \in 2..Len(stack[t]) :
           /\ j - (-1) \in 1..Len(stack'[t]) /\ j - (-1) > 2
           /\ stack'[t][j - (-1)] = stack[t][j]
  BY <1>2, <1>5, <1>6
<1>10. 2 <= Len(stack'[t])
  BY <1>2, <1>6
<1>. QED
  BY <1>1, <1>2, <1>6, <1>7, <1>8, <1>9, <1>10 DEF Shape, Top

LEMMA BeginShape ==
  ASSUME stack \in [Threads -> Seq(FrameSet)], NEW t \in Threads, stack[t] = <<>>,
         NEW f \in FrameSet, Begin(t, f)
  PROVE  Shape(t, 1, 0) /\ stack'[t][1] = f
<1>1. stack'[t] = <<f>> /\ \A u \in Threads : u # t => stack'[u] = stack[u]
  BY DEF Begin
<1>2. <<f>> \in Seq(FrameSet) /\ Len(<<f>>) = 1 /\ <<f>>[1] = f /\ Len(stack[t]) = 0
  OBVIOUS
<1>3. stack' \in [Threads -> Seq(FrameSet)]
  BY <1>1, <1>2 DEF Begin
<1>. QED
  BY <1>1, <1>2, <1>3 DEF Shape

----------------------------------------------------------------------------
(* What a step of one thread leaves alone.                                 *)

\* Timelines grow, failures stay, the dead stay dead, and a thread never
\* unlocks for another.
Benign(t) ==
  /\ \A s \in Semaphores : timeline_value'[s] >= timeline_value[s]
  /\ \A s \in Semaphores : Failed(s) => failure_status'[s] = failure_status[s]
  /\ \A s \in Semaphores : ~alive[s] => ~alive'[s]
  /\ \A s \in Semaphores : \A u \in Threads : u # t /\ mutex[s] = u => mutex'[s] = u

Numbers ==
  /\ timeline_value \in [Semaphores -> Nat] /\ timeline_value' \in [Semaphores -> Nat]
  /\ tp \in [Timepoints -> TimepointSet]

LEMMA FrameStable ==
  ASSUME Numbers, NEW t \in Threads, NEW u \in Threads, Benign(t),
         NEW f \in FrameSet, FrameOK(u, f), u # t \/ f.pc # "acquire_insert",
         \A p \in Claim(f) : tp'[p] = tp[p],
         f.pc = "cancel" => tp'[f.tp].state # "idle"
  PROVE  FrameOK(u, f)'
<1>0. /\ f.list \in SUBSET Timepoints /\ f.value \in Nat
      /\ \A p \in Timepoints : tp[p].min \in Nat
  BY DEF FrameSet, Numbers, TimepointSet
<1>1. f.pc \in CallPcs => f.sem \in Semaphores
  BY DEF FrameOK
<1>2. f.pc \in AcquirePcs => /\ f.tp \in Timepoints /\ tp'[f.tp].state = "acquiring"
                             /\ tp'[f.tp].sem = f.sem
                             /\ f.pc \notin {"resolve_failure", "acquire_failure"} => ~tp'[f.tp].late
  BY DEF FrameOK, Claim
<1>3. \A p \in f.list : tp'[p].state = "detached" /\ tp'[p].sem = f.sem /\ Reason(p, f.status)'
  <2>1. SUFFICES ASSUME NEW p \in f.list
                 PROVE  tp'[p].state = "detached" /\ tp'[p].sem = f.sem /\ Reason(p, f.status)'
    OBVIOUS
  <2>2. f.pc = "dispatch"
    BY <2>1 DEF FrameOK
  <2>3. tp'[p] = tp[p] /\ f.sem \in Semaphores
    BY <1>1, <2>1, <2>2 DEF Claim, AcquirePcs, CallPcs
  <2>4. tp[p].state = "detached" /\ tp[p].sem = f.sem /\ Reason(p, f.status)
    BY <2>1 DEF FrameOK
  <2>5. Reason(p, f.status)'
    BY <1>0, <2>3, <2>4 DEF Reason, Benign, Failed, Numbers
  <2>. QED
    BY <2>3, <2>4, <2>5
<1>4. f.pc \in {"recheck", "merge", "mark", "collect"} => timeline_value'[f.sem] >= f.value
  BY <1>0, <1>1 DEF FrameOK, Benign, Numbers, CallPcs, SignalPcs
<1>5. f.pc = "flush" => f.status # "ok" /\ f.status = failure_status'[f.sem]
  BY <1>1 DEF FrameOK, Benign, Failed, CallPcs
<1>6. f.pc = "deinit" => ~alive'[f.sem]
  BY <1>1 DEF FrameOK, Benign, CallPcs
<1>7. f.pc = "acquire_insert" => mutex'[f.sem] = u
  BY <1>1 DEF FrameOK, Benign, CallPcs, AcquirePcs
<1>8. /\ f.pc # "dispatch" => f.list = {}
      /\ f.pc = "fail" => f.status # "ok"
      /\ f.pc = "cancel" => f.tp \in Timepoints
  BY DEF FrameOK
<1>. QED
  BY <1>1, <1>2, <1>3, <1>4, <1>5, <1>6, <1>7, <1>8 DEF FrameOK

\* A step touches only timepoints its top frame answers for, or nobody does,
\* and no registered timepoint becomes idle again.
Touches(t, P) ==
  /\ \A p \in Timepoints \ P : tp'[p] = tp[p]
  /\ \A p \in Timepoints : tp[p].state # "idle" => tp'[p].state # "idle"
  /\ \A p \in P : \A u \in Threads : \A i \in 1..Len(stack[u]) :
       p \in Claim(stack[u][i]) => u = t /\ i = 1

LEMMA FramesKept ==
  ASSUME Numbers, FrameInv, stack \in [Threads -> Seq(FrameSet)],
         NEW t \in Threads, Benign(t), NEW P, Touches(t, P),
         NEW k \in 0..2, NEW d \in Int, Shape(t, k, d),
         \A i \in 1..k : \A f : f = stack'[t][i] => FrameOK(t, f)',
         \A i \in 1..k : i > 1 => stack'[t][i].pc \in {"dispatch", "registered"}
  PROVE  FrameInv'
<1>1. ASSUME NEW u \in Threads, NEW i \in 1..Len(stack[u]), u # t \/ i > 1
      PROVE  \A f : f = stack[u][i] => FrameOK(u, f)'
  <2>1. SUFFICES ASSUME NEW f, f = stack[u][i] PROVE FrameOK(u, f)'
    OBVIOUS
  <2>2. f \in FrameSet /\ FrameOK(u, f)
    BY <2>1, ElementOfSeq DEF FrameInv
  <2>3. u # t \/ f.pc # "acquire_insert"
    BY <1>1, <2>1 DEF FrameInv
  <2>4. Claim(f) \subseteq Timepoints
    BY <2>2 DEF Claim, FrameOK, FrameSet
  <2>5. \A p \in Claim(f) : tp'[p] = tp[p]
    BY <1>1, <2>1, <2>4 DEF Touches
  <2>6. f.pc = "cancel" => tp'[f.tp].state # "idle"
    BY <2>2 DEF FrameOK, Touches
  <2>. QED
    BY <2>2, <2>3, <2>5, <2>6, FrameStable
<1>2. SUFFICES ASSUME NEW u \in Threads, NEW i \in 1..Len(stack'[u]), NEW f, f = stack'[u][i]
               PROVE  /\ FrameOK(u, f)'
                      /\ i > 1 => f.pc \in {"dispatch", "registered"}
  BY DEF FrameInv
<1>0. \A v \in Threads : Len(stack[v]) \in Nat /\ Len(stack'[v]) \in Nat
  BY LenProperties DEF Shape
<1>3. CASE u # t
  BY <1>0, <1>1, <1>2, <1>3 DEF Shape, FrameInv
<1>4. CASE u = t /\ i <= k
  BY <1>0, <1>2, <1>4
<1>5. CASE u = t /\ i > k
  <2>1. i + d \in 2..Len(stack[t]) /\ f = stack[t][i + d]
    BY <1>2, <1>5 DEF Shape
  <2>2. i + d \in 1..Len(stack[t]) /\ i + d > 1
    BY <1>0, <2>1
  <2>. QED
    BY <1>1, <1>5, <2>1, <2>2 DEF FrameInv
<1>. QED
  BY <1>0, <1>3, <1>4, <1>5

\* The new frames answer for what the old top answered for, or for timepoints
\* nobody answered for.
LEMMA ClaimsKept ==
  ASSUME ClaimInv, stack \in [Threads -> Seq(FrameSet)],
         NEW t \in Threads, NEW k \in 0..2, NEW d \in Int, Shape(t, k, d),
         \A i \in 1..k : \A p \in Timepoints : p \in Claim(stack'[t][i]) =>
           \A u \in Threads : \A j \in 1..Len(stack[u]) :
             p \in Claim(stack[u][j]) => u = t /\ j = 1,
         \A i, j \in 1..k : \A p \in Timepoints :
           p \in Claim(stack'[t][i]) /\ p \in Claim(stack'[t][j]) => i = j
  PROVE  ClaimInv'
<1>0. \A v \in Threads : Len(stack[v]) \in Nat /\ Len(stack'[v]) \in Nat
  BY LenProperties DEF Shape
<1>1. ASSUME NEW u \in Threads, NEW i \in 1..Len(stack'[u]), u # t \/ i > k
      PROVE  \E h \in 1..Len(stack[u]) : /\ stack'[u][i] = stack[u][h]
                                         /\ u = t => h = i + d /\ h > 1
                                         /\ u # t => h = i
  BY <1>0, <1>1 DEF Shape
<1>2. SUFFICES ASSUME NEW u \in Threads, NEW w \in Threads, NEW i \in 1..Len(stack'[u]),
                      NEW j \in 1..Len(stack'[w]), NEW p \in Timepoints,
                      p \in Claim(stack'[u][i]), p \in Claim(stack'[w][j])
               PROVE  u = w /\ i = j
  BY DEF ClaimInv, Claim
<1>3. CASE (u # t \/ i > k) /\ (w # t \/ j > k)
  <2>1. PICK h \in 1..Len(stack[u]) : /\ stack'[u][i] = stack[u][h]
                                      /\ u = t => h = i + d /\ h > 1
                                      /\ u # t => h = i
    BY <1>1, <1>3
  <2>2. PICK l \in 1..Len(stack[w]) : /\ stack'[w][j] = stack[w][l]
                                      /\ w = t => l = j + d /\ l > 1
                                      /\ w # t => l = j
    BY <1>1, <1>3
  <2>3. u = w /\ h = l
    BY <1>2, <2>1, <2>2 DEF ClaimInv
  <2>. QED
    BY <1>0, <2>1, <2>2, <2>3
<1>4. CASE u = t /\ i <= k /\ (w # t \/ j > k)
  <2>1. PICK l \in 1..Len(stack[w]) : /\ stack'[w][j] = stack[w][l]
                                      /\ w = t => l = j + d /\ l > 1
                                      /\ w # t => l = j
    BY <1>1, <1>4
  <2>2. w = t /\ l = 1
    BY <1>0, <1>2, <1>4, <2>1
  <2>. QED
    BY <2>1, <2>2
<1>5. CASE w = t /\ j <= k /\ (u # t \/ i > k)
  <2>1. PICK l \in 1..Len(stack[u]) : /\ stack'[u][i] = stack[u][l]
                                      /\ u = t => l = i + d /\ l > 1
                                      /\ u # t => l = i
    BY <1>1, <1>5
  <2>2. u = t /\ l = 1
    BY <1>0, <1>2, <1>5, <2>1
  <2>. QED
    BY <2>1, <2>2
<1>6. CASE u = t /\ w = t /\ i <= k /\ j <= k
  BY <1>0, <1>2, <1>6
<1>. QED
  BY <1>0, <1>3, <1>4, <1>5, <1>6

\* A frame that collects goes on collecting, wherever the stack puts it.
LEMMA CollectKept ==
  ASSUME stack \in [Threads -> Seq(FrameSet)], NEW s, NEW v,
         failure_status'[s] = failure_status[s],
         NEW t \in Threads, NEW k \in 0..2, NEW d \in Int, Shape(t, k, d),
         stack[t] # <<>> /\ Collects(stack[t][1], s, v) => \E i \in 1..k : Collects(stack'[t][i], s, v),
         WillCollect(s, v)
  PROVE  WillCollect(s, v)'
<1>0. \A u \in Threads : Len(stack[u]) \in Nat /\ Len(stack'[u]) \in Nat
  BY LenProperties DEF Shape
<1>1. PICK u \in Threads : \E i \in 1..Len(stack[u]) : Collects(stack[u][i], s, v)
  BY DEF WillCollect, Collects
<1>2. PICK i \in 1..Len(stack[u]) : Collects(stack[u][i], s, v)
  BY <1>1
<1>3. SUFFICES \E w \in Threads : \E j \in 1..Len(stack'[w]) : Collects(stack'[w][j], s, v)
  BY DEF WillCollect, Collects, Failed
<1>4. CASE u # t
  BY <1>2, <1>4 DEF Shape
<1>5. CASE u = t /\ i = 1
  <2>1. stack[t] # <<>>
    BY <1>0, <1>5, EmptySeq
  <2>2. PICK j \in 1..k : Collects(stack'[t][j], s, v)
    BY <1>2, <1>5, <2>1
  <2>3. j \in 1..Len(stack'[t])
    BY <1>0 DEF Shape
  <2>. QED
    BY <2>2, <2>3
<1>6. CASE u = t /\ i > 1
  <2>1. i \in 2..Len(stack[t])
    BY <1>0, <1>6
  <2>2. i - d \in 1..Len(stack'[t]) /\ stack'[t][i - d] = stack[t][i]
    BY <2>1 DEF Shape
  <2>. QED
    BY <1>2, <1>6, <2>2
<1>. QED
  BY <1>0, <1>4, <1>5, <1>6

\* A step that publishes nothing strands nothing.
LEMMA StrandKept ==
  ASSUME Typed, NoTimepointIsStranded,
         timeline_value' = timeline_value, failure_status' = failure_status,
         \A s \in Semaphores : timepoints'[s] \subseteq timepoints[s],
         \A s \in Semaphores : \A p \in timepoints'[s] : tp'[p].min = tp[p].min,
         \A s \in Semaphores : \A p \in timepoints'[s] :
            WillCollect(s, tp[p].min) => WillCollect(s, tp[p].min)'
  PROVE  NoTimepointIsStranded'
<1>1. SUFFICES ASSUME NEW s \in Semaphores, NEW p \in timepoints'[s],
                      Failed(s)' \/ timeline_value'[s] >= tp'[p].min
               PROVE  WillCollect(s, tp[p].min)'
  BY DEF NoTimepointIsStranded, WillCollect, Failed
<1>2. p \in timepoints[s] /\ (Failed(s) \/ timeline_value[s] >= tp[p].min)
  BY <1>1 DEF Failed
<1>3. WillCollect(s, tp[p].min)
  BY <1>2 DEF NoTimepointIsStranded
<1>. QED
  BY <1>1, <1>3

LEMMA InsertPrimed ==
  ASSUME \A u \in Threads : \A i \in 1..Len(stack'[u]) : \A f, v :
           /\ f = stack'[u][i] /\ f.pc = "acquire_insert" /\ ~Failed(f.sem)'
           /\ v = tp'[f.tp].min /\ timeline_value'[f.sem] >= v
           => WillCollect(f.sem, v)'
  PROVE  InsertInv'
BY DEF InsertInv, WillCollect, Failed

\* Nor does it leave a value uncollected that a registration has passed.
LEMMA InsertKept ==
  ASSUME Typed, FrameInv, InsertInv, timeline_value' = timeline_value, failure_status' = failure_status,
         NEW t \in Threads, NEW k \in 0..2, NEW d \in Int, Shape(t, k, d), NEW P, Touches(t, P),
         \A i \in 1..k : stack'[t][i].pc = "acquire_insert" =>
           ~(timeline_value'[stack'[t][i].sem] >= tp'[stack'[t][i].tp].min),
         \A s \in Semaphores : \A v \in Nat : \A u \in Threads :
           u # t /\ mutex[s] = u /\ WillCollect(s, v) => WillCollect(s, v)'
  PROVE  InsertInv'
<1>0. \A v \in Threads : Len(stack[v]) \in Nat /\ Len(stack'[v]) \in Nat
  BY LenProperties DEF Shape, Typed
<1>1. SUFFICES ASSUME NEW u \in Threads, NEW i \in 1..Len(stack'[u]), NEW f, f = stack'[u][i],
                      f.pc = "acquire_insert", ~Failed(f.sem)',
                      timeline_value'[f.sem] >= tp'[f.tp].min,
                      NEW v, v = tp'[f.tp].min
               PROVE  WillCollect(f.sem, v)'
  BY InsertPrimed, Zenon
<1>2. u # t
  <2>1. CASE u = t /\ i <= k
    BY <1>0, <1>1, <2>1
  <2>2. CASE u = t /\ i > k
    <3>1. i + d \in 2..Len(stack[t]) /\ f = stack[t][i + d]
      BY <1>1, <2>2 DEF Shape
    <3>2. i + d \in 1..Len(stack[t]) /\ i + d > 1
      BY <1>0, <3>1
    <3>. QED
      BY <1>1, <3>1, <3>2 DEF FrameInv
  <2>. QED
    BY <1>0, <2>1, <2>2
<1>3. i \in 1..Len(stack[u]) /\ f = stack[u][i]
  BY <1>1, <1>2 DEF Shape
<1>4. FrameOK(u, f)
  BY <1>3 DEF FrameInv
<1>5. f.tp \in Timepoints /\ f.sem \in Semaphores /\ mutex[f.sem] = u /\ Claim(f) = {f.tp}
  BY <1>1, <1>4 DEF FrameOK, AcquirePcs, CallPcs, Claim
<1>6. tp'[f.tp] = tp[f.tp]
  BY <1>2, <1>3, <1>5 DEF Touches
<1>7. v \in Nat /\ v = tp[f.tp].min
  BY <1>1, <1>5, <1>6 DEF Typed, TimepointSet
<1>8. WillCollect(f.sem, v)
  BY <1>1, <1>3, <1>6, <1>7 DEF InsertInv, Failed
<1>. QED
  BY <1>2, <1>5, <1>7, <1>8

\* The frame a thread is in.
LEMMA TopFacts ==
  ASSUME Typed, FrameInv, NEW t \in Threads, stack[t] # <<>>
  PROVE  /\ Top(t) = stack[t][1] /\ Top(t) \in FrameSet /\ 1 \in 1..Len(stack[t])
         /\ FrameOK(t, Top(t))
<1>1. stack[t] \in Seq(FrameSet)
  BY DEF Typed
<1>2. Len(stack[t]) \in Nat /\ Len(stack[t]) >= 1 /\ Head(stack[t]) = stack[t][1] /\ stack[t][1] \in FrameSet
  BY <1>1, StackParts
<1>. QED
  BY <1>2 DEF Top, FrameInv

Unmoved == UNCHANGED <<timeline_value, failure_status, timepoints, mutex, alive, tp>>

\* A step that changes only the stack, and claims nothing new.
LEMMA QuietStep ==
  ASSUME Inv, Unmoved, todo' \in [Threads -> Seq(Calls)],
         NEW t \in Threads, NEW k \in 0..1, NEW d \in Int, Shape(t, k, d),
         k = 1 => /\ stack'[t][1].pc # "acquire_insert"
                  /\ \A f : f = stack'[t][1] => FrameOK(t, f)
                  /\ Claim(stack'[t][1]) \in SUBSET (IF stack[t] = <<>> THEN {} ELSE Claim(stack[t][1])),
         stack[t] # <<>> => \A s, v : Collects(stack[t][1], s, v) =>
                              k = 1 /\ Collects(stack'[t][1], s, v)
  PROVE  Inv'
<1>0. Typed /\ HeapInv /\ FrameInv /\ ClaimInv /\ NoTimepointIsStranded /\ InsertInv
  BY DEF Inv
<1>1. Typed' /\ HeapInv'
  BY <1>0 DEF Typed, Shape, Unmoved, HeapInv, TimepointOK, Failed
<1>2. Benign(t) /\ Touches(t, {}) /\ Numbers /\ k \in 0..2
  BY <1>0 DEF Unmoved, Benign, Touches, Typed, Numbers
<1>3. stack \in [Threads -> Seq(FrameSet)]
  BY <1>0 DEF Typed
<1>4. FrameInv'
  <2>1. \A i \in 1..k : \A f : f = stack'[t][i] => FrameOK(t, f)'
    BY <1>0 DEF Unmoved, FrameOK, Reason
  <2>2. \A i \in 1..k : i > 1 => stack'[t][i].pc \in {"dispatch", "registered"}
    OBVIOUS
  <2>. QED
    BY <1>0, <1>2, <1>3, <2>1, <2>2, FramesKept
<1>5. ClaimInv'
  <2>1. stack[t] # <<>> => 1 \in 1..Len(stack[t])
    BY <1>0, TopFacts
  <2>2. \A i \in 1..k : \A p \in Timepoints : p \in Claim(stack'[t][i]) =>
           \A u \in Threads : \A j \in 1..Len(stack[u]) :
             p \in Claim(stack[u][j]) => u = t /\ j = 1
    BY <1>0, <2>1 DEF ClaimInv
  <2>3. \A i, j \in 1..k : \A p \in Timepoints :
           p \in Claim(stack'[t][i]) /\ p \in Claim(stack'[t][j]) => i = j
    OBVIOUS
  <2>. QED
    BY <1>0, <1>2, <1>3, <2>2, <2>3, ClaimsKept
<1>6. \A s, v : WillCollect(s, v) => WillCollect(s, v)'
  <2>1. SUFFICES ASSUME NEW s, NEW v, WillCollect(s, v) PROVE WillCollect(s, v)'
    OBVIOUS
  <2>2. stack[t] # <<>> /\ Collects(stack[t][1], s, v) => \E i \in 1..k : Collects(stack'[t][i], s, v)
    OBVIOUS
  <2>. QED
    BY <1>2, <1>3, <2>1, <2>2, CollectKept DEF Unmoved
<1>7. NoTimepointIsStranded'
  BY <1>0, <1>6, StrandKept DEF Unmoved
<1>8. InsertInv'
  <2>1. \A i \in 1..k : stack'[t][i].pc = "acquire_insert" =>
           ~(timeline_value'[stack'[t][i].sem] >= tp'[stack'[t][i].tp].min)
    OBVIOUS
  <2>. QED
    BY <1>0, <1>2, <1>6, <2>1, InsertKept DEF Unmoved
<1>. QED
  BY <1>1, <1>4, <1>5, <1>7, <1>8 DEF Inv

LEMMA QuietBecome ==
  ASSUME Inv, Unmoved, todo' = todo, NEW t \in Threads, stack[t] # <<>>,
         NEW f \in FrameSet, Become(t, f), f.pc # "acquire_insert",
         FrameOK(t, f), Claim(f) \subseteq Claim(Top(t)),
         \A s, v : Collects(Top(t), s, v) => Collects(f, s, v)
  PROVE  Inv'
<1>1. stack \in [Threads -> Seq(FrameSet)] /\ todo' \in [Threads -> Seq(Calls)]
  BY DEF Inv, Typed
<1>2. Shape(t, 1, 0) /\ stack'[t][1] = f /\ Top(t) = stack[t][1]
  BY <1>1, BecomeShape
<1>10. 1 \in 0..1 /\ 0 \in Int
  OBVIOUS
<1>11. 1 = 1 => /\ stack'[t][1].pc # "acquire_insert"
                /\ \A g : g = stack'[t][1] => FrameOK(t, g)
                /\ Claim(stack'[t][1]) \in SUBSET (IF stack[t] = <<>> THEN {} ELSE Claim(stack[t][1]))
  BY <1>2
<1>12. stack[t] # <<>> => \A s, v : Collects(stack[t][1], s, v) =>
                             1 = 1 /\ Collects(stack'[t][1], s, v)
  BY <1>2
<1>. QED
  BY <1>1, <1>2, <1>10, <1>11, <1>12, QuietStep

LEMMA QuietReturn ==
  ASSUME Inv, Unmoved, todo' = todo, NEW t \in Threads, stack[t] # <<>>, Return(t),
         \A s, v : ~Collects(Top(t), s, v)
  PROVE  Inv'
<1>1. stack \in [Threads -> Seq(FrameSet)] /\ todo' \in [Threads -> Seq(Calls)]
  BY DEF Inv, Typed
<1>2. Shape(t, 0, 1) /\ Top(t) = stack[t][1]
  BY <1>1, ReturnShape
<1>10. 0 \in 0..1 /\ 1 \in Int
  OBVIOUS
<1>11. 0 = 1 => /\ stack'[t][1].pc # "acquire_insert"
                /\ \A g : g = stack'[t][1] => FrameOK(t, g)
                /\ Claim(stack'[t][1]) \in SUBSET (IF stack[t] = <<>> THEN {} ELSE Claim(stack[t][1]))
  BY <1>2
<1>12. stack[t] # <<>> => \A s, v : Collects(stack[t][1], s, v) =>
                             0 = 1 /\ Collects(stack'[t][1], s, v)
  BY <1>2
<1>. QED
  BY <1>1, <1>2, <1>10, <1>11, <1>12, QuietStep

LEMMA QuietBegin ==
  ASSUME Inv, Unmoved, NEW t \in Threads, stack[t] = <<>>, todo[t] # <<>>,
         NEW f \in FrameSet, Begin(t, f), f.pc # "acquire_insert",
         FrameOK(t, f), Claim(f) = {}
  PROVE  Inv'
<1>1. stack \in [Threads -> Seq(FrameSet)]
  BY DEF Inv, Typed
<1>2. Shape(t, 1, 0) /\ stack'[t][1] = f
  BY <1>1, BeginShape
<1>3. todo' \in [Threads -> Seq(Calls)]
  <2>1. Tail(todo[t]) \in Seq(Calls)
    BY HeadTailProperties DEF Inv, Typed
  <2>. QED
    BY <2>1 DEF Begin, Inv, Typed
<1>10. 1 \in 0..1 /\ 0 \in Int
  OBVIOUS
<1>11. 1 = 1 => /\ stack'[t][1].pc # "acquire_insert"
                /\ \A g : g = stack'[t][1] => FrameOK(t, g)
                /\ Claim(stack'[t][1]) \in SUBSET (IF stack[t] = <<>> THEN {} ELSE Claim(stack[t][1]))
  BY <1>2
<1>12. stack[t] # <<>> => \A s, v : Collects(stack[t][1], s, v) =>
                             1 = 1 /\ Collects(stack'[t][1], s, v)
  BY <1>2
<1>. QED
  BY <1>2, <1>3, <1>10, <1>11, <1>12, QuietStep

----------------------------------------------------------------------------
(* The frames the calls start with.                                        *)

LEMMA NewFrame ==
  ASSUME NEW pc \in CallPcs \cup WaitPcs, NEW s \in Semaphores \cup {None}
  PROVE  /\ Frame(pc, s) \in FrameSet /\ Frame(pc, s).pc = pc /\ Frame(pc, s).sem = s
         /\ Frame(pc, s).list = {} /\ Frame(pc, s).status = "ok" /\ Frame(pc, s).value = 0
         /\ Frame(pc, s).relay = FALSE
BY DEF Frame, FrameSet, NoFrontier, Statuses

LEMMA GotoFrame ==
  ASSUME NEW f \in FrameSet, NEW pc \in CallPcs \cup WaitPcs, NEW g, g = [f EXCEPT !.pc = pc]
  PROVE  /\ g \in FrameSet /\ g.pc = pc /\ g.sem = f.sem /\ g.value = f.value
         /\ g.status = f.status /\ g.list = f.list /\ g.tp = f.tp /\ g.kind = f.kind
BY DEF FrameSet

LEMMA NewSignalFrame ==
  ASSUME NEW kind \in {"signal", "untainted", "publish"}, NEW s \in Semaphores,
         NEW v \in Nat, NEW fr \in [Axes -> Nat],
         NEW g, g = SignalFrame(kind, s, v, fr) \/ g = [SignalFrame(kind, s, v, fr) EXCEPT !.relay = TRUE]
  PROVE  g \in FrameSet /\ g.pc \in {"cas", "check"} /\ g.sem = s /\ g.list = {}
<1>1. PICK pc \in {"cas", "check"} : SignalFrame(kind, s, v, fr) =
         [Frame(pc, s) EXCEPT !.kind = kind, !.value = v, !.frontier = fr]
  BY DEF SignalFrame
<1>2. PICK h \in FrameSet : h = Frame(pc, s) /\ h.pc = pc /\ h.sem = s /\ h.list = {}
  BY NewFrame DEF CallPcs, SignalPcs
<1>30. PICK q : q = [h EXCEPT !.kind = kind, !.value = v, !.frontier = fr]
  OBVIOUS
<1>3. q \in FrameSet /\ q.pc = pc /\ q.sem = s /\ q.list = {}
  BY <1>2, <1>30 DEF FrameSet
<1>4. g = q \/ g = [q EXCEPT !.relay = TRUE]
  BY <1>1, <1>2, <1>30
<1>5. [q EXCEPT !.relay = TRUE] \in FrameSet
  BY <1>3 DEF FrameSet
<1>. QED
  BY <1>3, <1>4, <1>5 DEF FrameSet

LEMMA NewFailFrame ==
  ASSUME NEW s \in Semaphores, NEW status \in Statuses, NEW g, g = FailFrame(s, status)
  PROVE  g \in FrameSet /\ g.pc = "fail" /\ g.sem = s /\ g.list = {} /\ g.status = status
BY DEF FailFrame, Frame, FrameSet, NoFrontier, Statuses, CallPcs

LEMMA NewDispatchFrame ==
  ASSUME NEW s \in Semaphores, NEW list \in SUBSET Timepoints, NEW status \in Statuses,
         NEW g, g = DispatchFrame(s, list, status)
  PROVE  g \in FrameSet /\ g.pc = "dispatch" /\ g.sem = s /\ g.list = list /\ g.status = status
<1>1. PICK h : h = Frame("dispatch", s)
  OBVIOUS
<1>0. "dispatch" \in CallPcs \cup WaitPcs /\ s \in Semaphores \cup {None}
  BY DEF CallPcs
<1>2. h \in FrameSet /\ h.pc = "dispatch" /\ h.sem = s
  BY <1>0, <1>1, NewFrame
<1>3. g = [h EXCEPT !.list = list, !.status = status]
  BY <1>1 DEF DispatchFrame
<1>. QED
  BY <1>2, <1>3 DEF FrameSet

\* A frame that answers for nobody.
LEMMA PlainFrame ==
  ASSUME NEW f \in FrameSet, f.pc \notin AcquirePcs, f.list = {}, NEW t,
         f.pc \in CallPcs => f.sem \in Semaphores,
         f.pc \notin {"recheck", "merge", "mark", "collect", "flush", "deinit", "cancel"},
         f.pc = "fail" => f.status # "ok"
  PROVE  FrameOK(t, f) /\ Claim(f) = {} /\ f.pc # "acquire_insert" /\ \A s, v : ~Collects(f, s, v)
BY DEF FrameOK, Claim, Collects, AcquirePcs

----------------------------------------------------------------------------
(* The steps that change only the thread's own stack.                      *)

LEMMA ErrorReturns ==
  ASSUME Inv, Unmoved, todo' = todo, NEW t \in Threads, stack[t] # <<>>,
         NEW status \in AllFailures, ReturnError(t, status), Top(t).sem \in Semaphores,
         \A s, v : ~Collects(Top(t), s, v)
  PROVE  Inv'
<1>1. CASE Return(t)
  BY <1>1, QuietReturn
<1>2. CASE Become(t, FailFrame(Top(t).sem, status))
  <2>1. PICK g : g = FailFrame(Top(t).sem, status)
    OBVIOUS
  <2>0. PICK s \in Semaphores : s = Top(t).sem
    OBVIOUS
  <2>20. status \in Statuses
    BY DEF Statuses
  <2>2. g \in FrameSet /\ g.pc = "fail" /\ g.sem = s /\ g.list = {} /\ g.status = status
    BY <2>0, <2>1, <2>20, NewFailFrame
  <2>3. g.status # "ok"
    BY <2>2, SemaphoreAssumption
  <2>4. FrameOK(t, g) /\ Claim(g) = {} /\ g.pc # "acquire_insert"
    BY <2>2, <2>3, PlainFrame DEF AcquirePcs
  <2>. QED
    BY <1>2, <2>1, <2>2, <2>4, QuietBecome
<1>. QED
  BY <1>1, <1>2 DEF ReturnError

\* A move to another pc of the same call.
LEMMA GotoQuiet ==
  ASSUME Inv, Unmoved, todo' = todo, NEW t \in Threads, stack[t] # <<>>,
         NEW pc \in CallPcs \ {"acquire_insert"}, Goto(t, pc), NEW g, g = [Top(t) EXCEPT !.pc = pc],
         FrameOK(t, g), Claim(g) \subseteq Claim(Top(t)),
         \A s, v : Collects(Top(t), s, v) => Collects(g, s, v)
  PROVE  Inv'
<1>1. Top(t) \in FrameSet
  BY TopFacts DEF Inv
<1>2. g \in FrameSet /\ g.pc = pc
  BY <1>1, GotoFrame
<1>3. Become(t, g)
  BY DEF Goto
<1>. QED
  BY <1>2, <1>3, QuietBecome

LEMMA SignalCheckKeeps ==
  ASSUME Inv, NEW t \in Threads, SignalCheck(t) PROVE Inv'
<1>0. /\ stack[t] # <<>> /\ Top(t).pc \in {"check", "recheck"} /\ Unmoved /\ todo' = todo
      /\ IF Failed(Top(t).sem)
         THEN ReturnError(t, failure_status[Top(t).sem])
         ELSE Goto(t, IF Top(t).pc = "check" THEN "cas" ELSE "merge")
  BY DEF SignalCheck, At, Unmoved, semVars
<1>1. Top(t) \in FrameSet /\ FrameOK(t, Top(t))
  BY <1>0, TopFacts DEF Inv
<1>2. Top(t).sem \in Semaphores
  BY <1>0, <1>1 DEF FrameOK, CallPcs, SignalPcs
<1>3. CASE Failed(Top(t).sem)
  <2>1. failure_status[Top(t).sem] \in AllFailures
    BY <1>2, <1>3 DEF Inv, Typed, Failed, Statuses
  <2>2. \A s, v : ~Collects(Top(t), s, v)
    BY <1>0, <1>3 DEF Collects
  <2>. QED
    BY <1>0, <1>2, <1>3, <2>1, <2>2, ErrorReturns
<1>4. CASE ~Failed(Top(t).sem)
  <2>1. PICK pc : pc = IF Top(t).pc = "check" THEN "cas" ELSE "merge"
    OBVIOUS
  <2>2. PICK g : g = [Top(t) EXCEPT !.pc = pc]
    OBVIOUS
  <2>3. pc \in CallPcs \ {"acquire_insert"} /\ pc \in {"cas", "merge"}
    BY <2>1 DEF CallPcs, SignalPcs
  <2>4. /\ g \in FrameSet /\ g.pc = pc /\ g.sem = Top(t).sem /\ g.value = Top(t).value
        /\ g.status = Top(t).status /\ g.list = Top(t).list
    BY <1>1, <2>2, <2>3, GotoFrame
  <2>5. FrameOK(t, g) /\ Claim(g) = {}
    BY <1>0, <1>1, <1>2, <2>1, <2>3, <2>4 DEF FrameOK, Claim, AcquirePcs
  <2>6. \A s, v : Collects(Top(t), s, v) => Collects(g, s, v)
    BY <1>0, <2>1, <2>4 DEF Collects
  <2>. QED
    BY <1>0, <1>4, <2>1, <2>2, <2>3, <2>5, <2>6, GotoQuiet
<1>. QED
  BY <1>3, <1>4

LEMMA SignalPastKeeps ==
  ASSUME Inv, NEW t \in Threads, SignalPast(t) PROVE Inv'
<1>0. /\ stack[t] # <<>> /\ Top(t).pc = "cas" /\ Unmoved /\ todo' = todo
      /\ Return(t) \/ ReturnError(t, InvalidArgument)
  BY DEF SignalPast, At, Unmoved, semVars
<1>1. Top(t) \in FrameSet /\ FrameOK(t, Top(t))
  BY <1>0, TopFacts DEF Inv
<1>2. Top(t).sem \in Semaphores /\ InvalidArgument \in AllFailures
  BY <1>0, <1>1 DEF FrameOK, CallPcs, SignalPcs, AllFailures
<1>3. \A s, v : ~Collects(Top(t), s, v)
  BY <1>0 DEF Collects
<1>. QED
  BY <1>0, <1>2, <1>3, ErrorReturns, QuietReturn

\* merge -> mark or collect, mark -> collect.
LEMMA SignalGoesOn ==
  ASSUME Inv, Unmoved, todo' = todo, NEW t \in Threads, stack[t] # <<>>,
         Top(t).pc \in {"merge", "mark"}, NEW pc \in {"mark", "collect"}, Goto(t, pc)
  PROVE  Inv'
<1>1. Top(t) \in FrameSet /\ FrameOK(t, Top(t))
  BY TopFacts DEF Inv
<1>2. PICK g : g = [Top(t) EXCEPT !.pc = pc]
  OBVIOUS
<1>3. pc \in CallPcs \ {"acquire_insert"}
  BY DEF CallPcs, SignalPcs
<1>4. /\ g \in FrameSet /\ g.pc = pc /\ g.sem = Top(t).sem /\ g.value = Top(t).value
      /\ g.status = Top(t).status /\ g.list = Top(t).list
  BY <1>1, <1>2, <1>3, GotoFrame
<1>5. FrameOK(t, g) /\ Claim(g) = {}
  BY <1>1, <1>4 DEF FrameOK, Claim, AcquirePcs, CallPcs, SignalPcs
<1>6. \A s, v : Collects(Top(t), s, v) => Collects(g, s, v)
  BY <1>4 DEF Collects
<1>. QED
  BY <1>2, <1>3, <1>5, <1>6, GotoQuiet

LEMMA SignalMergeKeeps ==
  ASSUME Inv, NEW t \in Threads, SignalMerge(t) \/ SignalMark(t) PROVE Inv'
<1>1. CASE SignalMerge(t)
  <2>1. /\ stack[t] # <<>> /\ Top(t).pc = "merge" /\ Unmoved /\ todo' = todo
        /\ \E pc \in {"mark", "collect"} : Goto(t, pc)
    BY <1>1 DEF SignalMerge, At, Unmoved, AfterMerge
  <2>. QED
    BY <2>1, SignalGoesOn
<1>2. CASE SignalMark(t)
  <2>1. /\ stack[t] # <<>> /\ Top(t).pc = "mark" /\ Unmoved /\ todo' = todo
        /\ Goto(t, "collect")
    BY <1>2 DEF SignalMark, At, Unmoved
  <2>. QED
    BY <2>1, SignalGoesOn
<1>. QED
  BY <1>1, <1>2

\* The calls that end without a callback.
LEMMA PlainReturnKeeps ==
  ASSUME Inv, NEW t \in Threads, DispatchEnd(t) \/ MarkTainted(t) \/ MergeFrontier(t)
  PROVE  Inv'
<1>1. /\ stack[t] # <<>> /\ Top(t).pc \in {"dispatch", "taint", "merge_frontier"}
      /\ Unmoved /\ todo' = todo /\ Return(t)
  BY DEF DispatchEnd, MarkTainted, MergeFrontier, At, Unmoved, semVars
<1>2. \A s, v : ~Collects(Top(t), s, v)
  BY <1>1 DEF Collects
<1>. QED
  BY <1>1, <1>2, QuietReturn

----------------------------------------------------------------------------
(* The steps that move timepoints but publish nothing.                     *)

LEMMA LoudStep ==
  ASSUME Inv, Typed', HeapInv', timeline_value' = timeline_value, failure_status' = failure_status,
         NEW t \in Threads, NEW k \in 0..2, NEW d \in Int, Shape(t, k, d), Benign(t),
         NEW P, Touches(t, P),
         \A i \in 1..k : \A f : f = stack'[t][i] => FrameOK(t, f)',
         \A i \in 1..k : i > 1 => stack'[t][i].pc \in {"dispatch", "registered"},
         \A i \in 1..k : stack'[t][i].pc = "acquire_insert" =>
           ~(timeline_value'[stack'[t][i].sem] >= tp'[stack'[t][i].tp].min),
         \A i \in 1..k : \A p \in Timepoints : p \in Claim(stack'[t][i]) =>
           \A u \in Threads : \A j \in 1..Len(stack[u]) :
             p \in Claim(stack[u][j]) => u = t /\ j = 1,
         \A i, j \in 1..k : \A p \in Timepoints :
           p \in Claim(stack'[t][i]) /\ p \in Claim(stack'[t][j]) => i = j,
         \A s \in Semaphores : timepoints'[s] \subseteq timepoints[s],
         \A s \in Semaphores : \A p \in timepoints'[s] : tp'[p].min = tp[p].min,
         \A s \in Semaphores : \A v \in Nat :
           /\ stack[t] # <<>> /\ Collects(stack[t][1], s, v)
           /\ mutex[s] # None \/ \E p \in timepoints'[s] : tp[p].min = v
           => \E i \in 1..k : Collects(stack'[t][i], s, v)
  PROVE  Inv'
<1>0. Typed /\ HeapInv /\ FrameInv /\ ClaimInv /\ NoTimepointIsStranded /\ InsertInv
  BY DEF Inv
<1>2. Numbers /\ stack \in [Threads -> Seq(FrameSet)]
  BY <1>0 DEF Typed, Numbers
<1>3. FrameInv'
  BY <1>0, <1>2, FramesKept
<1>4. ClaimInv'
  BY <1>0, <1>2, ClaimsKept
<1>5. \A s \in Semaphores : \A v \in Nat :
        /\ WillCollect(s, v)
        /\ mutex[s] # None \/ \E p \in timepoints'[s] : tp[p].min = v
        => WillCollect(s, v)'
  <2>1. SUFFICES ASSUME NEW s \in Semaphores, NEW v \in Nat, WillCollect(s, v),
                        mutex[s] # None \/ \E p \in timepoints'[s] : tp[p].min = v
                 PROVE  WillCollect(s, v)'
    OBVIOUS
  <2>2. stack[t] # <<>> /\ Collects(stack[t][1], s, v) => \E i \in 1..k : Collects(stack'[t][i], s, v)
    BY <2>1
  <2>. QED
    BY <1>2, <2>1, <2>2, CollectKept
<1>6. NoTimepointIsStranded'
  <2>1. \A s \in Semaphores : \A p \in timepoints'[s] :
          WillCollect(s, tp[p].min) => WillCollect(s, tp[p].min)'
    <3>1. SUFFICES ASSUME NEW s \in Semaphores, NEW p \in timepoints'[s], NEW v, v = tp[p].min,
                          WillCollect(s, v)
                   PROVE  WillCollect(s, v)'
      BY DEF WillCollect
    <3>2. v \in Nat
      BY <1>0, <3>1 DEF Typed, TimepointSet
    <3>. QED
      BY <1>5, <3>1, <3>2
  <2>. QED
    BY <1>0, <2>1, StrandKept
<1>7. InsertInv'
  <2>1. \A s \in Semaphores : \A v \in Nat : \A u \in Threads :
           u # t /\ mutex[s] = u /\ WillCollect(s, v) => WillCollect(s, v)'
    BY <1>5, SemaphoreAssumption
  <2>. QED
    BY <1>0, <2>1, InsertKept
<1>. QED
  BY <1>3, <1>4, <1>6, <1>7 DEF Inv

\* A frame answers only for registrations under way and detached timepoints.
LEMMA ClaimedState ==
  ASSUME Typed, FrameInv, NEW u \in Threads, NEW i \in 1..Len(stack[u]), NEW p \in Claim(stack[u][i])
  PROVE  p \in Timepoints /\ tp[p].state \in {"acquiring", "detached"}
<1>1. FrameOK(u, stack[u][i]) /\ stack[u][i] \in FrameSet
  BY ElementOfSeq DEF FrameInv, Typed
<1>. QED
  BY <1>1 DEF FrameOK, Claim, FrameSet

LEMMA DetachFacts ==
  ASSUME tp \in [Timepoints -> TimepointSet], NEW list \in SUBSET Timepoints, Detach(list)
  PROVE  /\ tp' \in [Timepoints -> TimepointSet]
         /\ \A p \in Timepoints :
              /\ tp'[p].sem = tp[p].sem /\ tp'[p].min = tp[p].min
              /\ tp'[p].late <=> tp[p].late
              /\ tp'[p].callback = tp[p].callback /\ tp'[p].target = tp[p].target
              /\ p \in list => tp'[p].state = "detached"
              /\ p \notin list => tp'[p] = tp[p]
<1>1. ASSUME NEW p \in Timepoints, NEW r, r = [tp[p] EXCEPT !.state = "detached"]
      PROVE  /\ r \in TimepointSet /\ r.state = "detached"
             /\ r.sem = tp[p].sem /\ r.min = tp[p].min /\ r.late = tp[p].late
             /\ r.callback = tp[p].callback /\ r.target = tp[p].target
  BY <1>1 DEF TimepointSet, TimepointStates
<1>2. \A p \in Timepoints : tp'[p] = IF p \in list THEN [tp[p] EXCEPT !.state = "detached"] ELSE tp[p]
  BY DEF Detach
<1>3. tp' \in [Timepoints -> TimepointSet]
  BY <1>1 DEF Detach
<1>. QED
  BY <1>1, <1>2, <1>3

\* Timepoints leave the heap for the dispatch list of a frame.
LEMMA DetachStep ==
  ASSUME Inv, NEW t \in Threads, stack[t] # <<>>, NEW s \in Semaphores, mutex[s] = None,
         NEW list \in SUBSET timepoints[s], Detach(list),
         timepoints' = [timepoints EXCEPT ![s] = @ \ list],
         NEW status \in Statuses, Become(t, DispatchFrame(s, list, status)),
         \A p \in list : Reason(p, status),
         UNCHANGED <<timeline_value, failure_status, mutex, alive, todo>>,
         \A q \in Semaphores : \A v \in Nat :
           Collects(Top(t), q, v) => q = s /\ \A p \in timepoints'[s] : tp[p].min # v
  PROVE  Inv'
<1>0. Typed /\ HeapInv /\ FrameInv /\ ClaimInv
  BY DEF Inv
<1>1. /\ timepoints \in [Semaphores -> SUBSET Timepoints] /\ tp \in [Timepoints -> TimepointSet]
      /\ stack \in [Threads -> Seq(FrameSet)] /\ list \subseteq Timepoints
      /\ timeline_value \in [Semaphores -> Nat]
  BY <1>0 DEF Typed
<1>2. \A p \in list : tp[p].state = "pending" /\ tp[p].sem = s
  BY <1>0, <1>1 DEF HeapInv, TimepointOK
<1>3. /\ tp' \in [Timepoints -> TimepointSet]
      /\ \A p \in Timepoints :
           /\ tp'[p].sem = tp[p].sem /\ tp'[p].min = tp[p].min
           /\ tp'[p].late <=> tp[p].late
           /\ tp'[p].callback = tp[p].callback /\ tp'[p].target = tp[p].target
           /\ p \in list => tp'[p].state = "detached"
           /\ p \notin list => tp'[p] = tp[p]
  BY <1>1, DetachFacts
<1>4. PICK g : g = DispatchFrame(s, list, status)
  OBVIOUS
<1>5. g \in FrameSet /\ g.pc = "dispatch" /\ g.sem = s /\ g.list = list /\ g.status = status
  <2>1. list \in SUBSET Timepoints
    BY <1>1
  <2>. QED
    BY <1>4, <2>1, NewDispatchFrame
<1>6. Shape(t, 1, 0) /\ stack'[t][1] = g /\ Top(t) = stack[t][1]
  BY <1>1, <1>4, <1>5, BecomeShape
<1>7. Typed'
  BY <1>0, <1>1, <1>3, <1>6 DEF Typed, Shape
<1>8. HeapInv'
  <2>1. SUFFICES ASSUME NEW p \in Timepoints PROVE TimepointOK(p)'
    BY DEF HeapInv
  <2>2. TimepointOK(p)
    BY <1>0 DEF HeapInv
  <2>3. \A q \in Semaphores : p \in timepoints'[q] <=> p \in timepoints[q] /\ p \notin list
    BY <1>1, <1>2, <2>2 DEF TimepointOK
  <2>4. CASE p \in list
    BY <1>2, <1>3, <2>2, <2>3, <2>4 DEF TimepointOK, Failed
  <2>5. CASE p \notin list
    BY <1>3, <2>2, <2>3, <2>5 DEF TimepointOK, Failed
  <2>. QED
    BY <2>4, <2>5
<1>9. Benign(t)
  BY <1>1 DEF Benign
<1>10. Touches(t, list)
  <2>1. \A p \in list : \A u \in Threads : \A i \in 1..Len(stack[u]) : p \notin Claim(stack[u][i])
    BY <1>0, <1>2, ClaimedState
  <2>. QED
    BY <1>3, <2>1 DEF Touches
<1>11. FrameOK(t, g)'
  <2>1. \A p \in list : Reason(p, status)'
    BY <1>1, <1>3 DEF Reason
  <2>. QED
    BY <1>1, <1>2, <1>3, <1>5, <2>1 DEF FrameOK, AcquirePcs, CallPcs
<1>12. Claim(g) = list
  BY <1>5 DEF Claim, AcquirePcs
<1>13. /\ \A i \in 1..1 : \A f : f = stack'[t][i] => FrameOK(t, f)'
       /\ \A i \in 1..1 : i > 1 => stack'[t][i].pc \in {"dispatch", "registered"}
       /\ \A i \in 1..1 : stack'[t][i].pc = "acquire_insert" =>
            ~(timeline_value'[stack'[t][i].sem] >= tp'[stack'[t][i].tp].min)
  BY <1>5, <1>6, <1>11
<1>14. \A i \in 1..1 : \A p \in Timepoints : p \in Claim(stack'[t][i]) =>
           \A u \in Threads : \A j \in 1..Len(stack[u]) :
             p \in Claim(stack[u][j]) => u = t /\ j = 1
  BY <1>6, <1>10, <1>12 DEF Touches
<1>15. \A i, j \in 1..1 : \A p \in Timepoints :
           p \in Claim(stack'[t][i]) /\ p \in Claim(stack'[t][j]) => i = j
  OBVIOUS
<1>16. /\ \A q \in Semaphores : timepoints'[q] \subseteq timepoints[q]
       /\ \A q \in Semaphores : \A p \in timepoints'[q] : tp'[p].min = tp[p].min
  BY <1>1, <1>3
<1>17. \A q \in Semaphores : \A v \in Nat :
           /\ stack[t] # <<>> /\ Collects(stack[t][1], q, v)
           /\ mutex[q] # None \/ \E p \in timepoints'[q] : tp[p].min = v
           => \E i \in 1..1 : Collects(stack'[t][i], q, v)
  BY <1>6
<1>18. 1 \in 0..2 /\ 0 \in Int
  OBVIOUS
<1>. QED
  BY <1>6, <1>7, <1>8, <1>9, <1>10, <1>13, <1>14, <1>15, <1>16, <1>17, <1>18, LoudStep

LEMMA CollectKeeps ==
  ASSUME Inv, NEW t \in Threads, Collect(t) PROVE Inv'
<1>1. /\ stack[t] # <<>> /\ Top(t).pc = "collect" /\ mutex[Top(t).sem] = None
      /\ Detach(Due(Top(t).sem, Top(t).value))
      /\ timepoints' = [timepoints EXCEPT ![Top(t).sem] = @ \ Due(Top(t).sem, Top(t).value)]
      /\ Become(t, DispatchFrame(Top(t).sem, Due(Top(t).sem, Top(t).value), "ok"))
      /\ UNCHANGED <<timeline_value, failure_status, mutex, alive, todo>>
  BY DEF Collect, At, Unlocked
<1>2. Top(t) \in FrameSet /\ FrameOK(t, Top(t)) /\ Typed /\ HeapInv
  BY <1>1, TopFacts DEF Inv
<1>3. /\ Top(t).sem \in Semaphores /\ Top(t).value \in Nat
      /\ timeline_value[Top(t).sem] >= Top(t).value
  BY <1>1, <1>2 DEF FrameOK, CallPcs, SignalPcs, FrameSet
<1>4. PICK s \in Semaphores : s = Top(t).sem
  BY <1>3
<1>5. PICK list : list = Due(s, Top(t).value)
  OBVIOUS
<1>6. list \subseteq timepoints[s] /\ \A p \in timepoints[s] : p \in list <=> tp[p].min <= Top(t).value
  BY <1>5 DEF Due
<1>7. \A p \in list : Reason(p, "ok")
  <2>1. SUFFICES ASSUME NEW p \in list PROVE Reason(p, "ok")
    OBVIOUS
  <2>2. p \in Timepoints /\ tp[p].min \in Nat /\ timeline_value[s] \in Nat
    BY <1>2, <1>6 DEF Typed, TimepointSet
  <2>3. tp[p].state = "pending" /\ tp[p].sem = s /\ ~tp[p].late
    BY <1>2, <1>6, <2>2 DEF HeapInv, TimepointOK
  <2>. QED
    BY <1>3, <1>4, <1>6, <2>2, <2>3 DEF Reason
<1>8. \A q \in Semaphores : \A v \in Nat :
           Collects(Top(t), q, v) => q = s /\ \A p \in timepoints'[s] : tp[p].min # v
  <2>1. \A p \in timepoints'[s] : p \in timepoints[s] /\ ~(tp[p].min <= Top(t).value)
    BY <1>1, <1>2, <1>4, <1>5, <1>6 DEF Typed
  <2>. QED
    BY <1>1, <1>3, <1>4, <2>1 DEF Collects
<1>9. "ok" \in Statuses
  BY DEF Statuses
<1>. QED
  BY <1>1, <1>4, <1>5, <1>6, <1>7, <1>8, <1>9, DetachStep

LEMMA DetachAllKeeps ==
  ASSUME Inv, NEW t \in Threads, FailFlush(t) \/ Deinitialize(t) PROVE Inv'
<1>1. PICK status : /\ stack[t] # <<>> /\ Top(t).pc \in {"flush", "deinit"} /\ DetachAll(t, status)
                    /\ Top(t).pc = "flush" => status = Top(t).status
                    /\ Top(t).pc = "deinit" => status = "cancelled"
  BY DEF FailFlush, Deinitialize, At
<1>2. Top(t) \in FrameSet /\ FrameOK(t, Top(t)) /\ Typed /\ HeapInv
  BY <1>1, TopFacts DEF Inv
<1>3. PICK s \in Semaphores : s = Top(t).sem
  BY <1>1, <1>2 DEF FrameOK, CallPcs
<1>4. /\ mutex[s] = None /\ Detach(timepoints[s])
      /\ timepoints' = [timepoints EXCEPT ![s] = {}]
      /\ Become(t, DispatchFrame(s, timepoints[s], status))
      /\ UNCHANGED <<timeline_value, failure_status, mutex, alive, todo>>
  BY <1>1, <1>3 DEF DetachAll, Unlocked
<1>5. timepoints' = [timepoints EXCEPT ![s] = @ \ timepoints[s]] /\ timepoints'[s] = {}
  BY <1>2, <1>4 DEF Typed
<1>6. /\ status \in Statuses
      /\ \/ status # "ok" /\ status = failure_status[s]
         \/ status = "cancelled" /\ ~alive[s]
  BY <1>1, <1>2, <1>3 DEF FrameOK, FrameSet, Statuses, AllFailures
<1>7. \A p \in timepoints[s] : Reason(p, status)
  <2>1. \A p \in timepoints[s] : p \in Timepoints /\ tp[p].sem = s
    BY <1>2 DEF HeapInv, TimepointOK, Typed
  <2>. QED
    BY <1>6, <2>1 DEF Reason
<1>8. \A q \in Semaphores : \A v \in Nat :
           Collects(Top(t), q, v) => q = s /\ \A p \in timepoints'[s] : tp[p].min # v
  BY <1>3, <1>5 DEF Collects
<1>. QED
  BY <1>1, <1>4, <1>5, <1>6, <1>7, <1>8, DetachStep

\* A registration is answered on the spot.
LEMMA AnswerNowKeeps ==
  ASSUME Inv, NEW t \in Threads, stack[t] # <<>>, Top(t).pc \in AcquirePcs,
         NEW status \in Statuses, AnswerNow(t, status), Reason(Top(t).tp, status),
         UNCHANGED <<timeline_value, failure_status, timepoints, alive, todo>>,
         mutex' \in [Semaphores -> Threads \cup {None}],
         \A s \in Semaphores : \A u \in Threads : u # t /\ mutex[s] = u => mutex'[s] = u
  PROVE  Inv'
<1>0. Typed /\ HeapInv /\ FrameInv /\ ClaimInv
  BY DEF Inv
<1>1. Top(t) \in FrameSet /\ FrameOK(t, Top(t)) /\ Top(t) = stack[t][1] /\ 1 \in 1..Len(stack[t])
  BY <1>0, TopFacts
<1>2. PICK p \in Timepoints : p = Top(t).tp /\ tp[p].state = "acquiring" /\ tp[p].sem = Top(t).sem
  BY <1>1 DEF FrameOK
<1>3. PICK s \in Semaphores : s = Top(t).sem
  BY <1>1 DEF FrameOK, CallPcs
<1>4. /\ timepoints \in [Semaphores -> SUBSET Timepoints] /\ tp \in [Timepoints -> TimepointSet]
      /\ stack \in [Threads -> Seq(FrameSet)] /\ {p} \in SUBSET Timepoints
      /\ timeline_value \in [Semaphores -> Nat]
  BY <1>0 DEF Typed
<1>50. PICK h : h = DispatchFrame(s, {p}, status)
  OBVIOUS
<1>5. PICK g : g = [h EXCEPT !.tp = p]
  OBVIOUS
<1>6. g \in FrameSet /\ g.pc = "dispatch" /\ g.sem = s /\ g.list = {p} /\ g.status = status
  <2>1. h \in FrameSet /\ h.pc = "dispatch" /\ h.sem = s /\ h.list = {p} /\ h.status = status
    BY <1>4, <1>50, NewDispatchFrame
  <2>. QED
    BY <1>5, <2>1 DEF FrameSet
<1>7. Detach({p}) /\ Become(t, g)
  BY <1>2, <1>3, <1>5, <1>50 DEF AnswerNow
<1>8. /\ tp' \in [Timepoints -> TimepointSet]
      /\ \A r \in Timepoints :
           /\ tp'[r].sem = tp[r].sem /\ tp'[r].min = tp[r].min
           /\ tp'[r].late <=> tp[r].late
           /\ tp'[r].callback = tp[r].callback /\ tp'[r].target = tp[r].target
           /\ r \in {p} => tp'[r].state = "detached"
           /\ r \notin {p} => tp'[r] = tp[r]
  BY <1>4, <1>7, DetachFacts
<1>9. Shape(t, 1, 0) /\ stack'[t][1] = g
  BY <1>4, <1>6, <1>7, BecomeShape
<1>10. Typed'
  BY <1>0, <1>8, <1>9 DEF Typed, Shape
<1>11. HeapInv'
  <2>1. SUFFICES ASSUME NEW r \in Timepoints PROVE TimepointOK(r)'
    BY DEF HeapInv
  <2>2. TimepointOK(r)
    BY <1>0 DEF HeapInv
  <2>3. CASE r = p
    BY <1>2, <1>8, <2>2, <2>3 DEF TimepointOK, Failed
  <2>4. CASE r # p
    BY <1>8, <2>2, <2>4 DEF TimepointOK, Failed
  <2>. QED
    BY <2>3, <2>4
<1>12. Benign(t)
  BY <1>4 DEF Benign
<1>13. p \in Claim(stack[t][1])
  BY <1>1, <1>2 DEF Claim
<1>14. \A u \in Threads : \A i \in 1..Len(stack[u]) : p \in Claim(stack[u][i]) => u = t /\ i = 1
  BY <1>0, <1>1, <1>13 DEF ClaimInv
<1>15. Touches(t, {p})
  BY <1>2, <1>8, <1>14 DEF Touches
<1>16. FrameOK(t, g)'
  <2>1. Reason(p, status)'
    BY <1>2, <1>4, <1>8 DEF Reason
  <2>. QED
    BY <1>2, <1>3, <1>6, <1>8, <2>1 DEF FrameOK, AcquirePcs, CallPcs
<1>17. Claim(g) = {p}
  BY <1>6 DEF Claim, AcquirePcs
<1>18. /\ \A i \in 1..1 : \A f : f = stack'[t][i] => FrameOK(t, f)'
       /\ \A i \in 1..1 : i > 1 => stack'[t][i].pc \in {"dispatch", "registered"}
       /\ \A i \in 1..1 : stack'[t][i].pc = "acquire_insert" =>
            ~(timeline_value'[stack'[t][i].sem] >= tp'[stack'[t][i].tp].min)
  BY <1>6, <1>9, <1>16
<1>19. \A i \in 1..1 : \A r \in Timepoints : r \in Claim(stack'[t][i]) =>
           \A u \in Threads : \A j \in 1..Len(stack[u]) :
             r \in Claim(stack[u][j]) => u = t /\ j = 1
  BY <1>9, <1>14, <1>17
<1>20. \A i, j \in 1..1 : \A r \in Timepoints :
           r \in Claim(stack'[t][i]) /\ r \in Claim(stack'[t][j]) => i = j
  OBVIOUS
<1>21. /\ \A q \in Semaphores : timepoints'[q] \subseteq timepoints[q]
       /\ \A q \in Semaphores : \A r \in timepoints'[q] : tp'[r].min = tp[r].min
  BY <1>4, <1>8
<1>22. \A q \in Semaphores : \A v \in Nat :
           /\ stack[t] # <<>> /\ Collects(stack[t][1], q, v)
           /\ mutex[q] # None \/ \E r \in timepoints'[q] : tp[r].min = v
           => \E i \in 1..1 : Collects(stack'[t][i], q, v)
  BY <1>1 DEF Collects, AcquirePcs
<1>23. 1 \in 0..2 /\ 0 \in Int
  OBVIOUS
<1>. QED
  BY <1>9, <1>10, <1>11, <1>12, <1>15, <1>18, <1>19, <1>20, <1>21, <1>22, <1>23, LoudStep

\* A registration goes on to its next check, and claims its timepoint still.
LEMMA AcquireGoesOn ==
  ASSUME Inv, Unmoved, todo' = todo, NEW t \in Threads, stack[t] # <<>>, Top(t).pc \in AcquirePcs,
         NEW pc \in AcquirePcs \ {"acquire_insert"}, Goto(t, pc),
         pc \notin {"resolve_failure", "acquire_failure"} => ~tp[Top(t).tp].late
  PROVE  Inv'
<1>1. Top(t) \in FrameSet /\ FrameOK(t, Top(t))
  BY TopFacts DEF Inv
<1>2. PICK g : g = [Top(t) EXCEPT !.pc = pc]
  OBVIOUS
<1>3. pc \in CallPcs \ {"acquire_insert"} /\ pc \in CallPcs \cup WaitPcs
  BY DEF CallPcs
<1>4. /\ g \in FrameSet /\ g.pc = pc /\ g.sem = Top(t).sem /\ g.value = Top(t).value
      /\ g.status = Top(t).status /\ g.list = Top(t).list /\ g.tp = Top(t).tp
  BY <1>1, <1>2, <1>3, GotoFrame
<1>5. Top(t).pc # "dispatch" /\ pc # "dispatch" /\ Top(t).pc \in CallPcs
  BY DEF AcquirePcs, CallPcs
<1>6. Top(t).list = {}
  BY <1>1, <1>5 DEF FrameOK
<1>7. FrameOK(t, g)
  BY <1>1, <1>3, <1>4, <1>5, <1>6 DEF FrameOK, AcquirePcs
<1>8. Claim(g) = Claim(Top(t))
  BY <1>4 DEF Claim
<1>9. \A s, v : Collects(Top(t), s, v) => Collects(g, s, v)
  BY DEF Collects, AcquirePcs
<1>. QED
  BY <1>2, <1>3, <1>7, <1>8, <1>9, GotoQuiet

LEMMA AcquireChecksKeep ==
  ASSUME Inv, NEW t \in Threads, AcquireFailure(t) \/ AcquireValue(t) PROVE Inv'
<1>1. /\ stack[t] # <<>> /\ Top(t).pc \in {"resolve_failure", "acquire_failure", "resolve_value", "acquire_value"}
      /\ UNCHANGED <<timeline_value, failure_status, timepoints, alive, todo, mutex>>
  BY DEF AcquireFailure, AcquireValue, At, semVars
<1>2. Top(t) \in FrameSet /\ FrameOK(t, Top(t)) /\ Typed /\ HeapInv
  BY <1>1, TopFacts DEF Inv
<1>3. Top(t).pc \in AcquirePcs
  BY <1>1 DEF AcquirePcs
<1>4. PICK p \in Timepoints : p = Top(t).tp /\ tp[p].state = "acquiring" /\ tp[p].sem = Top(t).sem
  BY <1>2, <1>3 DEF FrameOK
<1>5. Top(t).sem \in Semaphores /\ TimepointOK(p) /\ mutex \in [Semaphores -> Threads \cup {None}]
  BY <1>2, <1>3, <1>4 DEF FrameOK, CallPcs, HeapInv, Typed
<1>6. ASSUME AcquireFailure(t) PROVE Inv'
  <2>1. CASE Failed(Top(t).sem)
    <3>1. AnswerNow(t, failure_status[Top(t).sem])
      BY <1>6, <2>1 DEF AcquireFailure
    <3>2. failure_status[Top(t).sem] \in Statuses /\ Reason(Top(t).tp, failure_status[Top(t).sem])
      BY <1>2, <1>4, <1>5, <2>1 DEF Typed, Reason, Failed
    <3>. QED
      BY <1>1, <1>3, <1>5, <3>1, <3>2, AnswerNowKeeps
  <2>2. CASE ~Failed(Top(t).sem)
    <3>1. /\ Unmoved
          /\ \E pc \in {"resolve_value", "acquire_value"} : Goto(t, pc)
      BY <1>6, <2>2, <1>1 DEF AcquireFailure, Unmoved
    <3>2. ~tp[Top(t).tp].late
      BY <1>4, <1>5, <2>2 DEF TimepointOK
    <3>3. PICK pc \in AcquirePcs \ {"acquire_insert"} : Goto(t, pc)
      BY <3>1 DEF AcquirePcs
    <3>. QED
      BY <1>1, <1>3, <3>1, <3>2, <3>3, AcquireGoesOn
  <2>. QED
    BY <2>1, <2>2
<1>7. ASSUME AcquireValue(t) PROVE Inv'
  <2>0. ~tp[Top(t).tp].late
    BY <1>2, <1>3, <1>7 DEF FrameOK, AcquireValue, At
  <2>1. CASE Reached(t)
    <3>1. AnswerNow(t, "ok")
      BY <1>7, <2>1 DEF AcquireValue
    <3>2. "ok" \in Statuses /\ Reason(Top(t).tp, "ok")
      BY <1>4, <2>0, <2>1 DEF Statuses, Reason, Reached
    <3>. QED
      BY <1>1, <1>3, <1>5, <3>1, <3>2, AnswerNowKeeps
  <2>2. CASE ~Reached(t)
    <3>1. /\ Unmoved
          /\ \E pc \in {"resolve_alloc", "acquire_lock"} : Goto(t, pc)
      BY <1>7, <2>2, <1>1 DEF AcquireValue, Unmoved
    <3>3. PICK pc \in AcquirePcs \ {"acquire_insert"} : Goto(t, pc)
      BY <3>1 DEF AcquirePcs
    <3>. QED
      BY <1>1, <1>3, <2>0, <3>1, <3>3, AcquireGoesOn
  <2>. QED
    BY <2>1, <2>2
<1>. QED
  BY <1>6, <1>7

\* One timepoint changes its state; the rest of its record stays.
LEMMA MoveFacts ==
  ASSUME tp \in [Timepoints -> TimepointSet], NEW p \in Timepoints, NEW st \in TimepointStates,
         tp' = [tp EXCEPT ![p].state = st]
  PROVE  /\ tp' \in [Timepoints -> TimepointSet]
         /\ tp'[p].sem = tp[p].sem /\ tp'[p].min = tp[p].min /\ tp'[p].late = tp[p].late
         /\ tp'[p].callback = tp[p].callback /\ tp'[p].target = tp[p].target
         /\ tp'[p].state = st
         /\ \A r \in Timepoints : r # p => tp'[r] = tp[r]
<1>1. PICK r : r = [tp[p] EXCEPT !.state = st]
  OBVIOUS
<1>2. /\ r \in TimepointSet /\ r.state = st
      /\ r.sem = tp[p].sem /\ r.min = tp[p].min /\ r.late = tp[p].late
      /\ r.callback = tp[p].callback /\ r.target = tp[p].target
  BY <1>1 DEF TimepointSet
<1>3. tp' = [tp EXCEPT ![p] = r]
  BY <1>1
<1>. QED
  BY <1>2, <1>3

\* A timepoint leaves the heap or its registration and goes back to its owner.
LEMMA WithdrawStep ==
  ASSUME Inv, NEW t \in Threads, stack[t] # <<>>, Return(t), NEW p \in Timepoints,
         tp' = [tp EXCEPT ![p].state = "withdrawn"],
         \/ Top(t).pc \in AcquirePcs /\ p = Top(t).tp /\ timepoints' = timepoints
         \/ /\ Top(t).pc = "cancel" /\ tp[p].state = "pending"
            /\ timepoints' = [timepoints EXCEPT ![tp[p].sem] = @ \ {p}],
         UNCHANGED <<timeline_value, failure_status, alive, todo>>,
         mutex' \in [Semaphores -> Threads \cup {None}],
         \A s \in Semaphores : \A u \in Threads : u # t /\ mutex[s] = u => mutex'[s] = u
  PROVE  Inv'
<1>0. Typed /\ HeapInv /\ FrameInv /\ ClaimInv
  BY DEF Inv
<1>1. Top(t) \in FrameSet /\ FrameOK(t, Top(t)) /\ Top(t) = stack[t][1] /\ 1 \in 1..Len(stack[t])
  BY <1>0, TopFacts
<1>2. /\ timepoints \in [Semaphores -> SUBSET Timepoints] /\ tp \in [Timepoints -> TimepointSet]
      /\ stack \in [Threads -> Seq(FrameSet)] /\ timeline_value \in [Semaphores -> Nat]
  BY <1>0 DEF Typed
<1>3. TimepointOK(p) /\ tp[p].state \in {"acquiring", "pending"}
  BY <1>0, <1>1 DEF HeapInv, FrameOK
<1>4. /\ tp' \in [Timepoints -> TimepointSet]
      /\ tp'[p].sem = tp[p].sem /\ tp'[p].min = tp[p].min /\ tp'[p].late = tp[p].late
      /\ tp'[p].callback = tp[p].callback /\ tp'[p].target = tp[p].target
      /\ tp'[p].state = "withdrawn"
      /\ \A r \in Timepoints : r # p => tp'[r] = tp[r]
  <2>1. "withdrawn" \in TimepointStates
    BY DEF TimepointStates, Ended
  <2>. QED
    BY <1>2, <2>1, MoveFacts
<1>5. Shape(t, 0, 1)
  BY <1>2, ReturnShape
<1>6. /\ timepoints' \in [Semaphores -> SUBSET Timepoints]
      /\ \A s \in Semaphores : timepoints'[s] = timepoints[s] \ {p}
  <2>1. CASE Top(t).pc \in AcquirePcs /\ p = Top(t).tp /\ timepoints' = timepoints
    BY <1>1, <1>2, <1>3, <2>1 DEF FrameOK, TimepointOK
  <2>2. CASE tp[p].state = "pending" /\ timepoints' = [timepoints EXCEPT ![tp[p].sem] = @ \ {p}]
    BY <1>2, <1>3, <2>2 DEF TimepointOK
  <2>. QED
    BY <2>1, <2>2
<1>7. Typed'
  BY <1>0, <1>4, <1>5, <1>6 DEF Typed, Shape
<1>8. HeapInv'
  <2>1. SUFFICES ASSUME NEW r \in Timepoints PROVE TimepointOK(r)'
    BY DEF HeapInv
  <2>2. TimepointOK(r)
    BY <1>0 DEF HeapInv
  <2>3. CASE r = p
    BY <1>3, <1>4, <1>6, <2>2, <2>3 DEF TimepointOK, Failed
  <2>4. CASE r # p
    BY <1>4, <1>6, <2>2, <2>4 DEF TimepointOK, Failed
  <2>. QED
    BY <2>3, <2>4
<1>9. Benign(t)
  BY <1>2 DEF Benign
<1>10. \A u \in Threads : \A i \in 1..Len(stack[u]) : p \in Claim(stack[u][i]) => u = t /\ i = 1
  <2>1. CASE Top(t).pc \in AcquirePcs /\ p = Top(t).tp
    <3>1. p \in Claim(stack[t][1])
      BY <1>1, <2>1 DEF Claim
    <3>. QED
      BY <1>0, <1>1, <3>1 DEF ClaimInv
  <2>2. CASE tp[p].state = "pending"
    BY <1>0, <2>2, ClaimedState
  <2>. QED
    BY <2>1, <2>2
<1>11. Touches(t, {p})
  BY <1>4, <1>10 DEF Touches
<1>12. /\ \A s \in Semaphores : timepoints'[s] \subseteq timepoints[s]
       /\ \A s \in Semaphores : \A r \in timepoints'[s] : tp'[r].min = tp[r].min
  BY <1>2, <1>4, <1>6
<1>13. \A s \in Semaphores : \A v \in Nat :
           /\ stack[t] # <<>> /\ Collects(stack[t][1], s, v)
           /\ mutex[s] # None \/ \E r \in timepoints'[s] : tp[r].min = v
           => \E i \in 1..0 : Collects(stack'[t][i], s, v)
  BY <1>1 DEF Collects, AcquirePcs
<1>14. 0 \in 0..2 /\ 1 \in Int /\ \A i \in 1..0 : FALSE
  OBVIOUS
<1>. QED
  BY <1>5, <1>7, <1>8, <1>9, <1>11, <1>12, <1>13, <1>14, LoudStep

LEMMA ResolveAllocateKeeps ==
  ASSUME Inv, NEW t \in Threads, ResolveAllocate(t) PROVE Inv'
<1>1. /\ stack[t] # <<>> /\ Top(t).pc = "resolve_alloc" /\ Top(t).pc \in AcquirePcs
      /\ UNCHANGED <<timeline_value, failure_status, timepoints, alive, todo, mutex>>
  BY DEF ResolveAllocate, At, semVars, AcquirePcs
<1>2. Top(t) \in FrameSet /\ FrameOK(t, Top(t)) /\ mutex \in [Semaphores -> Threads \cup {None}]
  BY <1>1, TopFacts DEF Inv, Typed
<1>3. CASE Goto(t, "acquire_failure") /\ UNCHANGED tp
  BY <1>1, <1>3, AcquireGoesOn DEF Unmoved, AcquirePcs
<1>4. CASE Refuse(t)
  <2>1. PICK p \in Timepoints : p = Top(t).tp
    BY <1>1, <1>2 DEF FrameOK
  <2>. QED
    BY <1>1, <1>2, <1>4, <2>1, WithdrawStep DEF Refuse
<1>. QED
  BY <1>3, <1>4 DEF ResolveAllocate

\* The registration takes the lock, and has seen that the value is not reached.
LEMMA AcquireLockKeeps ==
  ASSUME Inv, NEW t \in Threads, AcquireLock(t) PROVE Inv'
<1>0. Typed /\ HeapInv /\ FrameInv /\ ClaimInv
  BY DEF Inv
<1>1. /\ stack[t] # <<>> /\ Top(t).pc = "acquire_lock" /\ Top(t).pc \in AcquirePcs
      /\ mutex[Top(t).sem] = None
      /\ UNCHANGED <<timeline_value, failure_status, timepoints, alive, todo>>
      /\ IF Reached(t)
         THEN AnswerNow(t, "ok") /\ UNCHANGED mutex
         ELSE Goto(t, "acquire_insert") /\ mutex' = [mutex EXCEPT ![Top(t).sem] = t] /\ UNCHANGED tp
  BY DEF AcquireLock, At, AcquirePcs, Unlocked, RecheckPasses
<1>2. Top(t) \in FrameSet /\ FrameOK(t, Top(t)) /\ Top(t) = stack[t][1] /\ 1 \in 1..Len(stack[t])
  BY <1>0, <1>1, TopFacts
<1>3. PICK p \in Timepoints : /\ p = Top(t).tp /\ tp[p].state = "acquiring" /\ tp[p].sem = Top(t).sem
                              /\ ~tp[p].late
  BY <1>1, <1>2 DEF FrameOK
<1>4. PICK s \in Semaphores : s = Top(t).sem
  BY <1>1, <1>2 DEF FrameOK, CallPcs
<1>5. /\ timepoints \in [Semaphores -> SUBSET Timepoints] /\ tp \in [Timepoints -> TimepointSet]
      /\ stack \in [Threads -> Seq(FrameSet)] /\ timeline_value \in [Semaphores -> Nat]
      /\ mutex \in [Semaphores -> Threads \cup {None}]
  BY <1>0 DEF Typed
<1>6. CASE Reached(t)
  <2>1. "ok" \in Statuses /\ Reason(Top(t).tp, "ok")
    BY <1>3, <1>6 DEF Statuses, Reason, Reached
  <2>. QED
    BY <1>1, <1>5, <1>6, <2>1, AnswerNowKeeps
<1>7. CASE ~Reached(t)
  <2>1. PICK g : g = [Top(t) EXCEPT !.pc = "acquire_insert"]
    OBVIOUS
  <2>2. "acquire_insert" \in CallPcs \cup WaitPcs
    BY DEF CallPcs, AcquirePcs
  <2>3. /\ g \in FrameSet /\ g.pc = "acquire_insert" /\ g.sem = s /\ g.tp = p
        /\ g.list = Top(t).list
    BY <1>2, <1>3, <1>4, <2>1, <2>2, GotoFrame
  <2>4. Become(t, g) /\ mutex' = [mutex EXCEPT ![s] = t] /\ UNCHANGED tp
    BY <1>1, <1>4, <1>7, <2>1 DEF Goto
  <2>5. Shape(t, 1, 0) /\ stack'[t][1] = g
    BY <1>1, <1>5, <2>3, <2>4, BecomeShape
  <2>6. Typed' /\ HeapInv'
    BY <1>0, <1>1, <1>5, <2>4, <2>5 DEF Typed, Shape, HeapInv, TimepointOK, Failed
  <2>7. Benign(t)
    BY <1>1, <1>4, <1>5, <2>4, SemaphoreAssumption DEF Benign
  <2>8. Touches(t, {})
    BY <2>4 DEF Touches
  <2>9. Top(t).list = {}
    BY <1>1, <1>2 DEF FrameOK
  <2>10. FrameOK(t, g)'
    BY <1>3, <1>4, <1>5, <2>3, <2>4, <2>9 DEF FrameOK, AcquirePcs, CallPcs
  <2>11. Claim(g) = {p} /\ Claim(stack[t][1]) = {p}
    BY <1>1, <1>2, <1>3, <2>3 DEF Claim, AcquirePcs
  <2>12. /\ \A i \in 1..1 : \A f : f = stack'[t][i] => FrameOK(t, f)'
         /\ \A i \in 1..1 : i > 1 => stack'[t][i].pc \in {"dispatch", "registered"}
    BY <2>5, <2>10
  <2>13. \A i \in 1..1 : stack'[t][i].pc = "acquire_insert" =>
            ~(timeline_value'[stack'[t][i].sem] >= tp'[stack'[t][i].tp].min)
    BY <1>1, <1>3, <1>4, <1>7, <2>3, <2>4, <2>5 DEF Reached
  <2>14. \A i \in 1..1 : \A r \in Timepoints : r \in Claim(stack'[t][i]) =>
           \A u \in Threads : \A j \in 1..Len(stack[u]) :
             r \in Claim(stack[u][j]) => u = t /\ j = 1
    BY <1>0, <1>2, <2>5, <2>11 DEF ClaimInv
  <2>15. \A i, j \in 1..1 : \A r \in Timepoints :
           r \in Claim(stack'[t][i]) /\ r \in Claim(stack'[t][j]) => i = j
    OBVIOUS
  <2>16. /\ \A q \in Semaphores : timepoints'[q] \subseteq timepoints[q]
         /\ \A q \in Semaphores : \A r \in timepoints'[q] : tp'[r].min = tp[r].min
    BY <1>1, <2>4
  <2>17. \A q \in Semaphores : \A v \in Nat :
           /\ stack[t] # <<>> /\ Collects(stack[t][1], q, v)
           /\ mutex[q] # None \/ \E r \in timepoints'[q] : tp[r].min = v
           => \E i \in 1..1 : Collects(stack'[t][i], q, v)
    BY <1>1, <1>2 DEF Collects
  <2>18. 1 \in 0..2 /\ 0 \in Int
    OBVIOUS
  <2>. QED
    BY <1>1, <2>5, <2>6, <2>7, <2>8, <2>12, <2>13, <2>14, <2>15, <2>16, <2>17, <2>18, LoudStep
<1>. QED
  BY <1>6, <1>7

LEMMA AcquireAnsweredKeeps ==
  ASSUME Inv, NEW t \in Threads, AcquireAnswered(t) PROVE Inv'
<1>1. /\ stack[t] # <<>> /\ Top(t).pc = "acquire_insert" /\ Top(t).pc \in AcquirePcs
      /\ Failed(Top(t).sem) /\ AnswerNow(t, failure_status[Top(t).sem])
      /\ mutex' = [mutex EXCEPT ![Top(t).sem] = None]
      /\ UNCHANGED <<timeline_value, failure_status, timepoints, alive, todo>>
  BY DEF AcquireAnswered, At, AcquirePcs
<1>2. /\ Top(t) \in FrameSet /\ FrameOK(t, Top(t)) /\ Typed
      /\ mutex \in [Semaphores -> Threads \cup {None}]
  BY <1>1, TopFacts DEF Inv, Typed
<1>3. /\ Top(t).sem \in Semaphores /\ mutex[Top(t).sem] = t
      /\ tp[Top(t).tp].sem = Top(t).sem
  BY <1>1, <1>2 DEF FrameOK, CallPcs
<1>4. /\ mutex' \in [Semaphores -> Threads \cup {None}]
      /\ \A s \in Semaphores : \A u \in Threads : u # t /\ mutex[s] = u => mutex'[s] = u
  BY <1>1, <1>2, <1>3
<1>5. failure_status[Top(t).sem] \in Statuses /\ Reason(Top(t).tp, failure_status[Top(t).sem])
  BY <1>1, <1>2, <1>3 DEF Typed, Reason, Failed
<1>. QED
  BY <1>1, <1>4, <1>5, AnswerNowKeeps

\* The timepoint enters the heap: a value published meanwhile is still on its
\* way to the lock.
LEMMA AcquireInsertKeeps ==
  ASSUME Inv, NEW t \in Threads, AcquireInsert(t) PROVE Inv'
<1>0. Typed /\ HeapInv /\ FrameInv /\ ClaimInv /\ NoTimepointIsStranded /\ InsertInv
  BY DEF Inv
<1>1. /\ stack[t] # <<>> /\ Top(t).pc = "acquire_insert" /\ Top(t).pc \in AcquirePcs
      /\ ~Failed(Top(t).sem)
      /\ mutex' = [mutex EXCEPT ![Top(t).sem] = None]
      /\ UNCHANGED <<timeline_value, failure_status, alive, todo>>
      /\ \/ /\ timepoints' = [timepoints EXCEPT ![Top(t).sem] = @ \cup {Top(t).tp}]
            /\ tp' = [tp EXCEPT ![Top(t).tp].state = "pending"] /\ Return(t)
         \/ Refuse(t) /\ UNCHANGED timepoints
  BY DEF AcquireInsert, At, AcquirePcs, InsertChecks
<1>2. Top(t) \in FrameSet /\ FrameOK(t, Top(t)) /\ Top(t) = stack[t][1] /\ 1 \in 1..Len(stack[t])
  BY <1>0, <1>1, TopFacts
<1>3. PICK p \in Timepoints : /\ p = Top(t).tp /\ tp[p].state = "acquiring" /\ tp[p].sem = Top(t).sem
                              /\ ~tp[p].late
  BY <1>1, <1>2 DEF FrameOK
<1>4. PICK s \in Semaphores : s = Top(t).sem /\ mutex[s] = t
  BY <1>1, <1>2 DEF FrameOK, CallPcs
<1>5. /\ timepoints \in [Semaphores -> SUBSET Timepoints] /\ tp \in [Timepoints -> TimepointSet]
      /\ stack \in [Threads -> Seq(FrameSet)] /\ timeline_value \in [Semaphores -> Nat]
      /\ mutex \in [Semaphores -> Threads \cup {None}]
  BY <1>0 DEF Typed
<1>6. /\ mutex' \in [Semaphores -> Threads \cup {None}]
      /\ \A q \in Semaphores : \A u \in Threads : u # t /\ mutex[q] = u => mutex'[q] = u
  BY <1>1, <1>4, <1>5
<1>7. CASE Refuse(t) /\ UNCHANGED timepoints
  BY <1>1, <1>3, <1>6, <1>7, WithdrawStep DEF Refuse
<1>8. CASE /\ timepoints' = [timepoints EXCEPT ![s] = @ \cup {p}]
           /\ tp' = [tp EXCEPT ![p].state = "pending"] /\ Return(t)
  <2>1. /\ tp' \in [Timepoints -> TimepointSet]
        /\ tp'[p].sem = tp[p].sem /\ tp'[p].min = tp[p].min /\ tp'[p].late = tp[p].late
        /\ tp'[p].callback = tp[p].callback /\ tp'[p].target = tp[p].target
        /\ tp'[p].state = "pending"
        /\ \A r \in Timepoints : r # p => tp'[r] = tp[r]
    <3>1. "pending" \in TimepointStates
      BY DEF TimepointStates
    <3>. QED
      BY <1>5, <1>8, <3>1, MoveFacts
  <2>2. Shape(t, 0, 1)
    BY <1>1, <1>5, <1>8, ReturnShape
  <2>3. Typed'
    BY <1>0, <1>1, <1>5, <1>6, <1>8, <2>1, <2>2 DEF Typed, Shape
  <2>4. HeapInv'
    <3>1. SUFFICES ASSUME NEW r \in Timepoints PROVE TimepointOK(r)'
      BY DEF HeapInv
    <3>2. TimepointOK(r)
      BY <1>0 DEF HeapInv
    <3>3. CASE r = p
      BY <1>1, <1>3, <1>4, <1>5, <1>8, <2>1, <3>2, <3>3 DEF TimepointOK, Failed
    <3>4. CASE r # p
      BY <1>1, <1>5, <1>8, <2>1, <3>2, <3>4 DEF TimepointOK, Failed
    <3>. QED
      BY <3>3, <3>4
  <2>5. Benign(t) /\ Numbers
    BY <1>1, <1>5, <1>6 DEF Benign, Numbers
  <2>6. Touches(t, {p})
    <3>1. p \in Claim(stack[t][1])
      BY <1>1, <1>2, <1>3 DEF Claim
    <3>2. \A u \in Threads : \A i \in 1..Len(stack[u]) : p \in Claim(stack[u][i]) => u = t /\ i = 1
      BY <1>0, <1>2, <3>1 DEF ClaimInv
    <3>. QED
      BY <2>1, <3>2 DEF Touches
  <2>7. 0 \in 0..2 /\ 1 \in Int /\ \A i \in 1..0 : FALSE
    OBVIOUS
  <2>8. FrameInv' /\ ClaimInv'
    BY <1>0, <1>5, <2>2, <2>5, <2>6, <2>7, FramesKept, ClaimsKept
  <2>9. \A q, v : WillCollect(q, v) => WillCollect(q, v)'
    <3>1. SUFFICES ASSUME NEW q, NEW v, WillCollect(q, v) PROVE WillCollect(q, v)'
      OBVIOUS
    <3>2. ~Collects(stack[t][1], q, v)
      BY <1>1, <1>2 DEF Collects
    <3>. QED
      BY <1>1, <1>5, <2>2, <2>7, <3>1, <3>2, CollectKept
  <2>10. NoTimepointIsStranded'
    <3>1. SUFFICES ASSUME NEW q \in Semaphores, NEW r \in timepoints'[q], NEW v, v = tp'[r].min,
                          Failed(q)' \/ timeline_value'[q] >= v
                   PROVE  WillCollect(q, v)'
      BY DEF NoTimepointIsStranded, WillCollect, Failed
    <3>2. Failed(q) \/ timeline_value[q] >= v
      BY <1>1, <3>1 DEF Failed
    <3>3. r \in Timepoints /\ v = tp[r].min
      BY <2>1, <2>3, <3>1 DEF Typed
    <3>4. CASE r \in timepoints[q]
      BY <1>0, <2>9, <3>2, <3>3, <3>4 DEF NoTimepointIsStranded
    <3>5. CASE r \notin timepoints[q]
      <4>1. r = p /\ q = s
        BY <1>5, <1>8, <3>1, <3>5
      <4>2. WillCollect(s, tp[p].min)
        BY <1>0, <1>1, <1>2, <1>3, <1>4, <3>2, <3>3, <4>1 DEF InsertInv
      <4>. QED
        BY <2>9, <3>3, <4>1, <4>2
    <3>. QED
      BY <3>4, <3>5
  <2>11. InsertInv'
    BY <1>0, <1>1, <2>2, <2>6, <2>7, <2>9, InsertKept
  <2>. QED
    BY <2>3, <2>4, <2>8, <2>10, <2>11 DEF Inv
<1>. QED
  BY <1>1, <1>3, <1>4, <1>7, <1>8

LEMMA CancelKeeps ==
  ASSUME Inv, NEW t \in Threads, Cancel(t) PROVE Inv'
<1>1. /\ stack[t] # <<>> /\ Top(t).pc = "cancel" /\ Return(t)
      /\ timepoints' = [timepoints EXCEPT ![tp[Top(t).tp].sem] = @ \ {Top(t).tp}]
      /\ tp' = [tp EXCEPT ![Top(t).tp].state = IF Cancellable(Top(t).tp) THEN "withdrawn" ELSE @]
      /\ UNCHANGED <<timeline_value, failure_status, alive, todo, mutex>>
  BY DEF Cancel, CancelTimepoint, At
<1>2. /\ Top(t) \in FrameSet /\ FrameOK(t, Top(t)) /\ Typed /\ HeapInv
      /\ mutex \in [Semaphores -> Threads \cup {None}]
  BY <1>1, TopFacts DEF Inv, Typed
<1>3. PICK p \in Timepoints : p = Top(t).tp
  BY <1>1, <1>2 DEF FrameOK
<1>4. CASE tp[p].state = "pending"
  BY <1>1, <1>2, <1>3, <1>4, WithdrawStep DEF Cancellable
<1>5. CASE tp[p].state # "pending"
  <2>1. tp' = tp
    BY <1>1, <1>2, <1>3, <1>5 DEF Cancellable, Typed, TimepointSet
  <2>2. timepoints' = timepoints
    BY <1>1, <1>2, <1>3, <1>5 DEF HeapInv, TimepointOK, Typed
  <2>3. \A s, v : ~Collects(Top(t), s, v)
    BY <1>1 DEF Collects
  <2>. QED
    BY <1>1, <2>1, <2>2, <2>3, QuietReturn DEF Unmoved
<1>. QED
  BY <1>4, <1>5

LEMMA AnswerFacts ==
  ASSUME tp \in [Timepoints -> TimepointSet], NEW p \in Timepoints, NEW status \in Statuses,
         Answer(p, status)
  PROVE  /\ tp' \in [Timepoints -> TimepointSet]
         /\ tp'[p].sem = tp[p].sem /\ tp'[p].min = tp[p].min /\ tp'[p].late = tp[p].late
         /\ tp'[p].callback = tp[p].callback /\ tp'[p].target = tp[p].target
         /\ tp'[p].state = "answered" /\ tp'[p].status = status
         /\ \A r \in Timepoints : r # p => tp'[r] = tp[r]
<1>0. PICK q : q = [tp[p] EXCEPT !.state = "answered"]
  OBVIOUS
<1>01. /\ q \in TimepointSet /\ q.state = "answered"
       /\ q.sem = tp[p].sem /\ q.min = tp[p].min /\ q.late = tp[p].late
       /\ q.callback = tp[p].callback /\ q.target = tp[p].target
  BY <1>0 DEF TimepointSet, TimepointStates, Ended
<1>1. PICK r : r = [q EXCEPT !.status = status]
  OBVIOUS
<1>2. /\ r \in TimepointSet /\ r.state = "answered" /\ r.status = status
      /\ r.sem = tp[p].sem /\ r.min = tp[p].min /\ r.late = tp[p].late
      /\ r.callback = tp[p].callback /\ r.target = tp[p].target
  BY <1>01, <1>1 DEF TimepointSet
<1>3. tp' = [tp EXCEPT ![p] = r]
  BY <1>0, <1>1 DEF Answer
<1>. QED
  BY <1>2, <1>3

\* What a callback runs answers for no timepoint.
LEMMA CallbackFrame ==
  ASSUME Typed, HeapInv, NEW p \in Timepoints, NEW status \in Statuses, tp[p].state # "idle"
  PROVE  \/ Callback(p, status) = <<>>
         \/ \E g \in FrameSet :
              /\ Callback(p, status) = <<g>> /\ g.list = {}
              /\ g.pc \in {"cas", "check", "fail", "cb_failure"}
              /\ g.pc \in CallPcs => g.sem \in Semaphores
              /\ g.pc = "fail" => g.status # "ok"
<1>0. tp[p] \in TimepointSet /\ TimepointOK(p)
  BY DEF Typed, HeapInv
<1>1. CASE tp[p].callback = "user"
  BY <1>1 DEF Callback
<1>2. CASE tp[p].callback = "link" /\ status = "ok"
  <2>1. PICK g : g = [SignalFrame("signal", tp[p].target, tp[p].targetValue, NoFrontier) EXCEPT !.relay = TRUE]
    OBVIOUS
  <2>2. PICK s \in Semaphores, v \in Nat : s = tp[p].target /\ v = tp[p].targetValue
    BY <1>0, <1>2 DEF TimepointOK, TimepointSet
  <2>3. NoFrontier \in [Axes -> Nat]
    BY DEF NoFrontier
  <2>4. g \in FrameSet /\ g.pc \in {"cas", "check"} /\ g.sem = s /\ g.list = {}
    BY <2>1, <2>2, <2>3, NewSignalFrame
  <2>5. Callback(p, status) = <<g>>
    BY <1>2, <2>1 DEF Callback
  <2>. QED
    BY <2>4, <2>5
<1>3. CASE tp[p].callback = "link" /\ status # "ok"
  <2>1. PICK g : g = FailFrame(tp[p].target, status)
    OBVIOUS
  <2>2. PICK s \in Semaphores : s = tp[p].target
    BY <1>0, <1>3 DEF TimepointOK
  <2>3. g \in FrameSet /\ g.pc = "fail" /\ g.sem = s /\ g.list = {} /\ g.status = status
    BY <2>1, <2>2, NewFailFrame
  <2>4. Callback(p, status) = <<g>>
    BY <1>3, <2>1 DEF Callback
  <2>. QED
    BY <1>3, <2>3, <2>4
<1>4. CASE tp[p].callback = "wait"
  <2>1. PICK h : h = Frame("cb_failure", tp[p].sem)
    OBVIOUS
  <2>2. PICK s \in Semaphores \cup {None} : s = tp[p].sem
    BY <1>0 DEF TimepointSet
  <2>3. "cb_failure" \in CallPcs \cup WaitPcs
    BY DEF WaitPcs
  <2>4. h \in FrameSet /\ h.pc = "cb_failure" /\ h.list = {}
    BY <2>1, <2>2, <2>3, NewFrame
  <2>5. PICK g : g = [h EXCEPT !.tp = p, !.status = status]
    OBVIOUS
  <2>6. g \in FrameSet /\ g.pc = "cb_failure" /\ g.list = {}
    BY <2>4, <2>5 DEF FrameSet
  <2>7. Callback(p, status) = <<g>>
    BY <1>4, <2>1, <2>5 DEF Callback
  <2>8. "cb_failure" \notin CallPcs
    BY DEF CallPcs, SignalPcs, AcquirePcs
  <2>. QED
    BY <2>6, <2>7, <2>8
<1>. QED
  BY <1>0, <1>1, <1>2, <1>3, <1>4 DEF TimepointSet

\* One callback runs: its timepoint is answered, and nobody answers for it.
LEMMA DispatchKeeps ==
  ASSUME Inv, NEW t \in Threads, Dispatch(t) PROVE Inv'
<1>0. Typed /\ HeapInv /\ FrameInv /\ ClaimInv
  BY DEF Inv
<1>1. /\ stack[t] # <<>> /\ Top(t).pc = "dispatch"
      /\ UNCHANGED <<timeline_value, failure_status, timepoints, alive, todo, mutex>>
  BY DEF Dispatch, At, semVars
<1>2. Top(t) \in FrameSet /\ FrameOK(t, Top(t)) /\ Top(t) = stack[t][1] /\ 1 \in 1..Len(stack[t])
  BY <1>0, <1>1, TopFacts
<1>3. PICK p \in Top(t).list :
        /\ Answer(p, [Top(t) EXCEPT !.list = @ \ {p}].status)
        /\ stack' = [stack EXCEPT ![t] = Callback(p, [Top(t) EXCEPT !.list = @ \ {p}].status)
                                         \o <<[Top(t) EXCEPT !.list = @ \ {p}]>> \o Tail(@)]
  BY DEF Dispatch
<1>4. PICK f : f = [Top(t) EXCEPT !.list = @ \ {p}]
  OBVIOUS
<1>5. /\ f \in FrameSet /\ f.pc = "dispatch" /\ f.sem = Top(t).sem /\ f.status = Top(t).status
      /\ f.list = Top(t).list \ {p} /\ f.status \in Statuses
  BY <1>1, <1>2, <1>4 DEF FrameSet
<1>6. /\ p \in Timepoints /\ tp[p].state = "detached" /\ Top(t).sem \in Semaphores
      /\ \A r \in Top(t).list : r \in Timepoints
  BY <1>1, <1>2, <1>3 DEF FrameOK, FrameSet, CallPcs
<1>7. /\ timepoints \in [Semaphores -> SUBSET Timepoints] /\ tp \in [Timepoints -> TimepointSet]
      /\ stack \in [Threads -> Seq(FrameSet)] /\ timeline_value \in [Semaphores -> Nat]
      /\ mutex \in [Semaphores -> Threads \cup {None}]
  BY <1>0 DEF Typed
<1>8. /\ tp' \in [Timepoints -> TimepointSet]
      /\ tp'[p].sem = tp[p].sem /\ tp'[p].min = tp[p].min /\ tp'[p].late = tp[p].late
      /\ tp'[p].callback = tp[p].callback /\ tp'[p].target = tp[p].target
      /\ tp'[p].state = "answered"
      /\ \A r \in Timepoints : r # p => tp'[r] = tp[r]
  BY <1>3, <1>4, <1>5, <1>6, <1>7, AnswerFacts
<1>9. stack' = [stack EXCEPT ![t] = Callback(p, f.status) \o <<f>> \o Tail(@)]
  BY <1>3, <1>4
<1>10. HeapInv'
  <2>1. SUFFICES ASSUME NEW r \in Timepoints PROVE TimepointOK(r)'
    BY DEF HeapInv
  <2>2. TimepointOK(r)
    BY <1>0 DEF HeapInv
  <2>3. CASE r = p
    BY <1>1, <1>6, <1>8, <2>2, <2>3 DEF TimepointOK, Failed
  <2>4. CASE r # p
    BY <1>1, <1>8, <2>2, <2>4 DEF TimepointOK, Failed
  <2>. QED
    BY <2>3, <2>4
<1>11. Benign(t)
  BY <1>1, <1>7 DEF Benign
<1>12. Claim(stack[t][1]) = Top(t).list /\ Claim(f) = Top(t).list \ {p}
  BY <1>1, <1>2, <1>5 DEF Claim, AcquirePcs
<1>13. \A r \in Timepoints : r \in Top(t).list =>
         \A u \in Threads : \A i \in 1..Len(stack[u]) : r \in Claim(stack[u][i]) => u = t /\ i = 1
  BY <1>0, <1>2, <1>12 DEF ClaimInv
<1>14. Touches(t, {p})
  BY <1>3, <1>6, <1>8, <1>13 DEF Touches
<1>15. FrameOK(t, f)'
  <2>1. \A r \in f.list : /\ tp[r].state = "detached" /\ tp[r].sem = f.sem /\ Reason(r, f.status)
                          /\ r \in Timepoints /\ r # p
    BY <1>2, <1>5, <1>6 DEF FrameOK
  <2>2. \A r \in f.list : Reason(r, f.status)' /\ tp'[r] = tp[r]
    BY <1>1, <1>8, <2>1 DEF Reason
  <2>. QED
    BY <1>5, <1>6, <2>1, <2>2 DEF FrameOK, AcquirePcs, CallPcs
<1>16. \A s, v : ~Collects(stack[t][1], s, v)
  BY <1>1, <1>2 DEF Collects
<1>17. /\ \A q \in Semaphores : timepoints'[q] \subseteq timepoints[q]
       /\ \A q \in Semaphores : \A r \in timepoints'[q] : tp'[r].min = tp[r].min
  BY <1>1, <1>7, <1>8
<1>18. Tail(stack[t]) \in Seq(FrameSet) /\ <<f>> \in Seq(FrameSet)
  BY <1>1, <1>5, <1>7, StackParts
<1>19. CASE Callback(p, f.status) = <<>>
  <2>1. Become(t, f)
    BY <1>7, <1>9, <1>18, <1>19, ConcatEmptySeq DEF Become
  <2>2. Shape(t, 1, 0) /\ stack'[t][1] = f
    BY <1>1, <1>5, <1>7, <2>1, BecomeShape
  <2>3. Typed'
    BY <1>0, <1>1, <1>8, <2>2 DEF Typed, Shape
  <2>4. /\ \A i \in 1..1 : \A g : g = stack'[t][i] => FrameOK(t, g)'
        /\ \A i \in 1..1 : i > 1 => stack'[t][i].pc \in {"dispatch", "registered"}
        /\ \A i \in 1..1 : stack'[t][i].pc = "acquire_insert" =>
             ~(timeline_value'[stack'[t][i].sem] >= tp'[stack'[t][i].tp].min)
    BY <1>5, <1>15, <2>2
  <2>5. \A i \in 1..1 : \A r \in Timepoints : r \in Claim(stack'[t][i]) =>
           \A u \in Threads : \A j \in 1..Len(stack[u]) :
             r \in Claim(stack[u][j]) => u = t /\ j = 1
    BY <1>12, <1>13, <2>2
  <2>6. \A i, j \in 1..1 : \A r \in Timepoints :
           r \in Claim(stack'[t][i]) /\ r \in Claim(stack'[t][j]) => i = j
    OBVIOUS
  <2>7. 1 \in 0..2 /\ 0 \in Int
    OBVIOUS
  <2>. QED
    BY <1>1, <1>10, <1>11, <1>14, <1>16, <1>17, <2>2, <2>3, <2>4, <2>5, <2>6, <2>7, LoudStep
<1>20. ASSUME NEW g \in FrameSet, Callback(p, f.status) = <<g>>, g.list = {},
              g.pc \in {"cas", "check", "fail", "cb_failure"},
              g.pc \in CallPcs => g.sem \in Semaphores, g.pc = "fail" => g.status # "ok"
       PROVE  Inv'
  <2>0. <<g>> \in Seq(FrameSet)
    OBVIOUS
  <2>1. stack' = [stack EXCEPT ![t] = <<g>> \o (<<f>> \o Tail(@))]
    <3>1. (<<g>> \o <<f>>) \o Tail(stack[t]) = <<g>> \o (<<f>> \o Tail(stack[t]))
      BY <1>18, <2>0, ConcatAssociative
    <3>. QED
      BY <1>9, <1>20, <3>1
  <2>2. Shape(t, 2, -1) /\ stack'[t][1] = g /\ stack'[t][2] = f
    <3>1. stack \in [Threads -> Seq(FrameSet)] /\ stack[t] # <<>> /\ f \in FrameSet
      BY <1>1, <1>5, <1>7
    <3>. QED
      BY <2>1, <3>1, PushShape, Zenon
  <2>3. Typed'
    BY <1>0, <1>1, <1>8, <2>2 DEF Typed, Shape
  <2>4. g.pc \notin AcquirePcs /\ Claim(g) = {} /\ g.pc # "acquire_insert"
    BY <1>20 DEF Claim, AcquirePcs
  <2>5. FrameOK(t, g)'
    BY <1>20, <2>4 DEF FrameOK, AcquirePcs
  <2>6. /\ \A i \in 1..2 : \A h : h = stack'[t][i] => FrameOK(t, h)'
        /\ \A i \in 1..2 : i > 1 => stack'[t][i].pc \in {"dispatch", "registered"}
        /\ \A i \in 1..2 : stack'[t][i].pc = "acquire_insert" =>
             ~(timeline_value'[stack'[t][i].sem] >= tp'[stack'[t][i].tp].min)
    <3>1. \A i \in 1..2 : i = 1 \/ i = 2
      OBVIOUS
    <3>. QED
      BY <1>5, <1>15, <2>2, <2>4, <2>5, <3>1
  <2>7. \A i \in 1..2 : \A r \in Timepoints : r \in Claim(stack'[t][i]) => i = 2 /\ r \in Top(t).list
    <3>1. \A i \in 1..2 : i = 1 \/ i = 2
      OBVIOUS
    <3>. QED
      BY <1>12, <2>2, <2>4, <3>1
  <2>8. /\ \A i \in 1..2 : \A r \in Timepoints : r \in Claim(stack'[t][i]) =>
             \A u \in Threads : \A j \in 1..Len(stack[u]) :
               r \in Claim(stack[u][j]) => u = t /\ j = 1
        /\ \A i, j \in 1..2 : \A r \in Timepoints :
             r \in Claim(stack'[t][i]) /\ r \in Claim(stack'[t][j]) => i = j
    BY <1>13, <2>7
  <2>9. 2 \in 0..2 /\ -1 \in Int
    OBVIOUS
  <2>. QED
    BY <1>1, <1>10, <1>11, <1>14, <1>16, <1>17, <2>2, <2>3, <2>6, <2>8, <2>9, LoudStep
<1>. QED
  BY <1>0, <1>5, <1>6, <1>19, <1>20, CallbackFrame

----------------------------------------------------------------------------
(* The steps that publish a value or a failure.                            *)

LEMMA StrandPrimed ==
  ASSUME \A s \in Semaphores : \A p \in timepoints'[s] : \A v :
           /\ v = tp'[p].min /\ (Failed(s)' \/ timeline_value'[s] >= v)
           => WillCollect(s, v)'
  PROVE  NoTimepointIsStranded'
BY DEF NoTimepointIsStranded, WillCollect, Failed

\* The signaling thread will collect whom its value reaches.
LEMMA SignalCasKeeps ==
  ASSUME Inv, NEW t \in Threads, SignalCas(t) PROVE Inv'
<1>0. Typed /\ HeapInv /\ FrameInv /\ ClaimInv /\ NoTimepointIsStranded /\ InsertInv
  BY DEF Inv
<1>1. /\ stack[t] # <<>> /\ Top(t).pc = "cas" /\ Top(t).value > timeline_value[Top(t).sem]
      /\ timeline_value' = [timeline_value EXCEPT ![Top(t).sem] = Top(t).value]
      /\ UNCHANGED <<failure_status, timepoints, mutex, alive, tp, todo>>
      /\ \E pc \in {"recheck", "merge"} : Goto(t, pc)
  BY DEF SignalCas, At, Passes
<1>2. Top(t) \in FrameSet /\ FrameOK(t, Top(t)) /\ Top(t) = stack[t][1] /\ 1 \in 1..Len(stack[t])
  BY <1>0, <1>1, TopFacts
<1>3. PICK pc \in {"recheck", "merge"} : Goto(t, pc)
  BY <1>1
<1>4. PICK s \in Semaphores : s = Top(t).sem
  BY <1>1, <1>2 DEF FrameOK, CallPcs, SignalPcs
<1>5. /\ timepoints \in [Semaphores -> SUBSET Timepoints] /\ tp \in [Timepoints -> TimepointSet]
      /\ stack \in [Threads -> Seq(FrameSet)] /\ timeline_value \in [Semaphores -> Nat]
      /\ Top(t).value \in Nat
  BY <1>0, <1>2 DEF Typed, FrameSet
<1>6. PICK g : g = [Top(t) EXCEPT !.pc = pc]
  OBVIOUS
<1>7. pc \in CallPcs \cup WaitPcs
  BY DEF CallPcs, SignalPcs
<1>8. /\ g \in FrameSet /\ g.pc = pc /\ g.sem = s /\ g.value = Top(t).value /\ g.list = Top(t).list
  BY <1>2, <1>4, <1>6, <1>7, GotoFrame
<1>9. Become(t, g)
  BY <1>3, <1>6 DEF Goto
<1>10. Shape(t, 1, 0) /\ stack'[t][1] = g
  BY <1>1, <1>5, <1>8, <1>9, BecomeShape
<1>11. /\ timeline_value' \in [Semaphores -> Nat] /\ timeline_value'[s] = Top(t).value
       /\ \A q \in Semaphores : q # s => timeline_value'[q] = timeline_value[q]
  BY <1>1, <1>4, <1>5
<1>12. Typed' /\ HeapInv'
  BY <1>0, <1>1, <1>10, <1>11 DEF Typed, Shape, HeapInv, TimepointOK, Failed
<1>13. Benign(t) /\ Numbers /\ Touches(t, {})
  BY <1>1, <1>4, <1>5, <1>11 DEF Benign, Numbers, Touches
<1>14. Top(t).list = {}
  BY <1>1, <1>2 DEF FrameOK
<1>15. FrameOK(t, g)' /\ Claim(g) = {} /\ g.pc # "acquire_insert"
  BY <1>5, <1>8, <1>11, <1>14 DEF FrameOK, AcquirePcs, CallPcs, SignalPcs, Claim
<1>16. /\ \A i \in 1..1 : \A f : f = stack'[t][i] => FrameOK(t, f)'
       /\ \A i \in 1..1 : i > 1 => stack'[t][i].pc \in {"dispatch", "registered"}
  BY <1>10, <1>15
<1>17. /\ \A i \in 1..1 : \A p \in Timepoints : p \in Claim(stack'[t][i]) =>
            \A u \in Threads : \A j \in 1..Len(stack[u]) :
              p \in Claim(stack[u][j]) => u = t /\ j = 1
       /\ \A i, j \in 1..1 : \A p \in Timepoints :
            p \in Claim(stack'[t][i]) /\ p \in Claim(stack'[t][j]) => i = j
  BY <1>10, <1>15
<1>18. 1 \in 0..2 /\ 0 \in Int
  OBVIOUS
<1>19. FrameInv' /\ ClaimInv'
  BY <1>0, <1>5, <1>10, <1>13, <1>16, <1>17, <1>18, FramesKept, ClaimsKept
<1>20. \A q, v : WillCollect(q, v) => WillCollect(q, v)'
  <2>1. SUFFICES ASSUME NEW q, NEW v, WillCollect(q, v) PROVE WillCollect(q, v)'
    OBVIOUS
  <2>2. ~Collects(stack[t][1], q, v)
    BY <1>1, <1>2 DEF Collects
  <2>. QED
    BY <1>1, <1>5, <1>10, <1>18, <2>1, <2>2, CollectKept
<1>21. \A v \in Nat : ~Failed(s) /\ Top(t).value >= v => WillCollect(s, v)'
  <2>1. SUFFICES ASSUME NEW v \in Nat, ~Failed(s), Top(t).value >= v PROVE WillCollect(s, v)'
    OBVIOUS
  <2>2. Collects(g, s, v)'
    BY <1>1, <1>8, <2>1 DEF Collects, Failed
  <2>3. 1 \in 1..Len(stack'[t])
    BY <1>5, <1>10, LenProperties DEF Shape
  <2>. QED
    BY <1>10, <2>2, <2>3 DEF WillCollect, Collects
<1>22. \A q \in Semaphores : \A v \in Nat :
         /\ timeline_value'[q] >= v /\ ~Failed(q)
         /\ timeline_value[q] >= v => WillCollect(q, v)
         => WillCollect(q, v)'
  BY <1>11, <1>20, <1>21
<1>23. NoTimepointIsStranded'
  <2>1. SUFFICES ASSUME NEW q \in Semaphores, NEW p \in timepoints'[q], NEW v, v = tp'[p].min,
                        Failed(q)' \/ timeline_value'[q] >= v
                 PROVE  WillCollect(q, v)'
    BY StrandPrimed, Zenon
  <2>2. p \in timepoints[q] /\ v = tp[p].min /\ v \in Nat
    BY <1>1, <1>5, <2>1 DEF TimepointSet
  <2>3. CASE Failed(q)
    BY <1>0, <1>20, <2>2, <2>3 DEF NoTimepointIsStranded
  <2>4. CASE ~Failed(q)
    <3>1. timeline_value[q] >= v => WillCollect(q, v)
      BY <1>0, <2>2 DEF NoTimepointIsStranded
    <3>2. timeline_value'[q] >= v
      BY <1>1, <2>1, <2>4 DEF Failed
    <3>. QED
      BY <1>22, <2>2, <2>4, <3>1, <3>2
  <2>. QED
    BY <2>3, <2>4
<1>24. InsertInv'
  <2>1. SUFFICES ASSUME NEW u \in Threads, NEW i \in 1..Len(stack'[u]), NEW f, NEW v, f = stack'[u][i],
                        f.pc = "acquire_insert", ~Failed(f.sem)', v = tp'[f.tp].min,
                        timeline_value'[f.sem] >= v
                 PROVE  WillCollect(f.sem, v)'
    BY InsertPrimed, Zenon
  <2>2. i \in 1..Len(stack[u]) /\ f = stack[u][i]
    <3>1. u = t => i > 1
      BY <1>10, <1>15, <2>1, <1>5, LenProperties DEF Shape
    <3>. QED
      BY <1>5, <1>10, <3>1, <2>1, LenProperties DEF Shape
  <2>3. f \in FrameSet /\ FrameOK(u, f)
    BY <1>0, <1>5, <2>2, ElementOfSeq DEF FrameInv
  <2>4. f.sem \in Semaphores /\ f.tp \in Timepoints
    BY <2>1, <2>3 DEF FrameOK, CallPcs, AcquirePcs
  <2>5. v \in Nat /\ v = tp[f.tp].min
    BY <1>1, <1>5, <2>1, <2>4 DEF TimepointSet
  <2>6. timeline_value[f.sem] >= v => WillCollect(f.sem, v)
    BY <1>0, <1>1, <2>1, <2>2, <2>5 DEF InsertInv, Failed
  <2>7. ~Failed(f.sem)
    BY <1>1, <2>1 DEF Failed
  <2>. QED
    BY <1>22, <2>1, <2>4, <2>5, <2>6, <2>7
<1>. QED
  BY <1>12, <1>19, <1>23, <1>24 DEF Inv

\* The thread that fails the semaphore first will flush it.
LEMMA FailCasKeeps ==
  ASSUME Inv, NEW t \in Threads, FailCas(t) PROVE Inv'
<1>0. Typed /\ HeapInv /\ FrameInv /\ ClaimInv /\ NoTimepointIsStranded /\ InsertInv
  BY DEF Inv
<1>1. /\ stack[t] # <<>> /\ Top(t).pc = "fail"
      /\ UNCHANGED <<timeline_value, timepoints, mutex, alive, tp, todo>>
      /\ IF ~Failed(Top(t).sem)
         THEN failure_status' = [failure_status EXCEPT ![Top(t).sem] = Top(t).status] /\ Goto(t, "flush")
         ELSE UNCHANGED failure_status /\ Return(t)
  BY DEF FailCas, At, FailWins
<1>2. Top(t) \in FrameSet /\ FrameOK(t, Top(t)) /\ Top(t) = stack[t][1] /\ 1 \in 1..Len(stack[t])
  BY <1>0, <1>1, TopFacts
<1>3. \A q, v : ~Collects(Top(t), q, v)
  BY <1>1 DEF Collects
<1>4. PICK s \in Semaphores : s = Top(t).sem
  BY <1>1, <1>2 DEF FrameOK, CallPcs
<1>5. /\ timepoints \in [Semaphores -> SUBSET Timepoints] /\ tp \in [Timepoints -> TimepointSet]
      /\ stack \in [Threads -> Seq(FrameSet)] /\ timeline_value \in [Semaphores -> Nat]
      /\ failure_status \in [Semaphores -> Statuses] /\ Top(t).status \in Statuses
      /\ Top(t).status # "ok" /\ Top(t).list = {}
  BY <1>0, <1>1, <1>2 DEF Typed, FrameSet, FrameOK
<1>6. CASE Failed(s)
  BY <1>1, <1>3, <1>4, <1>6, QuietReturn DEF Unmoved
<1>7. CASE ~Failed(s)
  <2>1. PICK g : g = [Top(t) EXCEPT !.pc = "flush"]
    OBVIOUS
  <2>2. "flush" \in CallPcs \cup WaitPcs
    BY DEF CallPcs
  <2>3. /\ g \in FrameSet /\ g.pc = "flush" /\ g.sem = s /\ g.status = Top(t).status /\ g.list = {}
    BY <1>2, <1>4, <1>5, <2>1, <2>2, GotoFrame
  <2>4. Become(t, g) /\ failure_status' = [failure_status EXCEPT ![s] = Top(t).status]
    BY <1>1, <1>4, <1>7, <2>1 DEF Goto
  <2>5. Shape(t, 1, 0) /\ stack'[t][1] = g
    BY <1>1, <1>5, <2>3, <2>4, BecomeShape
  <2>6. /\ failure_status' \in [Semaphores -> Statuses] /\ failure_status'[s] = Top(t).status
        /\ \A q \in Semaphores : q # s => failure_status'[q] = failure_status[q]
    BY <1>5, <2>4
  <2>7. Typed'
    BY <1>0, <1>1, <2>5, <2>6 DEF Typed, Shape
  <2>8. \A q \in Semaphores : Failed(q) => Failed(q)' /\ failure_status'[q] = failure_status[q]
    BY <1>7, <2>6 DEF Failed
  <2>9. HeapInv'
    BY <1>0, <1>1, <2>8 DEF HeapInv, TimepointOK
  <2>10. Benign(t) /\ Numbers /\ Touches(t, {})
    BY <1>1, <1>5, <2>8 DEF Benign, Numbers, Touches
  <2>11. FrameOK(t, g)' /\ Claim(g) = {} /\ g.pc # "acquire_insert"
    BY <1>5, <2>3, <2>6 DEF FrameOK, AcquirePcs, CallPcs, Claim
  <2>12. /\ \A i \in 1..1 : \A f : f = stack'[t][i] => FrameOK(t, f)'
         /\ \A i \in 1..1 : i > 1 => stack'[t][i].pc \in {"dispatch", "registered"}
    BY <2>5, <2>11
  <2>13. /\ \A i \in 1..1 : \A p \in Timepoints : p \in Claim(stack'[t][i]) =>
              \A u \in Threads : \A j \in 1..Len(stack[u]) :
                p \in Claim(stack[u][j]) => u = t /\ j = 1
         /\ \A i, j \in 1..1 : \A p \in Timepoints :
              p \in Claim(stack'[t][i]) /\ p \in Claim(stack'[t][j]) => i = j
    BY <2>5, <2>11
  <2>14. 1 \in 0..2 /\ 0 \in Int
    OBVIOUS
  <2>15. FrameInv' /\ ClaimInv'
    BY <1>0, <1>5, <2>5, <2>10, <2>12, <2>13, <2>14, FramesKept, ClaimsKept
  <2>16. \A v : WillCollect(s, v)'
    <3>1. SUFFICES ASSUME NEW v PROVE WillCollect(s, v)'
      OBVIOUS
    <3>2. Collects(g, s, v)'
      BY <2>3 DEF Collects
    <3>3. 1 \in 1..Len(stack'[t])
      BY <1>5, <2>5, LenProperties DEF Shape
    <3>. QED
      BY <2>5, <3>2, <3>3 DEF WillCollect, Collects
  <2>17. \A q \in Semaphores : \A v : q # s /\ WillCollect(q, v) => WillCollect(q, v)'
    <3>1. SUFFICES ASSUME NEW q \in Semaphores, NEW v, q # s, WillCollect(q, v)
                   PROVE  WillCollect(q, v)'
      OBVIOUS
    <3>2. ~Collects(stack[t][1], q, v) /\ failure_status'[q] = failure_status[q]
      BY <1>2, <1>3, <2>6, <3>1
    <3>. QED
      BY <1>5, <2>5, <2>14, <3>1, <3>2, CollectKept
  <2>18. NoTimepointIsStranded'
    <3>1. SUFFICES ASSUME NEW q \in Semaphores, NEW p \in timepoints'[q], NEW v, v = tp'[p].min,
                          Failed(q)' \/ timeline_value'[q] >= v
                   PROVE  WillCollect(q, v)'
      BY StrandPrimed, Zenon
    <3>2. p \in timepoints[q] /\ v = tp[p].min
      BY <1>1, <3>1
    <3>3. q # s => Failed(q) \/ timeline_value[q] >= v
      BY <1>1, <2>6, <3>1 DEF Failed
    <3>. QED
      BY <1>0, <2>16, <2>17, <3>2, <3>3 DEF NoTimepointIsStranded
  <2>19. InsertInv'
    <3>1. SUFFICES ASSUME NEW u \in Threads, NEW i \in 1..Len(stack'[u]), NEW f, NEW v, f = stack'[u][i],
                          f.pc = "acquire_insert", ~Failed(f.sem)', v = tp'[f.tp].min,
                          timeline_value'[f.sem] >= v
                   PROVE  WillCollect(f.sem, v)'
      BY InsertPrimed, Zenon
    <3>2. i \in 1..Len(stack[u]) /\ f = stack[u][i]
      <4>1. u = t => i > 1
        BY <1>5, <2>5, <2>11, <3>1, LenProperties DEF Shape
      <4>. QED
        BY <1>5, <2>5, <3>1, <4>1, LenProperties DEF Shape
    <3>3. f \in FrameSet /\ FrameOK(u, f)
      BY <1>0, <1>5, <3>2, ElementOfSeq DEF FrameInv
    <3>4. f.sem \in Semaphores /\ ~Failed(f.sem) /\ f.sem # s
      BY <1>5, <2>6, <2>8, <3>1, <3>3 DEF FrameOK, CallPcs, AcquirePcs, Failed
    <3>5. WillCollect(f.sem, v)
      BY <1>0, <1>1, <3>1, <3>2, <3>4 DEF InsertInv
    <3>. QED
      BY <2>17, <3>4, <3>5
  <2>. QED
    BY <2>7, <2>9, <2>15, <2>18, <2>19 DEF Inv
<1>. QED
  BY <1>6, <1>7

----------------------------------------------------------------------------
(* The calls.                                                              *)

LEMMA CallArguments ==
  ASSUME NEW c \in Calls
  PROVE  /\ c.op \in {"signal", "untainted", "publish", "taint", "merge_frontier"} =>
              c.sem \in Semaphores /\ c.value \in Nat /\ c.frontier \in [Axes -> Nat]
         /\ c.op = "fail" => c.sem \in Semaphores /\ c.status \in Failures
         /\ c.op = "release" => c.sem \in Semaphores
         /\ c.op \in {"acquire", "resolve", "link"} =>
              /\ c.tp \in Timepoints /\ c.sem \in Semaphores /\ c.value \in Nat
              /\ c.targetValue \in Nat /\ c.target \in Semaphores \cup {None}
              /\ c.op = "link" => c.target \in Semaphores
         /\ c.op = "cancel" => c.tp \in Timepoints
BY DEF Calls

LEMMA CallSignalKeeps ==
  ASSUME Inv, NEW t \in Threads, stack[t] = <<>>, todo[t] # <<>>, NEW c \in Calls,
         CallSignal(t, c) \/ CallFail(t, c) \/ CallTaint(t, c) \/ CallCancel(t, c)
  PROVE  Inv'
<1>1. CASE CallSignal(t, c)
  <2>1. /\ c.op \in {"signal", "untainted", "publish"} /\ Unmoved
        /\ Begin(t, SignalFrame(c.op, c.sem, c.value, c.frontier))
    BY <1>1 DEF CallSignal, Unmoved, semVars
  <2>2. PICK g : g = SignalFrame(c.op, c.sem, c.value, c.frontier)
    OBVIOUS
  <2>3. g \in FrameSet /\ g.pc \in {"cas", "check"} /\ g.sem \in Semaphores /\ g.list = {}
    BY <2>1, <2>2, CallArguments, NewSignalFrame
  <2>4. FrameOK(t, g) /\ Claim(g) = {} /\ g.pc # "acquire_insert"
    BY <2>3, PlainFrame DEF AcquirePcs
  <2>. QED
    BY <2>1, <2>2, <2>3, <2>4, QuietBegin
<1>2. CASE CallFail(t, c)
  <2>1. /\ c.op = "fail" /\ Unmoved /\ Begin(t, FailFrame(c.sem, c.status))
    BY <1>2 DEF CallFail, Unmoved, semVars
  <2>2. PICK g : g = FailFrame(c.sem, c.status)
    OBVIOUS
  <2>20. c.sem \in Semaphores /\ c.status \in Statuses /\ c.status # "ok"
    BY <2>1, CallArguments, SemaphoreAssumption DEF Statuses, AllFailures
  <2>3. g \in FrameSet /\ g.pc = "fail" /\ g.sem \in Semaphores /\ g.list = {} /\ g.status # "ok"
    BY <2>2, <2>20, NewFailFrame
  <2>4. FrameOK(t, g) /\ Claim(g) = {} /\ g.pc # "acquire_insert"
    BY <2>3, PlainFrame DEF AcquirePcs
  <2>. QED
    BY <2>1, <2>2, <2>3, <2>4, QuietBegin
<1>3. CASE CallTaint(t, c)
  <2>1. /\ c.op \in {"taint", "merge_frontier"} /\ Unmoved
        /\ Begin(t, [Frame(c.op, c.sem) EXCEPT !.value = c.value, !.frontier = c.frontier])
    BY <1>3 DEF CallTaint, Unmoved, semVars
  <2>2. PICK h : h = Frame(c.op, c.sem)
    OBVIOUS
  <2>3. c.op \in CallPcs \cup WaitPcs /\ c.sem \in Semaphores \cup {None} /\ c.sem \in Semaphores
    BY <2>1, CallArguments DEF CallPcs
  <2>4. h \in FrameSet /\ h.pc = c.op /\ h.sem = c.sem /\ h.list = {}
    BY <2>2, <2>3, NewFrame
  <2>5. PICK g : g = [h EXCEPT !.value = c.value, !.frontier = c.frontier]
    OBVIOUS
  <2>6. g \in FrameSet /\ g.pc = c.op /\ g.sem = c.sem /\ g.list = {}
    BY <2>1, <2>4, <2>5, CallArguments DEF FrameSet
  <2>7. FrameOK(t, g) /\ Claim(g) = {} /\ g.pc # "acquire_insert"
    BY <2>1, <2>3, <2>6, PlainFrame DEF AcquirePcs
  <2>. QED
    BY <2>1, <2>2, <2>5, <2>6, <2>7, QuietBegin
<1>4. CASE CallCancel(t, c)
  <2>1. /\ c.op = "cancel" /\ Unmoved /\ tp[c.tp].state # "idle"
        /\ Begin(t, [Frame("cancel", tp[c.tp].sem) EXCEPT !.tp = c.tp])
    BY <1>4 DEF CallCancel, Unmoved, semVars
  <2>2. c.tp \in Timepoints /\ tp[c.tp].sem \in Semaphores
    BY <2>1, CallArguments DEF Inv, HeapInv, TimepointOK
  <2>20. PICK s \in Semaphores \cup {None} : s = tp[c.tp].sem
    BY <2>2
  <2>3. PICK h : h = Frame("cancel", s)
    OBVIOUS
  <2>4. "cancel" \in CallPcs \cup WaitPcs
    BY DEF CallPcs
  <2>50. h \in FrameSet /\ h.pc = "cancel" /\ h.sem = s /\ h.list = {}
    BY <2>3, <2>4, NewFrame
  <2>5. h \in FrameSet /\ h.pc = "cancel" /\ h.sem \in Semaphores /\ h.list = {}
    BY <2>2, <2>20, <2>50
  <2>6. PICK g : g = [h EXCEPT !.tp = c.tp]
    OBVIOUS
  <2>7. g \in FrameSet /\ g.pc = "cancel" /\ g.sem \in Semaphores /\ g.list = {} /\ g.tp = c.tp
    BY <2>2, <2>5, <2>6 DEF FrameSet
  <2>8. FrameOK(t, g) /\ Claim(g) = {} /\ g.pc # "acquire_insert"
    BY <2>1, <2>2, <2>7 DEF FrameOK, Claim, AcquirePcs
  <2>. QED
    BY <2>1, <2>20, <2>3, <2>6, <2>7, <2>8, QuietBegin
<1>. QED
  BY <1>1, <1>2, <1>3, <1>4

LEMMA TodoShrinks ==
  ASSUME Typed, NEW t \in Threads, todo[t] # <<>>, NEW f, Begin(t, f)
  PROVE  todo' \in [Threads -> Seq(Calls)]
<1>1. Tail(todo[t]) \in Seq(Calls)
  BY HeadTailProperties DEF Typed
<1>. QED
  BY <1>1 DEF Begin, Typed

\* The last reference goes: the semaphore will be flushed with CANCELLED.
LEMMA CallReleaseKeeps ==
  ASSUME Inv, NEW t \in Threads, stack[t] = <<>>, todo[t] # <<>>, NEW c \in Calls,
         CallRelease(t, c)
  PROVE  Inv'
<1>0. Typed /\ HeapInv /\ FrameInv /\ ClaimInv
  BY DEF Inv
<1>1. /\ c.op = "release" /\ alive' = [alive EXCEPT ![c.sem] = FALSE] /\ Begin(t, Frame("deinit", c.sem))
      /\ UNCHANGED <<timeline_value, failure_status, timepoints, mutex, tp>>
  BY DEF CallRelease
<1>2. PICK s \in Semaphores : s = c.sem
  BY <1>1, CallArguments
<1>3. /\ timepoints \in [Semaphores -> SUBSET Timepoints] /\ tp \in [Timepoints -> TimepointSet]
      /\ stack \in [Threads -> Seq(FrameSet)] /\ timeline_value \in [Semaphores -> Nat]
      /\ alive \in [Semaphores -> BOOLEAN]
  BY <1>0 DEF Typed
<1>4. PICK g : g = Frame("deinit", s)
  OBVIOUS
<1>5. "deinit" \in CallPcs \cup WaitPcs /\ s \in Semaphores \cup {None}
  BY DEF CallPcs
<1>6. g \in FrameSet /\ g.pc = "deinit" /\ g.sem = s /\ g.list = {}
  BY <1>4, <1>5, NewFrame
<1>7. Shape(t, 1, 0) /\ stack'[t][1] = g
  BY <1>1, <1>2, <1>3, <1>4, <1>6, BeginShape
<1>8. alive' \in [Semaphores -> BOOLEAN] /\ ~alive'[s] /\ \A q \in Semaphores : ~alive[q] => ~alive'[q]
  BY <1>1, <1>2, <1>3
<1>9. todo' \in [Threads -> Seq(Calls)]
  BY <1>0, <1>1, TodoShrinks
<1>10. Typed' /\ HeapInv'
  BY <1>0, <1>1, <1>7, <1>8, <1>9 DEF Typed, Shape, HeapInv, TimepointOK, Failed
<1>11. Benign(t) /\ Touches(t, {})
  BY <1>1, <1>3, <1>8 DEF Benign, Touches
<1>12. FrameOK(t, g)' /\ Claim(g) = {}
  BY <1>6, <1>8 DEF FrameOK, AcquirePcs, CallPcs, Claim
<1>13. /\ \A i \in 1..1 : \A f : f = stack'[t][i] => FrameOK(t, f)'
       /\ \A i \in 1..1 : i > 1 => stack'[t][i].pc \in {"dispatch", "registered"}
       /\ \A i \in 1..1 : stack'[t][i].pc = "acquire_insert" =>
            ~(timeline_value'[stack'[t][i].sem] >= tp'[stack'[t][i].tp].min)
  BY <1>6, <1>7, <1>12
<1>14. /\ \A i \in 1..1 : \A p \in Timepoints : p \in Claim(stack'[t][i]) =>
            \A u \in Threads : \A j \in 1..Len(stack[u]) :
              p \in Claim(stack[u][j]) => u = t /\ j = 1
       /\ \A i, j \in 1..1 : \A p \in Timepoints :
            p \in Claim(stack'[t][i]) /\ p \in Claim(stack'[t][j]) => i = j
  BY <1>7, <1>12
<1>15. 1 \in 0..2 /\ 0 \in Int
  OBVIOUS
<1>16. /\ \A q \in Semaphores : timepoints'[q] \subseteq timepoints[q]
       /\ \A q \in Semaphores : \A p \in timepoints'[q] : tp'[p].min = tp[p].min
  BY <1>1
<1>17. \A q \in Semaphores : \A v \in Nat :
           /\ stack[t] # <<>> /\ Collects(stack[t][1], q, v)
           /\ mutex[q] # None \/ \E r \in timepoints'[q] : tp[r].min = v
           => \E i \in 1..1 : Collects(stack'[t][i], q, v)
  OBVIOUS
<1>. QED
  BY <1>1, <1>7, <1>10, <1>11, <1>13, <1>14, <1>15, <1>16, <1>17, LoudStep

\* A thread starts to register a timepoint nobody answers for.  A link calls
\* back link_callback, an operand of a multi-wait its own callback.
Registers(p, s, r) ==
  /\ tp[p].state \in Ended /\ tp' = [tp EXCEPT ![p] = r]
  /\ r \in TimepointSet /\ r.state = "acquiring" /\ r.sem = s
  /\ r.late <=> Failed(s)
  /\ r.callback = "link" => r.target \in Semaphores
  /\ UNCHANGED <<timeline_value, failure_status, timepoints, alive, mutex>>

RegisterFrame(g, s, p) ==
  /\ g \in FrameSet /\ g.pc \in {"resolve_failure", "acquire_failure"}
  /\ g.sem = s /\ g.tp = p /\ g.list = {}

\* Below it is the multi-wait that registers its operand, if any.
RegisterStack(t, k, d, g) ==
  /\ k \in 1..2 /\ d \in Int /\ Shape(t, k, d) /\ stack'[t][1] = g
  /\ k = 2 => \A f : f = stack'[t][2] => f \in FrameSet /\ f.pc = "registered" /\ f.list = {}
  /\ stack[t] # <<>> => \A q, v : ~Collects(stack[t][1], q, v)

LEMMA RegisterStep ==
  ASSUME Inv, NEW t \in Threads, NEW p \in Timepoints, NEW s \in Semaphores, NEW r,
         Registers(p, s, r), todo' \in [Threads -> Seq(Calls)],
         NEW g, RegisterFrame(g, s, p), NEW k, NEW d, RegisterStack(t, k, d, g)
  PROVE  Inv'
<1>0. Typed /\ HeapInv /\ FrameInv /\ ClaimInv
  BY DEF Inv
<1>. USE DEF Registers, RegisterFrame, RegisterStack
<1>1. /\ timepoints \in [Semaphores -> SUBSET Timepoints] /\ tp \in [Timepoints -> TimepointSet]
      /\ stack \in [Threads -> Seq(FrameSet)] /\ timeline_value \in [Semaphores -> Nat]
  BY <1>0 DEF Typed
<1>2. /\ tp' \in [Timepoints -> TimepointSet] /\ tp'[p] = r
      /\ \A q \in Timepoints : q # p => tp'[q] = tp[q]
  BY <1>1
<1>3. Typed'
  BY <1>0, <1>2 DEF Typed, Shape
<1>4. HeapInv'
  <2>1. SUFFICES ASSUME NEW q \in Timepoints PROVE TimepointOK(q)'
    BY DEF HeapInv
  <2>2. TimepointOK(q)
    BY <1>0 DEF HeapInv
  <2>3. CASE q = p
    BY <1>2, <2>2, <2>3 DEF TimepointOK, Failed, Ended
  <2>4. CASE q # p
    BY <1>2, <2>2, <2>4 DEF TimepointOK, Failed
  <2>. QED
    BY <2>3, <2>4
<1>5. Benign(t)
  BY <1>1 DEF Benign
<1>6. \A u \in Threads : \A i \in 1..Len(stack[u]) : p \notin Claim(stack[u][i])
  BY <1>0, ClaimedState DEF Ended
<1>7. Touches(t, {p})
  BY <1>2, <1>6 DEF Touches
<1>8. FrameOK(t, g)' /\ Claim(g) = {p} /\ g.pc # "acquire_insert"
  BY <1>2 DEF FrameOK, AcquirePcs, CallPcs, Claim
<1>9. \A i \in 1..k : (i = 1) \/ (i = 2 /\ k = 2)
  OBVIOUS
<1>10. \A f : k = 2 /\ f = stack'[t][2] => FrameOK(t, f)' /\ Claim(f) = {} /\ f.pc = "registered"
  BY DEF FrameOK, Claim, AcquirePcs, CallPcs, SignalPcs
<1>11. /\ \A i \in 1..k : \A f : f = stack'[t][i] => FrameOK(t, f)'
       /\ \A i \in 1..k : i > 1 => stack'[t][i].pc \in {"dispatch", "registered"}
       /\ \A i \in 1..k : stack'[t][i].pc = "acquire_insert" =>
            ~(timeline_value'[stack'[t][i].sem] >= tp'[stack'[t][i].tp].min)
  BY <1>8, <1>9, <1>10
<1>12. \A i \in 1..k : \A q \in Timepoints : q \in Claim(stack'[t][i]) => i = 1 /\ q = p
  BY <1>8, <1>9, <1>10
<1>13. /\ \A i \in 1..k : \A q \in Timepoints : q \in Claim(stack'[t][i]) =>
            \A u \in Threads : \A j \in 1..Len(stack[u]) :
              q \in Claim(stack[u][j]) => u = t /\ j = 1
       /\ \A i, j \in 1..k : \A q \in Timepoints :
            q \in Claim(stack'[t][i]) /\ q \in Claim(stack'[t][j]) => i = j
  BY <1>6, <1>12
<1>14. k \in 0..2
  OBVIOUS
<1>15. /\ \A q \in Semaphores : timepoints'[q] \subseteq timepoints[q]
       /\ \A q \in Semaphores : \A x \in timepoints'[q] : tp'[x].min = tp[x].min
  <2>1. \A q \in Semaphores : p \notin timepoints[q]
    BY <1>0 DEF HeapInv, TimepointOK, Ended
  <2>. QED
    BY <1>1, <1>2, <2>1
<1>. QED
  BY <1>3, <1>4, <1>5, <1>7, <1>11, <1>13, <1>14, <1>15, LoudStep

LEMMA CallAcquireRegisters ==
  ASSUME Inv, NEW t \in Threads, NEW c \in Calls, CallAcquire(t, c)
  PROVE  \E p \in Timepoints, s \in Semaphores : \E r, g :
           Registers(p, s, r) /\ alive[s] /\ RegisterFrame(g, s, p) /\ Begin(t, g)
<1>1. /\ c.op \in {"acquire", "resolve", "link"} /\ alive[c.sem] /\ tp[c.tp].state \in Ended
      /\ tp' = [tp EXCEPT ![c.tp] =
                  [Acquiring(c.sem, c.value) EXCEPT
                     !.callback = IF c.op = "link" THEN "link" ELSE "user",
                     !.target = c.target, !.targetValue = c.targetValue]]
      /\ Begin(t, [Frame(IF c.op = "resolve" THEN "resolve_failure" ELSE "acquire_failure", c.sem)
                     EXCEPT !.tp = c.tp])
      /\ UNCHANGED <<timeline_value, failure_status, timepoints, alive, mutex>>
  BY DEF CallAcquire, semVars
<1>2. /\ c.tp \in Timepoints /\ c.sem \in Semaphores /\ c.value \in Nat
      /\ c.targetValue \in Nat /\ c.target \in Semaphores \cup {None}
      /\ c.op = "link" => c.target \in Semaphores
  BY <1>1, CallArguments
<1>3. PICK cb \in {"user", "link"} : cb = IF c.op = "link" THEN "link" ELSE "user"
  OBVIOUS
<1>40. PICK q0 : q0 = IdleTimepoint
  OBVIOUS
<1>41. q0 \in TimepointSet
  BY <1>40 DEF IdleTimepoint, TimepointSet, TimepointStates, Ended, Statuses
<1>42. PICK q : q = Acquiring(c.sem, c.value)
  OBVIOUS
<1>43. q = [q0 EXCEPT !.state = "acquiring", !.sem = c.sem, !.min = c.value, !.late = Failed(c.sem)]
  BY <1>40, <1>42 DEF Acquiring
<1>44. /\ q \in TimepointSet /\ q.state = "acquiring" /\ q.sem = c.sem
       /\ q.late <=> Failed(c.sem)
  BY <1>2, <1>41, <1>43 DEF TimepointSet, TimepointStates, Failed
<1>4. PICK r : r = [q EXCEPT !.callback = cb, !.target = c.target, !.targetValue = c.targetValue]
  OBVIOUS
<1>5. cb \in {"user", "link", "wait"} /\ (cb = "link" => c.target \in Semaphores)
  BY <1>2, <1>3
<1>6. /\ r \in TimepointSet /\ r.state = "acquiring" /\ r.sem = c.sem /\ r.late = q.late
      /\ r.callback = cb /\ r.target = c.target
  BY <1>2, <1>4, <1>5, <1>44 DEF TimepointSet
<1>7. tp' = [tp EXCEPT ![c.tp] = r]
  BY <1>1, <1>3, <1>4, <1>42
<1>8. PICK pc \in {"resolve_failure", "acquire_failure"} :
        pc = IF c.op = "resolve" THEN "resolve_failure" ELSE "acquire_failure"
  OBVIOUS
<1>9. PICK h : h = Frame(pc, c.sem)
  OBVIOUS
<1>10. pc \in CallPcs \cup WaitPcs /\ c.sem \in Semaphores \cup {None}
  BY <1>2 DEF CallPcs, AcquirePcs
<1>11. h \in FrameSet /\ h.pc = pc /\ h.sem = c.sem /\ h.list = {}
  BY <1>9, <1>10, NewFrame
<1>12. PICK g : g = [h EXCEPT !.tp = c.tp]
  OBVIOUS
<1>13. g \in FrameSet /\ g.pc = pc /\ g.sem = c.sem /\ g.list = {} /\ g.tp = c.tp
  BY <1>2, <1>11, <1>12 DEF FrameSet
<1>14. Begin(t, g)
  BY <1>1, <1>8, <1>9, <1>12
<1>20. PICK p \in Timepoints, s \in Semaphores : p = c.tp /\ s = c.sem
  BY <1>2
<1>21. Registers(p, s, r) /\ alive[s]
  BY <1>1, <1>5, <1>6, <1>7, <1>20, <1>44 DEF Registers
<1>22. RegisterFrame(g, s, p)
  BY <1>13, <1>20 DEF RegisterFrame
<1>. QED
  BY <1>14, <1>21, <1>22

LEMMA CallAcquireKeeps ==
  ASSUME Inv, NEW t \in Threads, stack[t] = <<>>, todo[t] # <<>>, NEW c \in Calls,
         CallAcquire(t, c)
  PROVE  Inv'
<1>0. PICK p \in Timepoints, s \in Semaphores : \E r, g :
         Registers(p, s, r) /\ alive[s] /\ RegisterFrame(g, s, p) /\ Begin(t, g)
  BY CallAcquireRegisters
<1>1. PICK r, g : Registers(p, s, r) /\ alive[s] /\ RegisterFrame(g, s, p) /\ Begin(t, g)
  BY <1>0
<1>2. g \in FrameSet /\ Typed /\ stack \in [Threads -> Seq(FrameSet)]
  BY <1>1 DEF RegisterFrame, Inv, Typed
<1>3. Shape(t, 1, 0) /\ stack'[t][1] = g
  BY <1>1, <1>2, BeginShape
<1>4. todo' \in [Threads -> Seq(Calls)]
  BY <1>1, <1>2, TodoShrinks
<1>5. RegisterStack(t, 1, 0, g)
  BY <1>3 DEF RegisterStack
<1>. QED
  BY <1>1, <1>4, <1>5, RegisterStep

LEMMA CallKeeps ==
  ASSUME Inv, NEW t \in Threads, Call(t) PROVE Inv'
<1>1. stack[t] = <<>> /\ todo[t] # <<>>
  BY DEF Call
<1>2. PICK c : c = Head(todo[t])
  OBVIOUS
<1>3. c \in Calls
  BY <1>1, <1>2, HeadTailProperties DEF Inv, Typed
<1>4. \/ CallSignal(t, c) \/ CallFail(t, c) \/ CallTaint(t, c) \/ CallRelease(t, c)
      \/ CallAcquire(t, c) \/ CallCancel(t, c)
  BY <1>2 DEF Call
<1>. QED
  BY <1>1, <1>3, <1>4, CallSignalKeeps, CallReleaseKeeps, CallAcquireKeeps

LEMMA StepKeeps ==
  ASSUME Inv, NEW t \in Threads, Step(t) PROVE Inv'
BY SignalCheckKeeps, SignalCasKeeps, SignalPastKeeps, SignalMergeKeeps, CollectKeeps,
   FailCasKeeps,
   DetachAllKeeps, DispatchKeeps, PlainReturnKeeps, AcquireChecksKeep, ResolveAllocateKeeps,
   AcquireLockKeeps, AcquireAnsweredKeeps, AcquireInsertKeeps, CancelKeeps DEF Step

LEMMA InitInv == Init => Inv
<1>1. SUFFICES ASSUME Init PROVE Inv
  OBVIOUS
<1>2. /\ stack = [t \in Threads |-> <<>>] /\ \A t \in Threads : Len(stack[t]) = 0
      /\ \A t \in Threads : \A i \in 1..Len(stack[t]) : FALSE
  BY <1>1 DEF Init
<1>3. IdleTimepoint \in TimepointSet /\ IdleTimepoint.state = "idle" /\ IdleTimepoint.callback = "user"
  BY DEF IdleTimepoint, TimepointSet, TimepointStates, Ended, Statuses
<1>4. todo \in [Threads -> Seq(Calls)]
  BY <1>1, SemaphoreAssumption DEF Init
<1>5. stack \in [Threads -> Seq(FrameSet)]
  BY <1>2
<1>6. Typed
  BY <1>1, <1>3, <1>4, <1>5 DEF Init, Typed, Statuses
<1>7. HeapInv
  BY <1>1, <1>3 DEF Init, HeapInv, TimepointOK
<1>8. FrameInv /\ ClaimInv /\ InsertInv
  BY <1>2 DEF FrameInv, ClaimInv, InsertInv
<1>9. NoTimepointIsStranded
  BY <1>1 DEF Init, NoTimepointIsStranded
<1>. QED
  BY <1>6, <1>7, <1>8, <1>9 DEF Inv

LEMMA StutterInv == Inv /\ UNCHANGED vars => Inv'
BY DEF Inv, vars, Typed, HeapInv, TimepointOK, FrameInv, FrameOK, Reason, ClaimInv,
   NoTimepointIsStranded, InsertInv, WillCollect, Failed

----------------------------------------------------------------------------
(* Every step is one that semaphore.h allows.                              *)

WaitingStates == {"acquiring", "pending", "detached"}

\* The record of a timepoint says what its owner was promised.
LEMMA PromiseOf ==
  ASSUME NEW p
  PROVE  /\ tp[p].state \in WaitingStates => Promise(p) =
              [state |-> "waiting", sem |-> tp[p].sem, min |-> tp[p].min, late |-> tp[p].late]
         /\ tp[p].state = "answered" => Promise(p) = [state |-> "answered", status |-> tp[p].status]
         /\ tp[p].state \in {"idle", "withdrawn"} => Promise(p) = [state |-> "idle"]
BY DEF Promise, WaitingStates

LEMMA PromiseOfPrimed ==
  ASSUME NEW p
  PROVE  /\ tp'[p].state \in WaitingStates => Promise(p)' =
              [state |-> "waiting", sem |-> tp'[p].sem, min |-> tp'[p].min, late |-> tp'[p].late]
         /\ tp'[p].state = "answered" => Promise(p)' = [state |-> "answered", status |-> tp'[p].status]
         /\ tp'[p].state \in {"idle", "withdrawn"} => Promise(p)' = [state |-> "idle"]
BY DEF Promise, WaitingStates

\* Nothing a client can see changes.
Invisible ==
  /\ UNCHANGED <<timeline_value, failure_status, alive>>
  /\ \A p \in Timepoints :
       \/ tp'[p] = tp[p]
       \/ /\ tp[p].state \in WaitingStates /\ tp'[p].state \in WaitingStates
          /\ tp'[p].sem = tp[p].sem /\ tp'[p].min = tp[p].min /\ tp'[p].late = tp[p].late

LEMMA InvisibleStutters ==
  ASSUME Invisible PROVE UNCHANGED Timeline!vars
<1>1. \A p \in Timepoints : Promise(p)' = Promise(p)
  <2>1. SUFFICES ASSUME NEW p \in Timepoints PROVE Promise(p)' = Promise(p)
    OBVIOUS
  <2>2. CASE tp'[p] = tp[p]
    BY <2>2 DEF Promise
  <2>3. CASE /\ tp[p].state \in WaitingStates /\ tp'[p].state \in WaitingStates
             /\ tp'[p].sem = tp[p].sem /\ tp'[p].min = tp[p].min /\ tp'[p].late = tp[p].late
    BY <2>3, PromiseOf, PromiseOfPrimed
  <2>. QED
    BY <2>2, <2>3 DEF Invisible
<1>2. UNCHANGED <<timeline_value, failure_status, alive>>
  BY DEF Invisible
<1>. QED
  BY <1>1, <1>2 DEF Timeline!vars

\* The promise of one timepoint changes.
LEMMA PromiseChanges ==
  ASSUME NEW p \in Timepoints, \A r \in Timepoints : r # p => tp'[r] = tp[r], NEW x, x = Promise(p)'
  PROVE  [r \in Timepoints |-> Promise(r)]' = [[r \in Timepoints |-> Promise(r)] EXCEPT ![p] = x]
<1>1. \A r \in Timepoints : r # p => Promise(r)' = Promise(r)
  BY DEF Promise
<1>. QED
  BY <1>1

LEMMA WithdrawImplements ==
  ASSUME UNCHANGED <<timeline_value, failure_status, alive>>, NEW p \in Timepoints,
         \A r \in Timepoints : r # p => tp'[r] = tp[r],
         tp[p].state \in WaitingStates, tp'[p].state = "withdrawn"
  PROVE  Timeline!Next
<1>1. PICK x : x = Promise(p)'
  OBVIOUS
<1>2. x = [state |-> "idle"]
  BY <1>1, PromiseOfPrimed
<1>3. [r \in Timepoints |-> Promise(r)]' = [[r \in Timepoints |-> Promise(r)] EXCEPT ![p] = x]
  BY <1>1, PromiseChanges
<1>4. [r \in Timepoints |-> Promise(r)][p].state = "waiting"
  BY PromiseOf
<1>5. Timeline!Withdraw(p)
  BY <1>2, <1>3, <1>4 DEF Timeline!Withdraw, Timeline!Idle
<1>. QED
  BY <1>5 DEF Timeline!Next

LEMMA AnswerImplements ==
  ASSUME UNCHANGED <<timeline_value, failure_status, alive>>, NEW p \in Timepoints,
         \A r \in Timepoints : r # p => tp'[r] = tp[r],
         tp[p].state \in WaitingStates, tp[p].sem \in Semaphores,
         NEW status \in Statuses, Reason(p, status),
         tp'[p].state = "answered", tp'[p].status = status
  PROVE  Timeline!Next
<1>1. PICK x : x = Promise(p)'
  OBVIOUS
<1>2. x = [state |-> "answered", status |-> status]
  BY <1>1, PromiseOfPrimed
<1>3. [r \in Timepoints |-> Promise(r)]' = [[r \in Timepoints |-> Promise(r)] EXCEPT ![p] = x]
  BY <1>1, PromiseChanges
<1>4. PICK y : y = [r \in Timepoints |-> Promise(r)][p]
  OBVIOUS
<1>5. y = [state |-> "waiting", sem |-> tp[p].sem, min |-> tp[p].min, late |-> tp[p].late]
  BY <1>4, PromiseOf
<1>6. /\ y.state = "waiting" /\ y.sem = tp[p].sem /\ y.min = tp[p].min /\ y.late = tp[p].late
  BY <1>5
<1>7. status \in Timeline!Reasons(y)
  BY <1>6 DEF Timeline!Reasons, Reason, Statuses
<1>8. Timeline!Answer(p)
  BY <1>2, <1>3, <1>4, <1>6, <1>7 DEF Timeline!Answer, Timeline!Answered
<1>. QED
  BY <1>8 DEF Timeline!Next

LEMMA RegisterImplements ==
  ASSUME NEW p \in Timepoints, NEW s \in Semaphores, NEW r, Registers(p, s, r), alive[s],
         tp \in [Timepoints -> TimepointSet]
  PROVE  Timeline!Next
<1>0. /\ tp'[p] = r /\ \A q \in Timepoints : q # p => tp'[q] = tp[q]
      /\ r.state = "acquiring" /\ r.sem = s /\ tp[p].state \in Ended
      /\ r.late <=> Failed(s)
      /\ UNCHANGED <<timeline_value, failure_status, alive>> /\ r.late \in BOOLEAN
  BY DEF Registers, TimepointSet
<1>1. PICK x : x = Promise(p)'
  OBVIOUS
<1>2. x = [state |-> "waiting", sem |-> s, min |-> r.min, late |-> r.late]
  BY <1>0, <1>1, PromiseOfPrimed DEF WaitingStates
<1>3. [q \in Timepoints |-> Promise(q)]' = [[q \in Timepoints |-> Promise(q)] EXCEPT ![p] = x]
  BY <1>0, <1>1, PromiseChanges
<1>4. [q \in Timepoints |-> Promise(q)][p].state # "waiting"
  BY <1>0, PromiseOf DEF Ended
<1>5. [q \in Timepoints |-> Promise(q)]'[p] = x
  BY <1>1
<1>6. x.state = "waiting" /\ x.sem = s /\ x.min = r.min /\ x.late = r.late
  BY <1>2
<1>7. x = Timeline!Waiting(x.sem, x.min, failure_status[x.sem] # "ok")
  BY <1>0, <1>2, <1>6 DEF Timeline!Waiting, Failed
<1>8. x.sem \notin {q \in Semaphores : ~alive[q]}
  BY <1>6
<1>9. Timeline!Register(p)
  BY <1>0, <1>3, <1>4, <1>5, <1>6, <1>7, <1>8 DEF Timeline!Register
<1>. QED
  BY <1>9 DEF Timeline!Next

\* Moving timepoints to a dispatch list is invisible.
LEMMA DetachIsInvisible ==
  ASSUME tp \in [Timepoints -> TimepointSet], NEW list \in SUBSET Timepoints, Detach(list),
         \A p \in list : tp[p].state \in WaitingStates,
         UNCHANGED <<timeline_value, failure_status, alive>>
  PROVE  Invisible
<1>1. \A p \in Timepoints :
        /\ tp'[p].sem = tp[p].sem /\ tp'[p].min = tp[p].min
        /\ tp'[p].late <=> tp[p].late
        /\ p \in list => tp'[p].state = "detached"
        /\ p \notin list => tp'[p] = tp[p]
  BY DetachFacts
<1>2. tp' \in [Timepoints -> TimepointSet]
  BY DetachFacts
<1>3. \A p \in Timepoints : tp'[p].late = tp[p].late
  BY <1>1, <1>2 DEF TimepointSet
<1>. QED
  BY <1>1, <1>3 DEF Invisible, WaitingStates

\* So is answering on the spot: the callback is still to come.
LEMMA AnswerNowIsInvisible ==
  ASSUME Inv, NEW t \in Threads, stack[t] # <<>>, Top(t).pc \in AcquirePcs, NEW status, AnswerNow(t, status),
         UNCHANGED <<timeline_value, failure_status, alive>>
  PROVE  Invisible
<1>1. FrameOK(t, Top(t))
  BY TopFacts DEF Inv
<1>2. PICK p \in Timepoints : p = Top(t).tp /\ tp[p].state = "acquiring"
  BY <1>1 DEF FrameOK
<1>3. Detach({p}) /\ {p} \in SUBSET Timepoints /\ \A q \in {p} : tp[q].state \in WaitingStates
  BY <1>2 DEF AnswerNow, WaitingStates
<1>4. tp \in [Timepoints -> TimepointSet]
  BY DEF Inv, Typed
<1>. QED
  BY <1>3, <1>4, DetachIsInvisible

LEMMA RefuseImplements ==
  ASSUME Inv, NEW t \in Threads, stack[t] # <<>>, Top(t).pc \in AcquirePcs, Refuse(t),
         UNCHANGED <<timeline_value, failure_status, alive>>
  PROVE  Timeline!Next
<1>1. FrameOK(t, Top(t))
  BY TopFacts DEF Inv
<1>2. PICK p \in Timepoints : p = Top(t).tp /\ tp[p].state = "acquiring"
  BY <1>1 DEF FrameOK
<1>3. tp \in [Timepoints -> TimepointSet] /\ "withdrawn" \in TimepointStates
  BY DEF Inv, Typed, TimepointStates, Ended
<1>4. tp'[p].state = "withdrawn" /\ \A r \in Timepoints : r # p => tp'[r] = tp[r]
  BY <1>2, <1>3, MoveFacts DEF Refuse
<1>5. tp[p].state \in WaitingStates
  BY <1>2 DEF WaitingStates
<1>. QED
  BY <1>4, <1>5, WithdrawImplements

\* A cancellation takes a pending timepoint back, or does nothing.
LEMMA CancelImplements ==
  ASSUME Inv, NEW p \in Timepoints, CancelTimepoint(p)
  PROVE  Timeline!Next \/ UNCHANGED Timeline!vars
<1>1. /\ tp' = [tp EXCEPT ![p].state = IF tp[p].state = "pending" THEN "withdrawn" ELSE @]
      /\ UNCHANGED <<timeline_value, failure_status, alive>>
  BY DEF CancelTimepoint, Cancellable
<1>2. tp \in [Timepoints -> TimepointSet] /\ "withdrawn" \in TimepointStates
  BY DEF Inv, Typed, TimepointStates, Ended
<1>3. CASE tp[p].state = "pending"
  <2>1. tp'[p].state = "withdrawn" /\ \A r \in Timepoints : r # p => tp'[r] = tp[r]
    BY <1>1, <1>2, <1>3, MoveFacts
  <2>2. tp[p].state \in WaitingStates
    BY <1>3 DEF WaitingStates
  <2>. QED
    BY <1>1, <2>1, <2>2, WithdrawImplements
<1>4. CASE tp[p].state # "pending"
  <2>1. tp' = tp
    BY <1>1, <1>2, <1>4 DEF TimepointSet
  <2>. QED
    BY <1>1, <2>1, InvisibleStutters DEF Invisible
<1>. QED
  BY <1>3, <1>4

LEMMA StepImplements ==
  ASSUME Inv, NEW t \in Threads, Step(t)
  PROVE  Timeline!Next \/ UNCHANGED Timeline!vars
<1>0. /\ tp \in [Timepoints -> TimepointSet] /\ timepoints \in [Semaphores -> SUBSET Timepoints]
      /\ timeline_value \in [Semaphores -> Nat] /\ HeapInv /\ FrameInv /\ Typed
      /\ failure_status \in [Semaphores -> Statuses]
  BY DEF Inv, Typed
<1>1. CASE SignalCheck(t) \/ SignalPast(t) \/ SignalMerge(t) \/ SignalMark(t) \/ DispatchEnd(t)
           \/ MarkTainted(t) \/ MergeFrontier(t)
  <2>1. UNCHANGED <<timeline_value, failure_status, alive, tp>>
    BY <1>1 DEF SignalCheck, SignalPast, SignalMerge, SignalMark, DispatchEnd, MarkTainted,
       MergeFrontier, semVars
  <2>. QED
    BY <2>1, InvisibleStutters DEF Invisible
<1>2. CASE SignalCas(t)
  <2>1. /\ stack[t] # <<>> /\ Top(t).pc = "cas" /\ Top(t).value > timeline_value[Top(t).sem]
        /\ timeline_value' = [timeline_value EXCEPT ![Top(t).sem] = Top(t).value]
        /\ UNCHANGED <<failure_status, alive, tp>>
    BY <1>2 DEF SignalCas, At, Passes
  <2>2. PICK s \in Semaphores : s = Top(t).sem
    BY <1>0, <2>1, TopFacts DEF FrameOK, CallPcs, SignalPcs
  <2>3. timeline_value'[s] = Top(t).value
    BY <1>0, <2>1, <2>2
  <2>4. UNCHANGED [p \in Timepoints |-> Promise(p)]
    BY <2>1 DEF Promise
  <2>5. Timeline!Advance(s)
    BY <2>1, <2>2, <2>3, <2>4 DEF Timeline!Advance
  <2>. QED
    BY <2>5 DEF Timeline!Next
<1>3. CASE FailCas(t)
  <2>1. /\ stack[t] # <<>> /\ Top(t).pc = "fail" /\ UNCHANGED <<timeline_value, alive, tp>>
        /\ IF ~Failed(Top(t).sem)
           THEN failure_status' = [failure_status EXCEPT ![Top(t).sem] = Top(t).status]
           ELSE UNCHANGED failure_status
    BY <1>3 DEF FailCas, At, FailWins
  <2>2. Top(t) \in FrameSet /\ FrameOK(t, Top(t))
    BY <1>0, <2>1, TopFacts
  <2>3. PICK s \in Semaphores, status \in AllFailures : s = Top(t).sem /\ status = Top(t).status
    BY <2>1, <2>2 DEF FrameOK, FrameSet, CallPcs, Statuses
  <2>4. CASE ~Failed(s)
    <3>1. UNCHANGED [p \in Timepoints |-> Promise(p)]
      BY <2>1 DEF Promise
    <3>2. Timeline!Fail(s)
      BY <2>1, <2>3, <2>4, <3>1 DEF Timeline!Fail, Failed
    <3>. QED
      BY <3>2 DEF Timeline!Next
  <2>5. CASE Failed(s)
    BY <2>1, <2>3, <2>5, InvisibleStutters DEF Invisible
  <2>. QED
    BY <2>4, <2>5
<1>4. CASE Collect(t) \/ FailFlush(t) \/ Deinitialize(t)
  <2>1. stack[t] # <<>> /\ Top(t).pc \in {"collect", "flush", "deinit"}
    BY <1>4 DEF Collect, FailFlush, Deinitialize, At
  <2>2. PICK s \in Semaphores : s = Top(t).sem
    BY <1>0, <2>1, TopFacts DEF FrameOK, CallPcs, SignalPcs
  <2>3. /\ UNCHANGED <<timeline_value, failure_status, alive>>
        /\ \E list \in SUBSET timepoints[s] : Detach(list)
    BY <1>4, <2>2 DEF Collect, FailFlush, Deinitialize, DetachAll, Due
  <2>4. PICK list \in SUBSET timepoints[s] : Detach(list)
    BY <2>3
  <2>5. list \in SUBSET Timepoints /\ \A p \in list : tp[p].state \in WaitingStates
    BY <1>0 DEF HeapInv, TimepointOK, WaitingStates
  <2>. QED
    BY <1>0, <2>3, <2>4, <2>5, DetachIsInvisible, InvisibleStutters
<1>5. CASE Dispatch(t)
  <2>1. /\ stack[t] # <<>> /\ Top(t).pc = "dispatch" /\ UNCHANGED <<timeline_value, failure_status, alive>>
    BY <1>5 DEF Dispatch, At, semVars
  <2>2. Top(t) \in FrameSet /\ FrameOK(t, Top(t))
    BY <1>0, <2>1, TopFacts
  <2>3. PICK p \in Top(t).list : Answer(p, [Top(t) EXCEPT !.list = @ \ {p}].status)
    BY <1>5 DEF Dispatch
  <2>4. PICK status \in Statuses : status = Top(t).status
    BY <2>2 DEF FrameSet
  <2>5. Answer(p, status)
    BY <2>2, <2>3, <2>4 DEF FrameSet
  <2>6. /\ p \in Timepoints /\ tp[p].state \in WaitingStates /\ tp[p].sem \in Semaphores
        /\ Reason(p, status)
    BY <2>1, <2>2, <2>3, <2>4 DEF FrameOK, FrameSet, CallPcs, WaitingStates
  <2>7. /\ tp'[p].state = "answered" /\ tp'[p].status = status
        /\ \A r \in Timepoints : r # p => tp'[r] = tp[r]
    BY <1>0, <2>5, <2>6, AnswerFacts
  <2>. QED
    BY <2>1, <2>6, <2>7, AnswerImplements
<1>6. CASE AcquireFailure(t) \/ AcquireValue(t) \/ AcquireLock(t) \/ AcquireAnswered(t)
  <2>1. /\ stack[t] # <<>> /\ Top(t).pc \in AcquirePcs /\ UNCHANGED <<timeline_value, failure_status, alive>>
        /\ UNCHANGED tp \/ \E status : AnswerNow(t, status)
    BY <1>6
    DEF AcquireFailure, AcquireValue, AcquireLock, AcquireAnswered, At, AcquirePcs, semVars
  <2>. QED
    BY <2>1, AnswerNowIsInvisible, InvisibleStutters DEF Invisible
<1>7. CASE ResolveAllocate(t)
  <2>1. /\ stack[t] # <<>> /\ Top(t).pc \in AcquirePcs /\ UNCHANGED <<timeline_value, failure_status, alive>>
        /\ UNCHANGED tp \/ Refuse(t)
    BY <1>7 DEF ResolveAllocate, At, AcquirePcs, semVars
  <2>. QED
    BY <2>1, RefuseImplements, InvisibleStutters DEF Invisible
<1>8. CASE AcquireInsert(t)
  <2>1. /\ stack[t] # <<>> /\ Top(t).pc \in AcquirePcs /\ UNCHANGED <<timeline_value, failure_status, alive>>
        /\ Refuse(t) \/ tp' = [tp EXCEPT ![Top(t).tp].state = "pending"]
    BY <1>8 DEF AcquireInsert, At, AcquirePcs
  <2>2. PICK p \in Timepoints : p = Top(t).tp /\ tp[p].state = "acquiring"
    BY <1>0, <2>1, TopFacts DEF FrameOK
  <2>3. CASE tp' = [tp EXCEPT ![p].state = "pending"]
    <3>1. "pending" \in TimepointStates
      BY DEF TimepointStates
    <3>2. /\ tp'[p].sem = tp[p].sem /\ tp'[p].min = tp[p].min /\ tp'[p].late = tp[p].late
          /\ tp'[p].state = "pending" /\ \A r \in Timepoints : r # p => tp'[r] = tp[r]
      BY <1>0, <2>3, <3>1, MoveFacts
    <3>3. Invisible
      BY <2>1, <2>2, <3>2 DEF Invisible, WaitingStates
    <3>. QED
      BY <3>3, InvisibleStutters
  <2>. QED
    BY <2>1, <2>2, <2>3, RefuseImplements
<1>9. CASE Cancel(t)
  <2>1. stack[t] # <<>> /\ Top(t).pc = "cancel" /\ CancelTimepoint(Top(t).tp)
    BY <1>9 DEF Cancel, At
  <2>2. Top(t).tp \in Timepoints
    BY <1>0, <2>1, TopFacts DEF FrameOK
  <2>. QED
    BY <2>1, <2>2, CancelImplements
<1>. QED
  BY <1>1, <1>2, <1>3, <1>4, <1>5, <1>6, <1>7, <1>8, <1>9 DEF Step

LEMMA CallImplements ==
  ASSUME Inv, NEW t \in Threads, Call(t)
  PROVE  Timeline!Next \/ UNCHANGED Timeline!vars
<1>1. stack[t] = <<>> /\ todo[t] # <<>>
  BY DEF Call
<1>2. PICK c : c = Head(todo[t])
  OBVIOUS
<1>3. c \in Calls /\ tp \in [Timepoints -> TimepointSet] /\ alive \in [Semaphores -> BOOLEAN]
  BY <1>1, <1>2, HeadTailProperties DEF Inv, Typed
<1>4. CASE CallSignal(t, c) \/ CallFail(t, c) \/ CallTaint(t, c) \/ CallCancel(t, c)
  <2>1. UNCHANGED <<timeline_value, failure_status, alive, tp>>
    BY <1>4 DEF CallSignal, CallFail, CallTaint, CallCancel, semVars
  <2>. QED
    BY <2>1, InvisibleStutters DEF Invisible
<1>5. CASE CallRelease(t, c)
  <2>1. /\ c.op = "release" /\ alive' = [alive EXCEPT ![c.sem] = FALSE]
        /\ UNCHANGED <<timeline_value, failure_status, tp>>
    BY <1>5 DEF CallRelease
  <2>2. PICK s \in Semaphores : s = c.sem
    BY <1>3, <2>1, CallArguments
  <2>3. UNCHANGED [p \in Timepoints |-> Promise(p)]
    BY <2>1 DEF Promise
  <2>4. {q \in Semaphores : ~alive'[q]} = {q \in Semaphores : ~alive[q]} \cup {s}
    BY <1>3, <2>1, <2>2
  <2>5. Timeline!Destroy(s)
    BY <2>1, <2>3, <2>4 DEF Timeline!Destroy
  <2>. QED
    BY <2>5 DEF Timeline!Next
<1>6. CASE CallAcquire(t, c)
  BY <1>1, <1>3, <1>6, CallAcquireRegisters, RegisterImplements
<1>. QED
  BY <1>2, <1>4, <1>5, <1>6 DEF Call

----------------------------------------------------------------------------
(* The theorems.                                                           *)

\* Every step keeps the invariant.
THEOREM Invariance == Spec => []Inv
<1>1. Inv /\ [Next]_vars => Inv'
  <2>1. SUFFICES ASSUME Inv, [Next]_vars PROVE Inv'
    OBVIOUS
  <2>2. CASE UNCHANGED vars
    BY <2>1, <2>2, StutterInv
  <2>3. CASE Next
    BY <2>1, <2>3, StepKeeps, CallKeeps DEF Next
  <2>. QED
    BY <2>1, <2>2, <2>3
<1>. QED
  BY <1>1, InitInv, PTL DEF Spec

\* However signals, failures and registrations interleave, no timepoint whose
\* value was published, or whose semaphore failed, is left behind in the heap.
THEOREM NothingIsStranded == Spec => []NoTimepointIsStranded
BY Invariance, PTL DEF Inv

\* The semaphores do nothing that semaphore.h does not allow: timelines only
\* grow, the first failure is kept, a timepoint is called back at most once,
\* for a reason that holds, and not after a successful cancellation.
TimelineSafety == Timeline!Init /\ [][Timeline!Next]_(Timeline!vars)

THEOREM ImplementsTimelineSafely == Spec => TimelineSafety
<1>1. Init => Timeline!Init
  <2>1. SUFFICES ASSUME Init PROVE Timeline!Init
    OBVIOUS
  <2>2. \A p \in Timepoints : Promise(p) = [state |-> "idle"]
    BY <2>1 DEF Init, IdleTimepoint, Promise
  <2>. QED
    BY <2>1, <2>2 DEF Init, Timeline!Init, Timeline!Idle
<1>2. Inv /\ [Next]_vars => [Timeline!Next]_(Timeline!vars)
  <2>1. SUFFICES ASSUME Inv, [Next]_vars PROVE Timeline!Next \/ UNCHANGED Timeline!vars
    OBVIOUS
  <2>2. CASE UNCHANGED vars
    BY <2>2, InvisibleStutters DEF vars, Invisible
  <2>3. CASE Next
    BY <2>1, <2>3, StepImplements, CallImplements DEF Next
  <2>. QED
    BY <2>1, <2>2, <2>3
<1>. QED
  BY <1>1, <1>2, Invariance, PTL DEF Spec, TimelineSafety
=============================================================================
