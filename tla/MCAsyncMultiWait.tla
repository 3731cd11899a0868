-------------------------- MODULE MCAsyncMultiWait --------------------------
(* Instances of AsyncSemaphore and AsyncMultiWait for TLC: scripts of what  *)
(* three threads call.  Each script is a scenario of its own, chosen by     *)
(* Init.                                                                    *)
EXTENDS AsyncMultiWait, TLC

CONSTANTS t1, t2, t3, s1, s2, p1, p2, p3, a, b

On(ax) == [NoFrontier EXCEPT ![ax] = 1]

Signal(s, v, f) == [op |-> "signal", sem |-> s, value |-> v, frontier |-> f]
Untainted(s, v, f) == [op |-> "untainted", sem |-> s, value |-> v, frontier |-> f]
Publish(s, v, f) == [op |-> "publish", sem |-> s, value |-> v, frontier |-> f]
Fail(s, status) == [op |-> "fail", sem |-> s, status |-> status]
Taint(s, v) == [op |-> "taint", sem |-> s, value |-> v, frontier |-> NoFrontier]
Merge(s, f) == [op |-> "merge_frontier", sem |-> s, value |-> 0, frontier |-> f]
Release(s) == [op |-> "release", sem |-> s]
Acquire(p, s, v) ==
  [op |-> "acquire", tp |-> p, sem |-> s, value |-> v, target |-> None, targetValue |-> 0]
Resolve(p, s, v) ==
  [op |-> "resolve", tp |-> p, sem |-> s, value |-> v, target |-> None, targetValue |-> 0]
Link(p, s, v, to, w) ==
  [op |-> "link", tp |-> p, sem |-> s, value |-> v, target |-> to, targetValue |-> w]
CancelOf(p) == [op |-> "cancel", tp |-> p]
Op(s, v, p) == [sem |-> s, value |-> v, tp |-> p]
Wait(mode, ops, timeout) == [op |-> "wait", mode |-> mode, operands |-> ops, timeout |-> timeout]

Both == << Op(s1, 1, p1), Op(s2, 1, p2) >>

Run(c1, c2, c3) == t1 :> c1 @@ t2 :> c2 @@ t3 :> c3

\* Blocking waits on two semaphores against signals, a failure and a deadline.
WaitScripts ==
  {Run(<<Wait(mode, Both, timeout)>>, <<Untainted(s1, 1, On(a))>>, last) :
     mode \in {"all", "any"}, timeout \in {"finite", "infinite"},
     last \in {<<Signal(s2, 1, On(b))>>, <<Fail(s2, "e1")>>}}

\* Polls, a single operand, a second wait.
PollScripts ==
  {Run(<<Wait(mode, Both, "immediate"), Wait(mode, <<Op(s2, 2, p3)>>, "infinite")>>,
       <<Signal(s1, 1, NoFrontier), Publish(s2, 2, On(a))>>,
       <<Fail(s2, "e1")>>) : mode \in {"all", "any"}}

\* A link, its cancellation, a signal the relay finds already made, a waiter
\* behind the link, and the end of the source.
LinkScripts ==
  {Run(<<Link(p1, s1, 1, s2, 1), Wait("all", <<Op(s2, 1, p2)>>, "infinite")>>, source, last) :
     source \in {<<Signal(s1, 1, On(a)), Release(s1)>>, <<Fail(s1, "e1")>>, <<Release(s1)>>},
     last \in {<<CancelOf(p1), Untainted(s2, 1, NoFrontier)>>, <<Publish(s2, 1, On(b))>>}}

\* Registrations against signals, publications and failures on one semaphore.
TimepointScripts ==
  {Run(<<Acquire(p1, s1, 1), Acquire(p2, s1, 2), CancelOf(p1), Resolve(p1, s1, 2)>>, c2, c3) :
     c2 \in {<<Untainted(s1, 1, On(a)), Signal(s1, 2, NoFrontier)>>,
             <<Publish(s1, 1, On(b)), Taint(s1, 0), Taint(s1, 3), Publish(s1, 2, On(b))>>},
     c3 \in {<<Fail(s1, "e1")>>, <<Merge(s1, On(b)), Untainted(s1, 2, On(a))>>}}
  \cup
  {Run(<<Acquire(p1, s1, 1), Acquire(p2, s1, 1)>>, <<Resolve(p3, s1, 1), Release(s1)>>,
       <<Fail(s1, "e1"), Fail(s1, "e2")>>)}

AllScripts == WaitScripts \cup PollScripts \cup LinkScripts \cup TimepointScripts
=============================================================================
