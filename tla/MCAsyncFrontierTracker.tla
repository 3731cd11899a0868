----------------------- MODULE MCAsyncFrontierTracker -----------------------
(* Instances of AsyncFrontierTracker for TLC: scripts of what three threads *)
(* and the callbacks call.  Each script is a scenario of its own, chosen by *)
(* Init.                                                                    *)
EXTENDS AsyncFrontierTracker

CONSTANTS t1, t2, t3, a, b, c, j1, j2, w1, w2, n1, n2

TwoAxes == <<a, b, c>>
TwoTimelines == <<j1, j2>>

Points(f) == f @@ NoFrontier
A(e) == a :> e
B(e) == b :> e
AdvanceTo(ax, e) == AdvanceFrame(ax, e)
FailWith(ax, status) == FailFrame(ax, status, 0)
Retire(ax) == [Frame("retire") EXCEPT !.axis = ax, !.status = "retired"]
Register(ax) == [Frame("register") EXCEPT !.axis = ax]
DropSem(ax) == [Frame("drop_semaphore") EXCEPT !.axis = ax]
WaitFor(w, f) == WaitFrame(w, Points(f))
CancelOf(w) == [Frame("cancel") EXCEPT !.w = w]
Acquire == Frame("acquire")
Capture(n, f) ==
  << JoinFrame("begin", n, "ok"), [JoinFrame("merge", n, "ok") EXCEPT !.frontier = Points(f)],
     JoinFrame("publish", n, "ok") >>
ReleaseLease == Frame("release_timeline")

Run(c1, c2, c3) ==
  LET End(cs) == Append(cs, Frame("release_tracker"))
  IN  t1 :> End(c1) @@ t2 :> End(c2) @@ t3 :> End(c3)
      @@ [x \in Waiters \cup Bridged |-> <<>>]

\* Two waiters against concurrent advances of two axes, one of them bridged.
WaitScripts ==
  {Run(<<WaitFor(w1, A(1) @@ B(1))>>, <<AdvanceTo(a, 1), AdvanceTo(b, 1)>>, last) :
     last \in {<<AdvanceTo(b, 2), AdvanceTo(a, 2)>>,
               <<WaitFor(w2, A(1) @@ B(2)), AdvanceTo(b, 2)>>,
               <<WaitFor(w2, B(1)), CancelOf(w2)>>}}

\* Failure and retirement; the semaphore is dropped once its axis is retired.
FailScripts ==
  {Run(<<WaitFor(w1, A(2) @@ B(1)), CancelOf(w1)>>, second,
       <<AdvanceTo(a, 1), Retire(a), DropSem(a)>>) :
     second \in {<<FailWith(a, "e1")>>, <<FailWith(b, "e1"), WaitFor(w2, B(1))>>,
                 <<WaitFor(w2, A(2)), AdvanceTo(b, 1)>>}}
  \cup {Run(<<AdvanceTo(a, 1)>>, <<FailWith(a, "e1")>>, <<AdvanceTo(a, 2), FailWith(a, "e2")>>)}

\* Callbacks that call the tracker.
ReentrantScripts ==
  {[Run(<<WaitFor(w2, B(1)), WaitFor(w1, A(1))>>, <<AdvanceTo(a, 1)>>, last)
      EXCEPT ![w1] = <<inner>>, ![a] = <<AdvanceTo(a, 2)>>] :
     inner \in {AdvanceTo(b, 1), CancelOf(w2), WaitFor(w1, B(1))},
     last \in {<<FailWith(b, "e1")>>, <<AdvanceTo(b, 1)>>}}

\* A join of two inputs, and a waiter for its point.
JoinScripts ==
  {Run(<<Acquire>> \o Capture(n1, B(1) @@ c :> 1) \o <<ReleaseLease>>, second, third) :
     second \in {<<AdvanceTo(b, 1), WaitFor(w1, j1 :> 1)>>, <<FailWith(b, "e1")>>},
     third \in {<<Register(c), AdvanceTo(c, 1)>>, <<Register(c), FailWith(c, "e2")>>}}

\* Two joins in a row on one timeline, ended in either order.
ChainScripts ==
  {Run(<<Acquire>> \o Capture(n1, A(1)) \o Capture(n2, B(1)) \o <<ReleaseLease>>,
       second, third) :
     second \in {<<AdvanceTo(a, 1)>>, <<FailWith(a, "e1")>>},
     third \in {<<AdvanceTo(b, 1), WaitFor(w1, j1 :> 1)>>, <<FailWith(b, "e2")>>}}

\* Two clients lease timelines, one after the other or together.
LeaseScripts ==
  {Run(<<Acquire>> \o Capture(n1, A(1)) \o <<ReleaseLease>>,
       <<Acquire>> \o Capture(n2, j1 :> 1) \o <<ReleaseLease>>,
       third) :
     third \in {<<AdvanceTo(a, 1)>>, <<FailWith(a, "e1"), Register(c)>>}}

AllScripts ==
  WaitScripts \cup FailScripts \cup ReentrantScripts \cup JoinScripts \cup ChainScripts
  \cup LeaseScripts
=============================================================================
