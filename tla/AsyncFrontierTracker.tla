------------------------ MODULE AsyncFrontierTracker ------------------------
(***************************************************************************)
(* runtime/src/iree/async/frontier_tracker.c: the epochs of the axes of a  *)
(* causal domain, the waiters for frontiers over them, the semaphores that *)
(* axes are bridged to, and logical joins whose own axis advances when all *)
(* their inputs have.                                                      *)
(*                                                                         *)
(* An advance publishes its epoch without the lock and takes it only when  *)
(* the earliest epoch somebody waits for on that axis has been reached.  A *)
(* waiter is indexed on one axis at a time, the first of its frontier that *)
(* is still behind.  Callbacks run with no lock held, on the thread that   *)
(* advances, fails, registers or destroys; they may call the tracker.      *)
(*                                                                         *)
(* A thread has a stack of frames; the top frame's pc is the next atomic   *)
(* operation or critical section.  The search tree of an axis is the set   *)
(* of waiters indexed on it, the axis table a function, a CAS loop the CAS *)
(* that ends it, a frontier a function from axes to epochs, 0 where it has *)
(* no entry.  Callback order among the waiters of one dispatch is free.    *)
(***************************************************************************)
EXTENDS Integers, Sequences, FiniteSets, SequencesExt

CONSTANTS
  Threads,
  Axes,          \* the axes participants register, in their numerical order
  Timelines,     \* the JOIN axes, in the order the tracker makes them
  Bridged,       \* the axes registered with a semaphore
  Late,          \* the axes that are registered while the tracker is in use
  Capacity,      \* axis_table_capacity
  ChunkSize,     \* UINT8_MAX, the entries a compact frontier holds
  MaxEpoch,      \* UINT64_MAX, above every epoch
  Waiters, Joins, None,
  Scripts        \* what threads and callbacks call

AllAxes == Axes \o Timelines
AxisSet == ToSet(AllAxes)
MaxChunks == (Len(AllAxes) - 1) \div ChunkSize + 1
JoinWaits == Joins \X (1..MaxChunks)
AllWaiters == Waiters \cup JoinWaits

ASSUME TrackerAssumption ==
  /\ IsInjective(AllAxes) /\ Bridged \cup Late \subseteq ToSet(Axes)
  /\ {Capacity, ChunkSize, MaxEpoch} \subseteq Nat \ {0}
  /\ None \notin Threads \cup AxisSet \cup AllWaiters \cup Joins

VARIABLES
  entry,       \* axis -> iree_async_axis_table_entry_t
  semaphore,   \* bridged axis -> the semaphore's value, failure and references
  waiter,      \* waiter -> iree_async_frontier_waiter_t
  join,        \* join -> iree_async_frontier_join_t
  lease,       \* timeline -> references and last_epoch
  idle,        \* idle_timelines
  mutex,       \* waiters_mutex: its holder or None
  refs,        \* ref_count of the tracker
  alive,       \* the tracker has not been freed
  holds,       \* thread -> timeline it has acquired
  stack,       \* thread -> frames, innermost first
  todo         \* thread, waiter or bridged axis -> calls it still makes

vars == <<entry, semaphore, waiter, join, lease, idle, mutex, refs, alive, holds, stack, todo>>

NoFrontier == [ax \in AxisSet |-> 0]
IsTimeline(ax) == ax \in ToSet(Timelines)

\* failure_epoch is 0 on ordinary axes: their failure covers every epoch.
NewEntry(ax, occupied) ==
  [occupied |-> occupied, epoch |-> 0, next_wait |-> MaxEpoch, owned |-> FALSE,
   bridge |-> occupied /\ ax \in Bridged, failure |-> "ok",
   failure_epoch |-> IF IsTimeline(ax) THEN MaxEpoch ELSE 0]

IdleWaiter == [state |-> "idle", frontier |-> NoFrontier, at |-> None, status |-> "ok"]

IdleJoin ==
  [state |-> "idle", axis |-> None, epoch |-> 0, entries |-> NoFrontier, count |-> 0,
   pending |-> 0, failure |-> "ok", published |-> FALSE, cancellation |-> 0]

\* A frame or a call: the next step and its arguments (axis, epoch, status,
\* waiter, frontier, join), and what it has gathered: the bridge's target, the
\* waiters taken off the index, those to call back, the next ordinal.
Frame(pc) ==
  [pc |-> pc, axis |-> None, epoch |-> 0, status |-> "ok", w |-> None, frontier |-> NoFrontier,
   join |-> None, target |-> 0, batch |-> {}, list |-> {}, ord |-> 1]

AdvanceFrame(ax, e) == [Frame("advance") EXCEPT !.axis = ax, !.epoch = e]
FailFrame(ax, status, e) == [Frame("fail") EXCEPT !.axis = ax, !.status = status, !.epoch = e]
WaitFrame(w, f) == [Frame("wait") EXCEPT !.w = w, !.frontier = f]
DispatchFrame(list, status) == [Frame("dispatch") EXCEPT !.list = list, !.status = status]
JoinFrame(pc, j, status) == [Frame(pc) EXCEPT !.join = j, !.status = status]

\* Every thread owns a reference of the tracker.
Init ==
  /\ entry = [ax \in AxisSet |-> NewEntry(ax, ax \in ToSet(Axes) \ Late)]
  /\ semaphore = [ax \in Bridged |-> [value |-> 0, failure |-> "ok", refs |-> 1]]
  /\ waiter = [w \in AllWaiters |-> IdleWaiter]
  /\ join = [j \in Joins |-> IdleJoin]
  /\ lease = [tl \in ToSet(Timelines) |-> [refs |-> 0, last |-> 0]]
  /\ idle = <<>>
  /\ mutex = None
  /\ refs = Cardinality(Threads)
  /\ alive = TRUE
  /\ holds = [t \in Threads |-> None]
  /\ stack = [t \in Threads |-> <<>>]
  /\ todo \in Scripts

----------------------------------------------------------------------------
(* Frames and calls.                                                       *)

Top(t) == Head(stack[t])
At(t, pc) == stack[t] # <<>> /\ Top(t).pc = pc
Replace(t, frames) == stack' = [stack EXCEPT ![t] = frames \o Tail(@)]
Become(t, f) == Replace(t, <<f>>)
Goto(t, pc) == Become(t, [Top(t) EXCEPT !.pc = pc])
Return(t) == Replace(t, <<>>)

Unlocked == mutex = None

\* A thread whose stack is empty makes its next call.
Call(t) ==
  /\ stack[t] = <<>> /\ todo[t] # <<>>
  /\ stack' = [stack EXCEPT ![t] = <<Head(todo[t])>>]
  /\ todo' = [todo EXCEPT ![t] = Tail(@)]
  /\ UNCHANGED <<entry, semaphore, waiter, join, lease, idle, mutex, refs, alive, holds>>

\* The callbacks of a waiter or of a semaphore may call the tracker, too.
Reenter(who) == IF todo[who] = <<>> THEN <<>> ELSE <<Head(todo[who])>>
AfterReenter(who) == [todo EXCEPT ![who] = IF @ = <<>> THEN @ ELSE Tail(@)]

Occupied == {ax \in AxisSet : entry[ax].occupied}

\* iree_async_axis_table_register, under the lock.
CanRegister(ax) == ~entry[ax].occupied /\ Cardinality(Occupied) < Capacity

\* iree_async_frontier_tracker_register_axis.
RegisterAxis(t) ==
  LET ax == Top(t).axis
  IN  /\ At(t, "register") /\ Unlocked
      /\ IF CanRegister(ax)
         THEN entry' = [entry EXCEPT ![ax] = NewEntry(ax, TRUE)]
         ELSE UNCHANGED entry
      /\ Return(t)
      /\ UNCHANGED <<semaphore, waiter, join, lease, idle, mutex, refs, alive, holds, todo>>

----------------------------------------------------------------------------
(* The index of pending epochs.                                            *)

Pending == {w \in AllWaiters : waiter[w].state = "pending"}

\* The waiters indexed on the axis, and the earliest of the epochs a set of
\* them waits for.
Indexed(ax) == {w \in Pending : waiter[w].at = ax}
Earliest(ax, ws) ==
  IF ws = {} THEN MaxEpoch
  ELSE CHOOSE e \in {waiter[w].frontier[ax] : w \in ws} :
         \A w \in ws : e <= waiter[w].frontier[ax]

\* The entries once waiters ws have been erased from their indexes.
Erased(ws) ==
  [ax \in AxisSet |->
     IF Indexed(ax) \cap ws = {} THEN entry[ax]
     ELSE [entry[ax] EXCEPT !.next_wait = Earliest(ax, Indexed(ax) \ ws)]]

\* They leave the index and the inventory for the reason given.
Unlinked(ws, state) ==
  [w \in AllWaiters |->
     IF w \in ws THEN [waiter[w] EXCEPT !.at = None, !.state = state] ELSE waiter[w]]

\* The failure of an axis concerns the points from failure_epoch on.
FailsPoint(ax, e) == entry[ax].failure # "ok" /\ e >= entry[ax].failure_epoch

Reached(ax, e) == entry[ax].epoch >= e

\* Ordinals of the frontier's entries, from k on.
Ordinals(f, k) == {i \in k..Len(AllAxes) : f[AllAxes[i]] > 0}
First(S) == CHOOSE i \in S : \A k \in S : i <= k

----------------------------------------------------------------------------
(* iree_async_frontier_tracker_advance and publish_bridge.                 *)

Advance(t) ==
  LET f == Top(t)
  IN  /\ At(t, "advance")
      /\ IF entry[f.axis].occupied /\ f.epoch > entry[f.axis].epoch
         THEN /\ entry' = [entry EXCEPT ![f.axis].epoch = f.epoch]
              /\ Goto(t, IF entry[f.axis].bridge THEN "claim" ELSE "check")
         ELSE UNCHANGED entry /\ Return(t)
      /\ UNCHANGED <<semaphore, waiter, join, lease, idle, mutex, refs, alive, holds, todo>>

Claimed(ax) == ~entry[ax].owned

\* The exchange of bridge_owned, the first and every later turn.
BridgeClaim(t) ==
  LET ax == Top(t).axis
  IN  /\ At(t, "claim")
      /\ entry' = [entry EXCEPT ![ax].owned = TRUE]
      /\ Goto(t, IF Claimed(ax) THEN "load" ELSE "check")
      /\ UNCHANGED <<semaphore, waiter, join, lease, idle, mutex, refs, alive, holds, todo>>

\* The epoch to publish, and the query that leaves out a duplicate.
BridgeLoad(t) ==
  LET ax == Top(t).axis
  IN  /\ At(t, "load")
      /\ Become(t, [Top(t) EXCEPT !.target = entry[ax].epoch,
                      !.pc = IF semaphore[ax].value < entry[ax].epoch THEN "signal" ELSE "release"])
      /\ UNCHANGED <<entry, semaphore, waiter, join, lease, idle, mutex, refs, alive, holds, todo>>

\* A signal that is refused fails the semaphore; either way its timepoints
\* are called back.
SemaphoreFailed(ax, status) ==
  [semaphore EXCEPT ![ax].failure = IF @ = "ok" THEN status ELSE @]

BridgeSignal(t) ==
  LET f  == Top(t)
      ax == f.axis
  IN  /\ At(t, "signal")
      /\ semaphore' = IF semaphore[ax].failure = "ok" /\ semaphore[ax].value < f.target
                      THEN [semaphore EXCEPT ![ax].value = f.target]
                      ELSE SemaphoreFailed(ax, "invalid_argument")
      /\ Replace(t, Reenter(ax) \o << [f EXCEPT !.pc = "release"] >>)
      /\ todo' = AfterReenter(ax)
      /\ UNCHANGED <<entry, waiter, join, lease, idle, mutex, refs, alive, holds>>

BridgeRelease(t) ==
  /\ At(t, "release")
  /\ entry' = [entry EXCEPT ![Top(t).axis].owned = FALSE]
  /\ Goto(t, "reload")
  /\ UNCHANGED <<semaphore, waiter, join, lease, idle, mutex, refs, alive, holds, todo>>

BridgeBehind(f) == entry[f.axis].epoch > f.target

BridgeReload(t) ==
  /\ At(t, "reload")
  /\ Goto(t, IF BridgeBehind(Top(t)) THEN "claim" ELSE "check")
  /\ UNCHANGED <<entry, semaphore, waiter, join, lease, idle, mutex, refs, alive, holds, todo>>

SomebodyWaits(ax, e) == e >= entry[ax].next_wait

AdvanceCheck(t) ==
  /\ At(t, "check")
  /\ IF SomebodyWaits(Top(t).axis, Top(t).epoch) THEN Goto(t, "pop") ELSE Return(t)
  /\ UNCHANGED <<entry, semaphore, waiter, join, lease, idle, mutex, refs, alive, holds, todo>>

\* The waiters of the earliest epoch.
Ready(ax, e) ==
  {w \in Indexed(ax) : /\ waiter[w].frontier[ax] <= e
                       /\ waiter[w].frontier[ax] = Earliest(ax, Indexed(ax))}

\* Under the lock: take the earliest epoch's waiters out of the index, for as
\* long as it has been reached.
AdvancePop(t) ==
  LET f  == Top(t)
      ws == Ready(f.axis, f.epoch)
  IN  /\ At(t, "pop") /\ mutex \in {None, t} /\ ws # {}
      /\ mutex' = t
      /\ entry' = Erased(ws)
      /\ waiter' = Unlinked(ws, "pending")
      /\ Become(t, [f EXCEPT !.pc = "each", !.batch = ws])
      /\ UNCHANGED <<semaphore, join, lease, idle, refs, alive, holds, todo>>

\* Then the lock is released and the satisfied waiters are called back.
Finish(t) ==
  /\ mutex' = None
  /\ Become(t, DispatchFrame(Top(t).list, "ok"))

AdvanceDone(t) ==
  /\ At(t, "pop") /\ mutex \in {None, t} /\ Ready(Top(t).axis, Top(t).epoch) = {}
  /\ Finish(t)
  /\ UNCHANGED <<entry, semaphore, waiter, join, lease, idle, refs, alive, holds, todo>>

OrdinalOf(ax) == CHOOSE i \in 1..Len(AllAxes) : AllAxes[i] = ax

\* Mutant of Resume: the entries after the one reached are not looked at.
ResumeNowhere(ax) == Len(AllAxes) + 1

Resume(ax) == OrdinalOf(ax) + 1

\* Each of them goes on to the next entry of its frontier.
AdvanceEach(t) ==
  LET f == Top(t)
  IN  /\ At(t, "each")
      /\ IF f.batch = {} THEN Goto(t, "pop")
         ELSE \E w \in f.batch :
                Become(t, [f EXCEPT !.pc = "index", !.batch = @ \ {w}, !.w = w,
                             !.ord = Resume(f.axis)])
      /\ UNCHANGED <<entry, semaphore, waiter, join, lease, idle, mutex, refs, alive, holds, todo>>

----------------------------------------------------------------------------
(* iree_async_frontier_tracker_index_next, under the lock but against      *)
(* advances that do not take it.                                           *)

\* The waiter has no entry left: it leaves the inventory and is called back.
IndexNone(t) ==
  LET f == Top(t)
  IN  /\ At(t, "index") /\ Ordinals(waiter[f.w].frontier, f.ord) = {}
      /\ waiter' = Unlinked({f.w}, "detached")
      /\ Become(t, [f EXCEPT !.pc = IF f.axis = None THEN "unlock" ELSE "each",
                      !.list = @ \cup {f.w}])
      /\ UNCHANGED <<entry, semaphore, join, lease, idle, mutex, refs, alive, holds, todo>>

\* The first load of the entry's epoch.
IndexLoad(t) ==
  LET f  == Top(t)
      os == Ordinals(waiter[f.w].frontier, f.ord)
      ax == AllAxes[First(os)]
  IN  /\ At(t, "index") /\ os # {}
      /\ IF Reached(ax, waiter[f.w].frontier[ax])
         THEN Become(t, [f EXCEPT !.ord = First(os) + 1])
         ELSE Become(t, [f EXCEPT !.pc = "insert", !.ord = First(os)])
      /\ UNCHANGED <<entry, semaphore, waiter, join, lease, idle, mutex, refs, alive, holds, todo>>

IndexInsert(t) ==
  LET f  == Top(t)
      ax == AllAxes[f.ord]
      e  == waiter[f.w].frontier[ax]
  IN  /\ At(t, "insert")
      /\ waiter' = [waiter EXCEPT ![f.w].at = ax]
      /\ entry' = [entry EXCEPT ![ax].next_wait = IF e < @ THEN e ELSE @]
      /\ Goto(t, "recheck")
      /\ UNCHANGED <<semaphore, join, lease, idle, mutex, refs, alive, holds, todo>>

StillBehind(ax, e) == ~Reached(ax, e)

\* The opposing load: an advance that missed the insertion is seen here.
IndexRecheck(t) ==
  LET f  == Top(t)
      ax == AllAxes[f.ord]
  IN  /\ At(t, "recheck")
      /\ IF StillBehind(ax, waiter[f.w].frontier[ax])
         THEN /\ Goto(t, IF f.axis = None THEN "unlock" ELSE "each")
              /\ UNCHANGED <<entry, waiter>>
         ELSE /\ entry' = Erased({f.w})
              /\ waiter' = Unlinked({f.w}, "pending")
              /\ Become(t, [f EXCEPT !.pc = "index", !.ord = @ + 1])
      /\ UNCHANGED <<semaphore, join, lease, idle, mutex, refs, alive, holds, todo>>

----------------------------------------------------------------------------
(* iree_async_frontier_tracker_wait, _cancel_wait and the callbacks.       *)

Known(f) == \A ax \in AxisSet : f[ax] > 0 => entry[ax].occupied

\* The ordinals at which a frontier fails, and those that are still behind.
FailedAt(f) == {i \in Ordinals(f, 1) : FailsPoint(AllAxes[i], f[AllAxes[i]])}
BehindAt(f) == {i \in Ordinals(f, 1) : ~Reached(AllAxes[i], f[AllAxes[i]])}

\* A frontier over unknown axes is refused; a join's callback hears of it.
WaitRefused(t) ==
  LET f == Top(t)
  IN  /\ At(t, "wait") /\ ~Known(f.frontier)
      /\ waiter' = [waiter EXCEPT ![f.w] =
                      [IdleWaiter EXCEPT !.state = "refused", !.frontier = f.frontier]]
      /\ IF f.w \in JoinWaits THEN Become(t, JoinFrame("completed", f.w[1], "not_found"))
                              ELSE Return(t)
      /\ UNCHANGED <<entry, semaphore, join, lease, idle, mutex, refs, alive, holds, todo>>

\* check_frontier: a failure comes before satisfaction, and both are answered
\* at once.  Otherwise the waiter enters the inventory.
Wait(t) ==
  LET f == Top(t)
      new == [IdleWaiter EXCEPT !.frontier = f.frontier]
      failed == FailedAt(f.frontier)
      behind == BehindAt(f.frontier)
  IN  /\ At(t, "wait") /\ Known(f.frontier) /\ Unlocked
      /\ IF failed # {} \/ behind = {}
         THEN /\ waiter' = [waiter EXCEPT ![f.w] = [new EXCEPT !.state = "detached"]]
              /\ Become(t, DispatchFrame({f.w}, IF failed = {} THEN "ok"
                                                ELSE entry[AllAxes[First(failed)]].failure))
              /\ UNCHANGED mutex
         ELSE /\ waiter' = [waiter EXCEPT ![f.w] = [new EXCEPT !.state = "pending"]]
              /\ mutex' = t
              /\ Become(t, [Frame("index") EXCEPT !.w = f.w, !.ord = First(behind)])
      /\ UNCHANGED <<entry, semaphore, join, lease, idle, refs, alive, holds, todo>>

WaitUnlock(t) ==
  /\ At(t, "unlock")
  /\ Finish(t)
  /\ UNCHANGED <<entry, semaphore, waiter, join, lease, idle, refs, alive, holds, todo>>

\* Takes a pending waiter back; a waiter that was dispatched stays so.
Cancelled(ws) ==
  /\ entry' = Erased(ws)
  /\ waiter' = Unlinked(ws, "withdrawn")

Cancellable(w) == waiter[w].at # None

CancelWait(t) ==
  /\ At(t, "cancel") /\ Unlocked
  /\ Cancelled({w \in {Top(t).w} : Cancellable(w)})
  /\ Return(t)
  /\ UNCHANGED <<semaphore, join, lease, idle, mutex, refs, alive, holds, todo>>

\* What the callback of a waiter runs.
Callback(w, status) ==
  IF w \in JoinWaits THEN << JoinFrame("completed", w[1], status) >> ELSE Reenter(w)

Dispatch(t) ==
  LET f == Top(t)
  IN  /\ At(t, "dispatch")
      /\ \E w \in f.list :
           /\ waiter' = [waiter EXCEPT ![w].state = "answered", ![w].status = f.status]
           /\ Replace(t, Callback(w, f.status) \o << [f EXCEPT !.list = @ \ {w}] >>)
           /\ todo' = IF w \in Waiters THEN AfterReenter(w) ELSE todo
      /\ UNCHANGED <<entry, semaphore, join, lease, idle, mutex, refs, alive, holds>>

DispatchEnd(t) ==
  /\ At(t, "dispatch") /\ Top(t).list = {}
  /\ Return(t)
  /\ UNCHANGED <<entry, semaphore, waiter, join, lease, idle, mutex, refs, alive, holds, todo>>

----------------------------------------------------------------------------
(* fail_axis, retire_axis and the failure of a join: fail_axis_impl.       *)

\* Mutant of Victims: only the waiters indexed on the axis are looked at.
VictimsIndexed(ax, e) == {w \in Indexed(ax) : waiter[w].frontier[ax] >= e}

\* Whatever axis a waiter is indexed on: the whole inventory is searched.
Victims(ax, e) ==
  {w \in Pending : waiter[w].frontier[ax] > 0 /\ waiter[w].frontier[ax] >= e}

\* A failure that changes nothing: a join's from an epoch that has failed
\* already, any failure of an axis that has.
FailureKnown(ax, e) ==
  IF IsTimeline(ax) THEN e >= entry[ax].failure_epoch ELSE entry[ax].failure # "ok"

\* Retirement clears the bridge even when the axis has failed before.
FailAxis(t) ==
  LET f  == Top(t)
      ax == f.axis
      ws == Victims(ax, f.epoch)
      retire == f.pc = "retire"
      bridge == entry[ax].bridge /\ ~retire
      status == IF entry[ax].failure = "ok" THEN f.status ELSE entry[ax].failure
  IN  /\ At(t, "fail") \/ At(t, "retire")
      /\ entry[ax].occupied => Unlocked
      /\ IF ~entry[ax].occupied \/ FailureKnown(ax, f.epoch)
         THEN /\ entry' = [entry EXCEPT ![ax].bridge = bridge]
              /\ Return(t)
              /\ UNCHANGED <<waiter, semaphore>>
         ELSE /\ entry' = [Erased(ws) EXCEPT ![ax].failure = status, ![ax].bridge = bridge,
                                             ![ax].failure_epoch = f.epoch]
              /\ waiter' = Unlinked(ws, "detached")
              /\ IF bridge
                 THEN /\ semaphore' = [semaphore EXCEPT ![ax].refs = @ + 1]
                      /\ Become(t, [f EXCEPT !.pc = "fail_semaphore", !.list = ws,
                                             !.status = status])
                 ELSE Become(t, DispatchFrame(ws, status)) /\ UNCHANGED semaphore
      /\ UNCHANGED <<join, lease, idle, mutex, refs, alive, holds, todo>>

\* With the lock released: the semaphore's timepoints hear of it ...
FailSemaphore(t) ==
  LET f == Top(t)
  IN  /\ At(t, "fail_semaphore")
      /\ semaphore' = SemaphoreFailed(f.axis, f.status)
      /\ Replace(t, Reenter(f.axis) \o << [f EXCEPT !.pc = "drop_semaphore"] >>)
      /\ todo' = AfterReenter(f.axis)
      /\ UNCHANGED <<entry, waiter, join, lease, idle, mutex, refs, alive, holds>>

\* ... then the waiters.  A participant drops its semaphore the same way.
DropSemaphore(t) ==
  LET f == Top(t)
  IN  /\ At(t, "drop_semaphore")
      /\ semaphore' = [semaphore EXCEPT ![f.axis].refs = @ - 1]
      /\ Become(t, DispatchFrame(f.list, f.status))
      /\ UNCHANGED <<entry, waiter, join, lease, idle, mutex, refs, alive, holds, todo>>

----------------------------------------------------------------------------
(* Timeline leases and the tracker's lifetime.                             *)

Lease(tl) ==
  /\ lease' = [lease EXCEPT ![tl].refs = 1]
  /\ refs' = refs + 1

\* An idle timeline is taken again, without creating an axis.
AcquireIdle(t) ==
  /\ At(t, "acquire") /\ Unlocked /\ idle # <<>>
  /\ idle' = Tail(idle)
  /\ Lease(Head(idle))
  /\ holds' = [holds EXCEPT ![t] = Head(idle)]
  /\ Return(t)
  /\ UNCHANGED <<entry, semaphore, waiter, join, mutex, alive, todo>>

AcquireNone(t) ==
  /\ At(t, "acquire") /\ Unlocked /\ idle = <<>>
  /\ Goto(t, "create")
  /\ UNCHANGED <<entry, semaphore, waiter, join, lease, idle, mutex, refs, alive, holds, todo>>

Fresh == Ordinals([ax \in AxisSet |-> IF IsTimeline(ax) /\ ~entry[ax].occupied THEN 1 ELSE 0], 1)

\* A second critical section registers the next JOIN axis, if there is room.
AcquireCreate(t) ==
  LET tl == AllAxes[First(Fresh)]
  IN  /\ At(t, "create") /\ Unlocked
      /\ IF Fresh # {} /\ CanRegister(tl)
         THEN /\ entry' = [entry EXCEPT ![tl] = NewEntry(tl, TRUE)]
              /\ Lease(tl)
              /\ holds' = [holds EXCEPT ![t] = tl]
         ELSE UNCHANGED <<entry, lease, refs, holds>>
      /\ Return(t)
      /\ UNCHANGED <<semaphore, waiter, join, idle, mutex, alive, todo>>

\* iree_async_frontier_timeline_release gives back the lease, then the
\* tracker.
ReleaseTimeline(t) ==
  LET tl == holds[t]
  IN  /\ At(t, "release_timeline")
      /\ Replace(t, IF tl = None THEN <<>>
                    ELSE << [Frame("drop_lease") EXCEPT !.axis = tl], Frame("release_tracker") >>)
      /\ holds' = [holds EXCEPT ![t] = None]
      /\ UNCHANGED <<entry, semaphore, waiter, join, lease, idle, mutex, refs, alive, todo>>

\* iree_async_frontier_timeline_drop_reference.
DropLease(t) ==
  LET tl == Top(t).axis
  IN  /\ At(t, "drop_lease")
      /\ lease' = [lease EXCEPT ![tl].refs = @ - 1]
      /\ IF lease[tl].refs = 1 THEN Goto(t, "idle_lease") ELSE Return(t)
      /\ UNCHANGED <<entry, semaphore, waiter, join, idle, mutex, refs, alive, holds, todo>>

Reusable(tl) == entry[tl].failure = "ok"

IdleLease(t) ==
  LET tl == Top(t).axis
  IN  /\ At(t, "idle_lease") /\ Unlocked
      /\ idle' = IF Reusable(tl) THEN <<tl>> \o idle ELSE idle
      /\ Return(t)
      /\ UNCHANGED <<entry, semaphore, waiter, join, lease, mutex, refs, alive, holds, todo>>

\* The last reference destroys the tracker: it takes the waiters out first.
ReleaseTracker(t) ==
  /\ At(t, "release_tracker")
  /\ refs' = refs - 1
  /\ IF refs = 1
     THEN /\ waiter' = Unlinked(Pending, "detached")
          /\ Replace(t, << DispatchFrame(Pending, "cancelled"), Frame("free") >>)
     ELSE Return(t) /\ UNCHANGED waiter
  /\ UNCHANGED <<entry, semaphore, join, lease, idle, mutex, alive, holds, todo>>

FreeTracker(t) ==
  /\ At(t, "free")
  /\ alive' = FALSE
  /\ Return(t)
  /\ UNCHANGED <<entry, semaphore, waiter, join, lease, idle, mutex, refs, holds, todo>>

----------------------------------------------------------------------------
(* Logical joins.                                                          *)

\* join_allocate and join_begin on the thread's timeline; the preceding point
\* of the timeline is the first input.
JoinBegin(t) ==
  LET tl == holds[t]
      j  == Top(t).join
      e  == lease[tl].last + 1
  IN  /\ At(t, "begin")
      /\ IF tl = None THEN UNCHANGED <<join, lease>>
         ELSE /\ lease' = [lease EXCEPT ![tl] = [refs |-> @.refs + 1, last |-> e]]
              /\ join' = [join EXCEPT ![j] =
                            [IdleJoin EXCEPT !.state = "open", !.axis = tl, !.epoch = e,
                               !.entries = [NoFrontier EXCEPT ![tl] = e - 1]]]
      /\ Return(t)
      /\ UNCHANGED <<entry, semaphore, waiter, idle, mutex, refs, alive, holds, todo>>

\* Epoch maxima; the capture's own axis is left out.
JoinMerge(t) ==
  LET f == Top(t)
      own == join[f.join].axis
  IN  /\ At(t, "merge")
      /\ join' = IF join[f.join].state # "open" THEN join
                 ELSE [join EXCEPT ![f.join].entries =
                         [ax \in AxisSet |-> IF ax # own /\ f.frontier[ax] > @[ax]
                                             THEN f.frontier[ax] ELSE @[ax]]]
      /\ Return(t)
      /\ UNCHANGED <<entry, semaphore, waiter, lease, idle, mutex, refs, alive, holds, todo>>

\* The i-th compact frontier of the packed entries.
EntryCount(f) == Cardinality(Ordinals(f, 1))
Chunk(f, i) ==
  [ax \in AxisSet |->
     IF (EntryCount(f) - Cardinality(Ordinals(f, OrdinalOf(ax)))) \div ChunkSize + 1 = i
     THEN f[ax] ELSE 0]

\* One reference for every wait and one for the publication.
JoinPublish(t) ==
  LET f == Top(t)
      n == (EntryCount(join[f.join].entries) + ChunkSize - 1) \div ChunkSize
  IN  /\ At(t, "publish")
      /\ IF join[f.join].state # "open" THEN Return(t) /\ UNCHANGED join
         ELSE /\ join' = [join EXCEPT ![f.join].state = "waiting", ![f.join].count = n,
                                      ![f.join].pending = n + 1]
              /\ Goto(t, "register_waits")
      /\ UNCHANGED <<entry, semaphore, waiter, lease, idle, mutex, refs, alive, holds, todo>>

\* Registers the waits one by one; each may be answered on the spot.
JoinWait(t) ==
  LET f == Top(t)
      j == f.join
  IN  /\ At(t, "register_waits") /\ f.ord <= join[j].count
      /\ Replace(t, << WaitFrame(<<j, f.ord>>, Chunk(join[j].entries, f.ord)),
                       [f EXCEPT !.ord = @ + 1] >>)
      /\ UNCHANGED <<entry, semaphore, waiter, join, lease, idle, mutex, refs, alive, holds, todo>>

JoinPublished(t) ==
  LET f == Top(t)
  IN  /\ At(t, "register_waits") /\ f.ord > join[f.join].count
      /\ join' = [join EXCEPT ![f.join].published = TRUE]
      /\ Goto(t, "cancel_failed")
      /\ UNCHANGED <<entry, semaphore, waiter, lease, idle, mutex, refs, alive, holds, todo>>

\* iree_async_frontier_join_wait_completed: the first failure is kept ...
JoinCompleted(t) ==
  LET f == Top(t)
  IN  /\ At(t, "completed")
      /\ IF f.status = "ok" THEN Goto(t, "drop") /\ UNCHANGED join
         ELSE /\ join' = [join EXCEPT ![f.join].failure = IF @ = "ok" THEN f.status ELSE @]
              /\ Goto(t, "request")
      /\ UNCHANGED <<entry, semaphore, waiter, lease, idle, mutex, refs, alive, holds, todo>>

\* ... and the cancellation of the other waits is asked for.
JoinRequest(t) ==
  LET f == Top(t)
  IN  /\ At(t, "request")
      /\ join' = [join EXCEPT ![f.join].cancellation = IF @ = 0 THEN 1 ELSE @]
      /\ Goto(t, "cancel_failed")
      /\ UNCHANGED <<entry, semaphore, waiter, lease, idle, mutex, refs, alive, holds, todo>>

MayCancel(j) == join[j].published

\* iree_async_frontier_join_cancel_failed: one caller owns the walk.
JoinCancelCheck(t) ==
  /\ At(t, "cancel_failed")
  /\ Goto(t, IF MayCancel(Top(t).join) THEN "own" ELSE "drop")
  /\ UNCHANGED <<entry, semaphore, waiter, join, lease, idle, mutex, refs, alive, holds, todo>>

JoinCancelOwn(t) ==
  LET f == Top(t)
      won == join[f.join].cancellation = 1
  IN  /\ At(t, "own")
      /\ join' = [join EXCEPT ![f.join].cancellation = IF won THEN 2 ELSE @]
      /\ Become(t, [f EXCEPT !.pc = IF won THEN "walk" ELSE "drop", !.ord = 1])
      /\ UNCHANGED <<entry, semaphore, waiter, lease, idle, mutex, refs, alive, holds, todo>>

\* Mutant of GiveUp: a cancelled wait keeps its reference.
GiveUpNothing(j, ws) == <<>>

\* A wait that was cancelled gives up its reference here.
GiveUp(j, ws) == IF ws = {} THEN <<>> ELSE << JoinFrame("drop", j, "ok") >>

JoinCancelWalk(t) ==
  LET f == Top(t)
      w == <<f.join, f.ord>>
      hit == {x \in {w} : Cancellable(x)}
  IN  /\ At(t, "walk") /\ f.ord <= join[f.join].count /\ Unlocked
      /\ Cancelled(hit)
      /\ Replace(t, GiveUp(f.join, hit) \o << [f EXCEPT !.ord = @ + 1] >>)
      /\ UNCHANGED <<semaphore, join, lease, idle, mutex, refs, alive, holds, todo>>

JoinCancelDone(t) ==
  /\ At(t, "walk") /\ Top(t).ord > join[Top(t).join].count
  /\ Goto(t, "drop")
  /\ UNCHANGED <<entry, semaphore, waiter, join, lease, idle, mutex, refs, alive, holds, todo>>

\* Mutant of Conclude: the axis advances although an input failed.
ConcludeAlways(j) == AdvanceFrame(join[j].axis, join[j].epoch)

\* What the last reference does to the join's axis.
Conclude(j) ==
  IF join[j].failure = "ok" THEN AdvanceFrame(join[j].axis, join[j].epoch)
  ELSE FailFrame(join[j].axis, join[j].failure, join[j].epoch)

\* Mutant of LastReference: off by one.
LastReferenceEarly(j) == join[j].pending <= 2

LastReference(j) == join[j].pending = 1

\* iree_async_frontier_join_release_pending.
JoinDrop(t) ==
  LET j == Top(t).join
  IN  /\ At(t, "drop")
      /\ join' = [join EXCEPT ![j].pending = @ - 1]
      /\ IF LastReference(j)
         THEN Replace(t, << Conclude(j), JoinFrame("join_free", j, "ok") >>)
         ELSE Return(t)
      /\ UNCHANGED <<entry, semaphore, waiter, lease, idle, mutex, refs, alive, holds, todo>>

JoinFree(t) ==
  LET j == Top(t).join
  IN  /\ At(t, "join_free")
      /\ join' = [join EXCEPT ![j].state = "freed"]
      /\ Become(t, [Frame("drop_lease") EXCEPT !.axis = join[j].axis])
      /\ UNCHANGED <<entry, semaphore, waiter, lease, idle, mutex, refs, alive, holds, todo>>

----------------------------------------------------------------------------
Step(t) ==
  \/ Call(t) \/ RegisterAxis(t)
  \/ Advance(t) \/ BridgeClaim(t) \/ BridgeLoad(t) \/ BridgeSignal(t) \/ BridgeRelease(t)
  \/ BridgeReload(t) \/ AdvanceCheck(t) \/ AdvancePop(t) \/ AdvanceDone(t) \/ AdvanceEach(t)
  \/ IndexNone(t) \/ IndexLoad(t) \/ IndexInsert(t) \/ IndexRecheck(t)
  \/ WaitRefused(t) \/ Wait(t) \/ WaitUnlock(t) \/ CancelWait(t)
  \/ Dispatch(t) \/ DispatchEnd(t) \/ FailAxis(t) \/ FailSemaphore(t) \/ DropSemaphore(t)
  \/ AcquireIdle(t) \/ AcquireNone(t) \/ AcquireCreate(t) \/ ReleaseTimeline(t) \/ DropLease(t)
  \/ IdleLease(t) \/ ReleaseTracker(t) \/ FreeTracker(t)
  \/ JoinBegin(t) \/ JoinMerge(t) \/ JoinPublish(t) \/ JoinWait(t) \/ JoinPublished(t)
  \/ JoinCompleted(t) \/ JoinRequest(t) \/ JoinCancelCheck(t) \/ JoinCancelOwn(t)
  \/ JoinCancelWalk(t) \/ JoinCancelDone(t) \/ JoinDrop(t) \/ JoinFree(t)

Next == \E t \in Threads : Step(t)

Spec == Init /\ [][Next]_vars

\* A thread keeps running, and a client makes all the calls of its script.
FairSpec == Spec /\ \A t \in Threads : WF_vars(Step(t))
----------------------------------------------------------------------------
(* Properties.                                                             *)

Frames == UNION {ToSet(stack[t]) : t \in Threads}

TypeOK ==
  /\ \A ax \in AxisSet :
       /\ entry[ax].epoch \in Nat /\ entry[ax].next_wait \in 1..MaxEpoch
       /\ entry[ax].failure_epoch \in 0..MaxEpoch
  /\ \A ax \in Bridged : semaphore[ax].value \in Nat /\ semaphore[ax].refs \in Nat
  /\ \A w \in AllWaiters :
       /\ waiter[w].state \in {"idle", "pending", "detached", "answered", "withdrawn", "refused"}
       /\ waiter[w].frontier \in [AxisSet -> Nat] /\ waiter[w].at \in AxisSet \cup {None}
  /\ \A j \in Joins :
       /\ join[j].state \in {"idle", "open", "waiting", "freed"}
       /\ join[j].pending \in Nat /\ join[j].cancellation \in 0..2
  /\ \A tl \in ToSet(Timelines) : lease[tl].refs \in Nat /\ lease[tl].last \in Nat
  /\ Cardinality(Occupied) <= Capacity
  /\ mutex \in Threads \cup {None} /\ refs \in Nat

\* No waiter is left behind: when the point a waiter is indexed on has been
\* reached, an advance of that axis is on its way to the index, or the thread
\* that put the waiter there still holds the lock and will look again.
NoWaiterIsStranded ==
  \A ax \in AxisSet : \A w \in Indexed(ax) :
    Reached(ax, waiter[w].frontier[ax]) =>
      \/ ~Unlocked
      \/ \E f \in Frames :
           /\ f.axis = ax /\ f.epoch >= waiter[w].frontier[ax]
           /\ f.pc \in {"claim", "load", "signal", "release", "reload", "check", "pop"}

\* While nobody holds the lock, a pending waiter depends on no point that has
\* failed: failures reach waiters that are indexed on another axis.
NoWaiterOutlivesFailure ==
  Unlocked => \A w \in Pending : FailedAt(waiter[w].frontier) = {}

\* What a callback says holds: OK means that every point was reached, a
\* failure that one of the points failed so, CANCELLED (the tracker was
\* destroyed) that some point was still behind.
AnswerIsTrue ==
  \A w \in AllWaiters : waiter[w].state = "answered" =>
    LET f == waiter[w].frontier
    IN  CASE waiter[w].status = "ok" -> BehindAt(f) = {}
          [] waiter[w].status = "cancelled" -> refs = 0 /\ BehindAt(f) # {}
          [] OTHER -> \E i \in FailedAt(f) : entry[AllAxes[i]].failure = waiter[w].status

\* A waiter is called back by exactly one dispatch: nobody else has it on a
\* list, and a waiter whose cancellation succeeded is on none.
OneDispatch ==
  \A w \in AllWaiters :
    Cardinality(UNION {{<<t, i>> : i \in {k \in 1..Len(stack[t]) : w \in stack[t][k].list}}
                         : t \in Threads})
      = IF waiter[w].state = "detached" THEN 1 ELSE 0

\* A join's axis stands for its inputs: where it has advanced to a join's
\* point all the inputs captured by that join and by the earlier joins of the
\* timeline have been reached, it never passes a point that failed, and a
\* join that is gone has done one or the other.
JoinProvesInputs ==
  /\ \A j \in Joins : join[j].state \in {"waiting", "freed"} =>
       /\ Reached(join[j].axis, join[j].epoch) => BehindAt(join[j].entries) = {}
       /\ join[j].state = "freed" =>
            Reached(join[j].axis, join[j].epoch) \/ FailsPoint(join[j].axis, join[j].epoch)
  /\ \A tl \in ToSet(Timelines) : entry[tl].epoch < entry[tl].failure_epoch

\* The storage of a join is freed once, after its last callback: no frame and
\* no waiter refers to a join that was freed.
JoinOutlivesCallbacks ==
  \A j \in Joins : join[j].state = "freed" =>
    /\ \A f \in Frames : f.join # j /\ f.list \cap ({j} \X (1..MaxChunks)) = {}
    /\ \A i \in 1..MaxChunks : waiter[<<j, i>>].state \notin {"pending", "detached"}

\* A join that has failed waits for nothing else: once it is published and
\* nobody is between recording a failure and the end of the walk, none of its
\* waits is pending.
FailedJoinIsCancelled ==
  \A j \in Joins :
    /\ join[j].failure # "ok" /\ join[j].published
    /\ ~\E f \in Frames : f.join = j /\ f.pc \in {"request", "cancel_failed", "own", "walk"}
    => \A i \in 1..MaxChunks : waiter[<<j, i>>].state # "pending"

\* An idle timeline may be leased again: nobody holds it, it has not failed
\* and all the points handed out on it have been reached.
IdleTimelineIsClean ==
  \A i \in 1..Len(idle) :
    LET tl == idle[i]
    IN  /\ lease[tl].refs = 0 /\ entry[tl].failure = "ok"
        /\ entry[tl].epoch = lease[tl].last
        /\ \A k \in 1..Len(idle) : idle[k] = tl => k = i

\* The steps in which an advance publishes to its bridge.
Bridging(ax) == {f \in Frames : f.axis = ax /\ f.pc \in {"claim", "load", "signal", "release", "reload"}}

\* The bridge receives strictly increasing values, one publisher at a time,
\* while the semaphore is alive, and when no publisher is under way it has
\* the axis's last epoch.
BridgeFollowsAxis ==
  \A ax \in Bridged :
    /\ semaphore[ax].failure # "invalid_argument"
    /\ entry[ax].bridge /\ semaphore[ax].failure = "ok" /\ Bridging(ax) = {} =>
         semaphore[ax].value = entry[ax].epoch
    /\ \A f \in Frames :
         f.axis = ax /\ f.pc \in {"load", "signal", "fail_semaphore"} => semaphore[ax].refs > 0

\* Nobody who waits on an axis is forgotten: waiters hear of the epochs and
\* failures they wait for, and so do the observers of a bridged semaphore.
WaitersAreServed == NoWaiterIsStranded /\ NoWaiterOutlivesFailure /\ BridgeFollowsAxis

\* Every waiter hears once, and what it hears is so.
AnswersAreTrue == AnswerIsTrue /\ OneDispatch

\* A join advances its axis only over reached inputs, and one that fails lets
\* go of its other inputs.
JoinIsSound == JoinProvesInputs /\ FailedJoinIsCancelled

\* Nothing is freed, or leased again, while somebody still uses it.
StorageIsSafe == TypeOK /\ JoinOutlivesCallbacks /\ IdleTimelineIsClean

\* All calls return, all waiters hear or are cancelled, all published joins
\* are reclaimed, and the last release frees the tracker: nothing keeps the
\* lock, nothing waits for a reference that is never dropped.
TrackerDrains ==
  <>[](/\ ~alive /\ Pending = {}
       /\ \A t \in Threads : stack[t] = <<>>
       /\ \A j \in Joins : join[j].state \in {"idle", "freed"})
=============================================================================
