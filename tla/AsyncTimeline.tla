--------------------------- MODULE AsyncTimeline ---------------------------
(***************************************************************************)
(* What runtime/src/iree/async/semaphore.h promises its clients, without   *)
(* threads, locks, heaps or dispatch lists: a timeline only grows, the     *)
(* first failure is kept, and every timepoint that was accepted is         *)
(* answered once, by a reason that holds, unless its owner took it back.   *)
(* AsyncSemaphore is shown to implement this specification.                *)
(***************************************************************************)
EXTENDS Naturals

CONSTANTS
  Semaphores, Timepoints,
  Failures        \* failure statuses

VARIABLES
  timeline,       \* semaphore -> value
  failure,        \* semaphore -> "ok" or the failure it keeps
  destroyed,      \* semaphores that were destroyed
  promise         \* timepoint -> what its owner was promised

vars == <<timeline, failure, destroyed, promise>>

Idle == [state |-> "idle"]

\* tp waits for semaphore s to reach min; late: s had failed before.
Waiting(s, min, late) == [state |-> "waiting", sem |-> s, min |-> min, late |-> late]
Answered(status) == [state |-> "answered", status |-> status]

Init ==
  /\ timeline \in [Semaphores -> Nat]
  /\ failure = [s \in Semaphores |-> "ok"]
  /\ destroyed = {}
  /\ promise = [tp \in Timepoints |-> Idle]

Advance(s) ==
  /\ timeline'[s] > timeline[s]
  /\ timeline' = [timeline EXCEPT ![s] = timeline'[s]]
  /\ UNCHANGED <<failure, destroyed, promise>>

Fail(s) ==
  /\ failure[s] = "ok"
  /\ \E status \in Failures : failure' = [failure EXCEPT ![s] = status]
  /\ UNCHANGED <<timeline, destroyed, promise>>

Destroy(s) ==
  /\ destroyed' = destroyed \cup {s}
  /\ UNCHANGED <<timeline, failure, promise>>

\* The storage of a timepoint may be used again once it was answered.
Register(tp) ==
  /\ promise[tp].state # "waiting" /\ promise'[tp].state = "waiting"
  /\ LET p == promise'[tp]
     IN  p = Waiting(p.sem, p.min, failure[p.sem] # "ok") /\ p.sem \notin destroyed
  /\ promise' = [promise EXCEPT ![tp] = promise'[tp]]
  /\ UNCHANGED <<timeline, failure, destroyed>>

\* The reasons for which a waiting timepoint may be called back.
Reasons(p) ==
  {status \in {"ok"} \cup Failures \cup {"cancelled"} :
     \/ status = "ok" /\ timeline[p.sem] >= p.min /\ ~p.late
     \/ status # "ok" /\ status = failure[p.sem]
     \/ status = "cancelled" /\ p.sem \in destroyed}

\* Sooner or later a timepoint with a reason is called back.
Answer(tp) ==
  /\ promise[tp].state = "waiting"
  /\ \E status \in Reasons(promise[tp]) :
       promise' = [promise EXCEPT ![tp] = Answered(status)]
  /\ UNCHANGED <<timeline, failure, destroyed>>

\* Its owner cancels it, or the registration was refused: no callback.
Withdraw(tp) ==
  /\ promise[tp].state = "waiting"
  /\ promise' = [promise EXCEPT ![tp] = Idle]
  /\ UNCHANGED <<timeline, failure, destroyed>>

Next ==
  \/ \E s \in Semaphores : Advance(s) \/ Fail(s) \/ Destroy(s)
  \/ \E tp \in Timepoints : Register(tp) \/ Answer(tp) \/ Withdraw(tp)

\* No timepoint with a reason waits for ever (weak fairness of Answer, for a
\* reason once given is never withdrawn).
KeptPromises ==
  \A tp \in Timepoints :
    promise[tp].state = "waiting" /\ Reasons(promise[tp]) # {} ~> promise[tp].state # "waiting"

Spec == Init /\ [][Next]_vars /\ KeptPromises
=============================================================================
