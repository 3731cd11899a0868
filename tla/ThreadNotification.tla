------------------------- MODULE ThreadNotification -------------------------
(***************************************************************************)
(* runtime/src/iree/base/threading/notification.{h,c}, the futex build: an *)
(* event count.  One atomic word holds the epoch and the number of         *)
(* prepared waits; the threads the kernel holds asleep on the epoch are    *)
(* part of the state here.  Every operator is one atomic operation on a    *)
(* notification; the modules that wait and post use them in their actions. *)
(***************************************************************************)
EXTENDS Naturals

notification_initialize == [epoch |-> 0, waiters |-> 0, asleep |-> {}]

\* Returns the epoch as the wait token and counts the wait.
prepare_wait(n) == [n EXCEPT !.waiters = @ + 1]

\* Ends one prepared wait, whether it was committed or not.
cancel_wait(n) == [n EXCEPT !.waiters = @ - 1]

\* The epoch moves; the poster wakes only if a wait was prepared.
post(n) == [n EXCEPT !.epoch = @ + 1]
MustWake(n) == n.waiters # 0

\* The kernel puts a thread to sleep only if the epoch is still its token.
futex_wait(n, t, token) == IF n.epoch = token THEN [n EXCEPT !.asleep = @ \cup {t}] ELSE n
futex_wake(n) == [n EXCEPT !.asleep = {}]

\* What a wait that was committed with the token may return with.
Resolved(n, token) == n.epoch # token

\* Nobody is counted or asleep: deinitialize may free the notification.
Quiet(n) == n.waiters = 0 /\ n.asleep = {}
=============================================================================
