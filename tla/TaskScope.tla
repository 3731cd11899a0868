----------------------------- MODULE TaskScope -----------------------------
(***************************************************************************)
(* runtime/src/iree/task/scope.c: a group of submissions with one failure  *)
(* status and one "idle" notification.                                     *)
(*                                                                         *)
(* The owner begins the submissions one after the other, waits for the     *)
(* scope to be idle and deinitializes it.  Every submission is ended by a  *)
(* thread of its own, which may fail the scope first.  Other threads may   *)
(* consume the failure status.  One action is one atomic operation.        *)
(***************************************************************************)
EXTENDS Integers, FiniteSets

CONSTANTS
  Submissions,   \* submissions, and the threads that end them
  Consumers      \* threads that call iree_task_scope_consume_status once

ASSUME ScopeAssumption == IsFiniteSet(Submissions) /\ Submissions \cap Consumers = {}

\* A status is OK, an allocated status made by a failing submission, or what
\* consume_status leaves behind: a bare code that owns no storage.
OK == [kind |-> "ok"]
Allocated(s) == [kind |-> "full", from |-> s]
CodeOf(status) == [kind |-> "code", from |-> status.from]
Statuses == {OK} \cup {Allocated(s) : s \in Submissions}
                 \cup {CodeOf(Allocated(s)) : s \in Submissions}

VARIABLES
  pendingSubmissions,  \* scope->pending_submissions
  pendingPosts,        \* scope->pending_idle_notification_posts
  permanentStatus,     \* scope->permanent_status
  idleEpoch,           \* epoch of scope->idle_notification
  ownerPc, token,      \* the owner's next operation and its wait token
  workerPc,            \* submission -> what its thread does next
  consumerPc,          \* consumer -> what it does next
  expected,            \* consumer -> old_status of the CAS loop
  taken                \* status -> how often its storage was freed or handed out

vars == <<pendingSubmissions, pendingPosts, permanentStatus, idleEpoch, ownerPc, token,
          workerPc, consumerPc, expected, taken>>

OwnerPcs == {"open", "begin_posts", "wait", "wait_prepare", "wait_recheck",
             "wait_sleep", "deinit", "deinit_spin", "gone"}
WorkerPcs == {"unborn", "begun", "running", "post", "clear", "ended"}

TypeOK ==
  /\ pendingSubmissions \in Nat
  /\ pendingPosts \in {0, 1}
  /\ permanentStatus \in Statuses
  /\ idleEpoch \in Nat /\ token \in Nat
  /\ ownerPc \in OwnerPcs
  /\ workerPc \in [Submissions -> WorkerPcs]
  /\ consumerPc \in [Consumers -> {"ready", "retry", "done"}]
  /\ expected \in [Consumers -> Statuses]
  /\ taken \in [Submissions -> Nat]

Init ==
  /\ pendingSubmissions = 0 /\ pendingPosts = 0
  /\ permanentStatus = OK
  /\ idleEpoch = 0 /\ token = 0
  /\ ownerPc = "open"
  /\ workerPc = [s \in Submissions |-> "unborn"]
  /\ consumerPc = [c \in Consumers |-> "ready"]
  /\ expected = [c \in Consumers |-> OK]
  /\ taken = [s \in Submissions |-> 0]

\* The storage of an allocated status is freed or handed to a caller.
Take(status) ==
  taken' = IF status.kind = "full" THEN [taken EXCEPT ![status.from] = @ + 1] ELSE taken

OwnerGoto(from, to) == ownerPc = from /\ ownerPc' = to
WorkerGoto(s, from, to) == workerPc[s] = from /\ workerPc' = [workerPc EXCEPT ![s] = to]

----------------------------------------------------------------------------
(* The owner: iree_task_scope_begin, _wait_idle, _deinitialize.            *)

BeginCount(s) ==
  /\ OwnerGoto("open", "begin_posts")
  /\ WorkerGoto(s, "unborn", "begun")
  /\ pendingSubmissions' = pendingSubmissions + 1
  /\ UNCHANGED <<pendingPosts, permanentStatus, idleEpoch, token, consumerPc, expected,
                 taken>>

ExpectPost == pendingPosts' = 1

\* begin returns and the submission is handed to its thread.
BeginPosts(s) ==
  /\ OwnerGoto("begin_posts", "open")
  /\ WorkerGoto(s, "begun", "running")
  /\ ExpectPost
  /\ UNCHANGED <<pendingSubmissions, permanentStatus, idleEpoch, token, consumerPc,
                 expected, taken>>

IsIdle == pendingSubmissions = 0

CallWaitIdle ==
  /\ OwnerGoto("open", "wait")
  /\ UNCHANGED <<pendingSubmissions, pendingPosts, permanentStatus, idleEpoch, token,
                 workerPc, consumerPc, expected, taken>>

\* iree_notification_await: test, prepare, test again, sleep.
WaitTest(from, otherwise) ==
  /\ OwnerGoto(from, IF IsIdle THEN "deinit" ELSE otherwise)
  /\ UNCHANGED <<pendingSubmissions, pendingPosts, permanentStatus, idleEpoch, token,
                 workerPc, consumerPc, expected, taken>>

WaitCheck == WaitTest("wait", "wait_prepare")
WaitRecheck == WaitTest("wait_recheck", "wait_sleep")

WaitPrepare ==
  /\ OwnerGoto("wait_prepare", "wait_recheck")
  /\ token' = idleEpoch
  /\ UNCHANGED <<pendingSubmissions, pendingPosts, permanentStatus, idleEpoch, workerPc,
                 consumerPc, expected, taken>>

WaitWoken ==
  /\ idleEpoch # token
  /\ OwnerGoto("wait_sleep", "wait_prepare")
  /\ UNCHANGED <<pendingSubmissions, pendingPosts, permanentStatus, idleEpoch, token,
                 workerPc, consumerPc, expected, taken>>

\* Consumers are done with the scope before its owner takes it down.
DeinitStatus ==
  /\ OwnerGoto("deinit", "deinit_spin")
  /\ \A c \in Consumers : consumerPc[c] # "retry"
  /\ permanentStatus' = OK
  /\ Take(permanentStatus)
  /\ UNCHANGED <<pendingSubmissions, pendingPosts, idleEpoch, token, workerPc, consumerPc,
                 expected>>

DeinitNotification ==
  /\ OwnerGoto("deinit_spin", "gone")
  /\ pendingPosts = 0
  /\ UNCHANGED <<pendingSubmissions, pendingPosts, permanentStatus, idleEpoch, token,
                 workerPc, consumerPc, expected, taken>>

----------------------------------------------------------------------------
(* Submissions: iree_task_scope_fail (or _abort) and iree_task_scope_end.  *)

\* try_set_status: CAS OK -> status, or the new status is freed.
FirstErrorWins(status) ==
  IF permanentStatus = OK THEN permanentStatus' = status /\ UNCHANGED taken
                          ELSE UNCHANGED permanentStatus /\ Take(status)

\* A submission fails the scope at most once here, which keeps the statuses
\* it allocates apart.
Fail(s) ==
  /\ workerPc[s] = "running" /\ taken[s] = 0
  /\ permanentStatus \notin {Allocated(s), CodeOf(Allocated(s))}
  /\ FirstErrorWins(Allocated(s))
  /\ UNCHANGED <<pendingSubmissions, pendingPosts, idleEpoch, ownerPc, token, workerPc,
                 consumerPc, expected>>

\* Mutant of PostsIdle: the submission compares the new value of the counter
\* with one.
PostsIdleOffByOne == pendingSubmissions = 2

\* fetch_sub(pending_submissions) returned one.
PostsIdle == pendingSubmissions = 1

EndCount(s) ==
  /\ WorkerGoto(s, "running", IF PostsIdle THEN "post" ELSE "ended")
  /\ pendingSubmissions' = pendingSubmissions - 1
  /\ UNCHANGED <<pendingPosts, permanentStatus, idleEpoch, ownerPc, token, consumerPc,
                 expected, taken>>

EndPost(s) ==
  /\ WorkerGoto(s, "post", "clear")
  /\ idleEpoch' = idleEpoch + 1
  /\ UNCHANGED <<pendingSubmissions, pendingPosts, permanentStatus, ownerPc, token,
                 consumerPc, expected, taken>>

EndClear(s) ==
  /\ WorkerGoto(s, "clear", "ended")
  /\ pendingPosts' = 0
  /\ UNCHANGED <<pendingSubmissions, permanentStatus, idleEpoch, ownerPc, token,
                 consumerPc, expected, taken>>

----------------------------------------------------------------------------
(* iree_task_scope_consume_status: a CAS loop that leaves the code behind. *)

Alive == ownerPc \notin {"deinit", "deinit_spin", "gone"}

ConsumeFirst(c) ==
  /\ consumerPc[c] = "ready" /\ Alive
  /\ consumerPc' = [consumerPc EXCEPT ![c] = IF permanentStatus = OK THEN "done" ELSE "retry"]
  /\ expected' = [expected EXCEPT ![c] = permanentStatus]
  /\ UNCHANGED <<pendingSubmissions, pendingPosts, permanentStatus, idleEpoch, ownerPc,
                 token, workerPc, taken>>

\* Mutant of Exchanges: a load and a store instead of the CAS.
ExchangesBlindly(c) == expected[c] # OK

\* The CAS finds the status it read before.
Exchanges(c) == permanentStatus = expected[c]

ConsumeTake(c) ==
  /\ consumerPc[c] = "retry" /\ Exchanges(c)
  /\ permanentStatus' = CodeOf(expected[c])
  /\ Take(expected[c])
  /\ consumerPc' = [consumerPc EXCEPT ![c] = "done"]
  /\ UNCHANGED <<pendingSubmissions, pendingPosts, idleEpoch, ownerPc, token, workerPc,
                 expected>>

ConsumeRetry(c) ==
  /\ consumerPc[c] = "retry" /\ ~Exchanges(c)
  /\ expected' = [expected EXCEPT ![c] = permanentStatus]
  /\ UNCHANGED <<pendingSubmissions, pendingPosts, permanentStatus, idleEpoch, ownerPc,
                 token, workerPc, consumerPc, taken>>

----------------------------------------------------------------------------
OwnerStep ==
  \/ WaitCheck \/ WaitPrepare \/ WaitRecheck \/ WaitWoken
  \/ DeinitStatus \/ DeinitNotification
  \/ \E s \in Submissions : BeginPosts(s)

EndStep(s) == EndCount(s) \/ EndPost(s) \/ EndClear(s)

ConsumeStep(c) == ConsumeFirst(c) \/ ConsumeTake(c) \/ ConsumeRetry(c)

Next ==
  \/ OwnerStep \/ CallWaitIdle
  \/ \E s \in Submissions : BeginCount(s) \/ Fail(s) \/ EndStep(s)
  \/ \E c \in Consumers : ConsumeStep(c)

Spec == Init /\ [][Next]_vars

\* Every thread keeps running; submissions end.
FairSpec ==
  /\ Spec
  /\ WF_vars(OwnerStep)
  /\ \A s \in Submissions : WF_vars(EndStep(s))
  /\ \A c \in Consumers : WF_vars(ConsumeStep(c))
----------------------------------------------------------------------------
(* Properties.                                                             *)

\* The storage of a failure status is freed or handed out once, however
\* failing submissions, consumers and the teardown race for it.
StatusTakenOnce ==
  /\ TypeOK
  /\ \A s \in Submissions : taken[s] <= 1

\* A wait for idle returns and the scope can be torn down: the owner neither
\* sleeps through the last end nor spins for ever on pending posts.
TeardownCompletes == ownerPc = "wait" ~> ownerPc = "gone"
=============================================================================
