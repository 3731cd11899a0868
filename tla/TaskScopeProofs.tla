-------------------------- MODULE TaskScopeProofs --------------------------
(***************************************************************************)
(* TLAPS proofs about module TaskScope, for any finite set of submissions  *)
(* and any set of consumers.                                               *)
(***************************************************************************)
EXTENDS TaskScope, FiniteSetTheorems, TLAPS

----------------------------------------------------------------------------
(* The inductive invariant.                                                *)

\* The submissions that have begun and not ended.
Open == {s \in Submissions : workerPc[s] \in {"begun", "running"}}

\* pending_submissions counts them, so it is never taken below zero.
PendingIsCount == pendingSubmissions = Cardinality(Open)

\* A status in the scope has not been taken, and a status is taken once.
TakenIsGone ==
  \A s \in Submissions :
    taken[s] <= 1 /\ (permanentStatus = Allocated(s) => taken[s] = 0)

\* A consumer enters its CAS loop with a failure only, and the scope keeps a
\* failure until the teardown, which waits for the consumers.
RetriesFailure ==
  \A c \in Consumers : consumerPc[c] = "retry" => expected[c] # OK /\ permanentStatus # OK

Inv == TypeOK /\ PendingIsCount /\ TakenIsGone /\ RetriesFailure

----------------------------------------------------------------------------
(* Statuses.                                                               *)

\* The status of a submission and the code it leaves behind are statuses,
\* apart from OK, from each other and from those of other submissions.
LEMMA StatusFacts ==
  /\ OK \in Statuses /\ OK.kind = "ok"
  /\ \A s \in Submissions :
       /\ Allocated(s) \in Statuses /\ CodeOf(Allocated(s)) \in Statuses
       /\ Allocated(s).kind = "full" /\ Allocated(s).from = s
       /\ CodeOf(Allocated(s)).kind = "code"
       /\ CodeOf(CodeOf(Allocated(s))) = CodeOf(Allocated(s))
  /\ \A x \in Statuses :
       \/ x = OK
       \/ \E s \in Submissions : x = Allocated(s) \/ x = CodeOf(Allocated(s))
<1>1. OK \in Statuses /\ OK.kind = "ok"
  BY DEF Statuses, OK
<1>2. ASSUME NEW s \in Submissions
      PROVE  /\ Allocated(s) \in Statuses /\ CodeOf(Allocated(s)) \in Statuses
             /\ Allocated(s).kind = "full" /\ Allocated(s).from = s
             /\ CodeOf(Allocated(s)).kind = "code"
             /\ CodeOf(CodeOf(Allocated(s))) = CodeOf(Allocated(s))
  <2>1. Allocated(s) \in Statuses /\ CodeOf(Allocated(s)) \in Statuses
    BY DEF Statuses
  <2>2. Allocated(s).kind = "full" /\ Allocated(s).from = s
    BY DEF Allocated
  <2>3. /\ CodeOf(Allocated(s)).kind = "code"
        /\ CodeOf(CodeOf(Allocated(s))) = CodeOf(Allocated(s))
    BY DEF Allocated, CodeOf
  <2>. QED
    BY <2>1, <2>2, <2>3
<1>3. ASSUME NEW x \in Statuses, x # OK
      PROVE  \E s \in Submissions : x = Allocated(s) \/ x = CodeOf(Allocated(s))
  BY <1>3 DEF Statuses
<1>. QED
  BY <1>1, <1>2, <1>3

\* Taking a status counts it for the submission that allocated it.
LEMMA TakeFacts ==
  ASSUME TypeOK, NEW x \in Statuses, Take(x)
  PROVE  /\ taken' \in [Submissions -> Nat]
         /\ \A s \in Submissions :
              taken'[s] = IF x = Allocated(s) THEN taken[s] + 1 ELSE taken[s]
<1>1. CASE \E s \in Submissions : x = Allocated(s)
  <2>1. PICK s \in Submissions : x = Allocated(s)
    BY <1>1
  <2>2. x.kind = "full" /\ x.from = s
    BY <2>1, StatusFacts
  <2>3. taken' = [taken EXCEPT ![s] = @ + 1]
    BY <2>2 DEF Take
  <2>4. \A r \in Submissions : x = Allocated(r) <=> r = s
    BY <2>1, <2>2, StatusFacts
  <2>. QED
    BY <2>3, <2>4 DEF TypeOK
<1>2. CASE ~ \E s \in Submissions : x = Allocated(s)
  <2>1. x.kind # "full"
    BY <1>2, StatusFacts
  <2>2. taken' = taken
    BY <2>1 DEF Take
  <2>. QED
    BY <1>2, <2>2 DEF TypeOK
<1>. QED
  BY <1>1, <1>2

----------------------------------------------------------------------------
(* The counter.                                                            *)

\* The open submissions are finitely many; beginning one adds one and ending
\* one removes one.
LEMMA OpenIsFinite ==
  ASSUME TypeOK, PendingIsCount
  PROVE  IsFiniteSet(Open) /\ pendingSubmissions \in Nat
BY ScopeAssumption, FS_Subset, FS_CardinalityType DEF Open, PendingIsCount

LEMMA CountAfterStep ==
  ASSUME TypeOK, PendingIsCount, [Next]_vars
  PROVE  PendingIsCount' /\ pendingSubmissions' \in Nat
<1>1. ASSUME NEW s \in Submissions, BeginCount(s)
      PROVE PendingIsCount' /\ pendingSubmissions' \in Nat
  <2>1. Open' = Open \cup {s} /\ s \notin Open
    BY <1>1 DEF BeginCount, WorkerGoto, Open, TypeOK
  <2>2. Cardinality(Open') = Cardinality(Open) + 1
    BY <2>1, OpenIsFinite, FS_AddElement
  <2>. QED
    BY <1>1, <2>2, OpenIsFinite DEF BeginCount, PendingIsCount
<1>2. ASSUME NEW s \in Submissions, EndCount(s)
      PROVE PendingIsCount' /\ pendingSubmissions' \in Nat
  <2>1. Open' = Open \ {s} /\ s \in Open
    BY <1>2 DEF EndCount, WorkerGoto, Open, TypeOK
  <2>2. IsFiniteSet(Open') /\ Cardinality(Open') = Cardinality(Open) - 1
    BY <2>1, OpenIsFinite, FS_RemoveElement
  <2>3. Cardinality(Open') \in Nat
    BY <2>2, FS_CardinalityType
  <2>. QED
    BY <1>2, <2>2, <2>3 DEF EndCount, PendingIsCount
<1>3. ASSUME UNCHANGED pendingSubmissions, Open' = Open
      PROVE PendingIsCount' /\ pendingSubmissions' \in Nat
  BY <1>3, OpenIsFinite DEF PendingIsCount
<1>4. ASSUME UNCHANGED <<pendingSubmissions, workerPc>>
      PROVE PendingIsCount' /\ pendingSubmissions' \in Nat
  BY <1>3, <1>4 DEF Open
<1>5. ASSUME NEW s \in Submissions, BeginPosts(s) \/ EndPost(s) \/ EndClear(s)
      PROVE PendingIsCount' /\ pendingSubmissions' \in Nat
  <2>1. UNCHANGED pendingSubmissions /\ Open' = Open
    BY <1>5 DEF BeginPosts, EndPost, EndClear, WorkerGoto, Open, TypeOK
  <2>. QED
    BY <1>3, <2>1
<1>6. ASSUME NEW c \in Consumers, ConsumeStep(c) PROVE UNCHANGED <<pendingSubmissions, workerPc>>
  BY <1>6 DEF ConsumeStep, ConsumeFirst, ConsumeTake, ConsumeRetry
<1>7. ASSUME NEW s \in Submissions, Fail(s) PROVE UNCHANGED <<pendingSubmissions, workerPc>>
  BY <1>7 DEF Fail
<1>8. ASSUME \/ WaitCheck \/ WaitPrepare \/ WaitRecheck \/ WaitWoken \/ DeinitStatus
             \/ DeinitNotification \/ CallWaitIdle \/ UNCHANGED vars
      PROVE  UNCHANGED <<pendingSubmissions, workerPc>>
  BY <1>8 DEF WaitCheck, WaitPrepare, WaitRecheck, WaitWoken, WaitTest, DeinitStatus,
              DeinitNotification, CallWaitIdle, vars
<1>. QED
  BY <1>1, <1>2, <1>4, <1>5, <1>6, <1>7, <1>8 DEF Next, OwnerStep, EndStep

----------------------------------------------------------------------------
(* Steps.                                                                  *)

LEMMA InitInv == Init => Inv
<1>. SUFFICES ASSUME Init PROVE Inv
  OBVIOUS
<1>1. TypeOK
  BY StatusFacts DEF Init, TypeOK, OwnerPcs, WorkerPcs
<1>2. PendingIsCount
  <2>1. Open = {}
    BY DEF Init, Open
  <2>. QED
    BY <2>1, FS_EmptySet DEF Init, PendingIsCount
<1>. QED
  BY <1>1, <1>2 DEF Init, Inv, TakenIsGone, RetriesFailure

\* The variables keep their types.
LEMMA TypeAfterStep ==
  ASSUME TypeOK, PendingIsCount, RetriesFailure, [Next]_vars PROVE TypeOK'
<1>. USE TypeOK, CountAfterStep, StatusFacts DEF TypeOK, OwnerGoto, WorkerGoto, OwnerPcs, WorkerPcs
<1>1. ASSUME NEW s \in Submissions, BeginCount(s) PROVE TypeOK'
  BY <1>1 DEF BeginCount
<1>2. ASSUME NEW s \in Submissions, BeginPosts(s) PROVE TypeOK'
  BY <1>2 DEF BeginPosts, ExpectPost
<1>3. ASSUME NEW s \in Submissions, Fail(s) PROVE TypeOK'
  BY <1>3, TakeFacts DEF Fail, FirstErrorWins
<1>4. ASSUME NEW s \in Submissions, EndStep(s) PROVE TypeOK'
  BY <1>4 DEF EndStep, EndCount, EndPost, EndClear
<1>5. ASSUME NEW c \in Consumers, ConsumeFirst(c) \/ ConsumeRetry(c) PROVE TypeOK'
  BY <1>5 DEF ConsumeFirst, ConsumeRetry
<1>6. ASSUME NEW c \in Consumers, ConsumeTake(c) PROVE TypeOK'
  <2>1. CodeOf(expected[c]) \in Statuses
    BY <1>6, RetriesFailure DEF ConsumeTake, RetriesFailure
  <2>2. taken' \in [Submissions -> Nat]
    BY <1>6, TakeFacts DEF ConsumeTake
  <2>. QED
    BY <1>6, <2>1, <2>2 DEF ConsumeTake
<1>7. ASSUME \/ WaitCheck \/ WaitPrepare \/ WaitRecheck \/ WaitWoken
             \/ DeinitNotification \/ CallWaitIdle
      PROVE  TypeOK'
  BY <1>7 DEF WaitCheck, WaitPrepare, WaitRecheck, WaitWoken, WaitTest, DeinitNotification,
              CallWaitIdle
<1>8. ASSUME DeinitStatus PROVE TypeOK'
  BY <1>8, TakeFacts DEF DeinitStatus
<1>9. ASSUME UNCHANGED vars PROVE TypeOK'
  BY <1>9 DEF vars
<1>. QED
  BY <1>1, <1>2, <1>3, <1>4, <1>5, <1>6, <1>7, <1>8, <1>9 DEF Next, OwnerStep, ConsumeStep

\* A status is taken once: only the actions that remove the status from the
\* scope, or never put it there, take it.
LEMMA TakenAfterStep ==
  ASSUME Inv, [Next]_vars PROVE TakenIsGone' /\ RetriesFailure'
<1>. USE DEF Inv
<1>1. ASSUME NEW s \in Submissions, Fail(s) PROVE TakenIsGone' /\ RetriesFailure'
  <2>1. RetriesFailure'
    BY <1>1, StatusFacts DEF Fail, FirstErrorWins, RetriesFailure
  <2>2. CASE permanentStatus = OK
    <3>1. \A r \in Submissions : Allocated(s) = Allocated(r) => r = s
      BY StatusFacts
    <3>. QED
      BY <1>1, <2>1, <2>2, <3>1 DEF Fail, FirstErrorWins, TakenIsGone
  <2>3. CASE permanentStatus # OK
    <3>1. /\ permanentStatus' = permanentStatus /\ permanentStatus # Allocated(s)
          /\ taken[s] = 0 /\ Take(Allocated(s))
      BY <1>1, <2>3 DEF Fail, FirstErrorWins
    <3>2. \A r \in Submissions :
            taken'[r] = IF Allocated(s) = Allocated(r) THEN taken[r] + 1 ELSE taken[r]
      BY <3>1, TakeFacts, StatusFacts
    <3>3. \A r \in Submissions : Allocated(s) = Allocated(r) => r = s
      BY StatusFacts
    <3>. QED
      BY <2>1, <3>1, <3>2, <3>3 DEF TakenIsGone
  <2>. QED
    BY <2>2, <2>3
<1>2. ASSUME NEW c \in Consumers, ConsumeTake(c) PROVE TakenIsGone' /\ RetriesFailure'
  <2>1. permanentStatus = expected[c] /\ expected[c] # OK /\ Take(expected[c])
    BY <1>2 DEF ConsumeTake, Exchanges, RetriesFailure
  <2>2. \A s \in Submissions : permanentStatus' # Allocated(s)
    BY <1>2, <2>1, StatusFacts DEF ConsumeTake, TypeOK
  <2>3. \A s \in Submissions :
          taken'[s] = IF permanentStatus = Allocated(s) THEN taken[s] + 1 ELSE taken[s]
    BY <2>1, TakeFacts DEF TypeOK
  <2>4. TakenIsGone'
    BY <2>2, <2>3 DEF TakenIsGone
  <2>5. RetriesFailure'
    <3>1. permanentStatus' # OK
      BY <1>2, <2>1, StatusFacts DEF ConsumeTake, TypeOK
    <3>. QED
      BY <1>2, <3>1 DEF ConsumeTake, RetriesFailure, TypeOK
  <2>. QED
    BY <2>4, <2>5
<1>3. ASSUME NEW c \in Consumers, ConsumeFirst(c) \/ ConsumeRetry(c)
      PROVE TakenIsGone' /\ RetriesFailure'
  <2>1. TakenIsGone'
    BY <1>3 DEF ConsumeFirst, ConsumeRetry, TakenIsGone
  <2>2. CASE ConsumeFirst(c)
    BY <2>1, <2>2 DEF ConsumeFirst, RetriesFailure, TypeOK
  <2>3. CASE ConsumeRetry(c)
    BY <2>1, <2>3 DEF ConsumeRetry, RetriesFailure, TypeOK, Exchanges
  <2>. QED
    BY <1>3, <2>2, <2>3
<1>4. ASSUME DeinitStatus PROVE TakenIsGone' /\ RetriesFailure'
  <2>1. \A s \in Submissions :
          taken'[s] = IF permanentStatus = Allocated(s) THEN taken[s] + 1 ELSE taken[s]
    BY <1>4, TakeFacts DEF DeinitStatus, TypeOK
  <2>2. \A s \in Submissions : permanentStatus' # Allocated(s)
    BY <1>4, StatusFacts DEF DeinitStatus
  <2>. QED
    BY <1>4, <2>1, <2>2 DEF DeinitStatus, TakenIsGone, RetriesFailure
<1>5. ASSUME UNCHANGED <<permanentStatus, consumerPc, expected, taken>>
      PROVE TakenIsGone' /\ RetriesFailure'
  BY <1>5 DEF TakenIsGone, RetriesFailure
<1>6. ASSUME NEW s \in Submissions, BeginCount(s) \/ BeginPosts(s) \/ EndStep(s)
      PROVE  UNCHANGED <<permanentStatus, consumerPc, expected, taken>>
  BY <1>6 DEF BeginCount, BeginPosts, EndStep, EndCount, EndPost, EndClear
<1>7. ASSUME \/ WaitCheck \/ WaitPrepare \/ WaitRecheck \/ WaitWoken
             \/ DeinitNotification \/ CallWaitIdle \/ UNCHANGED vars
      PROVE  UNCHANGED <<permanentStatus, consumerPc, expected, taken>>
  BY <1>7 DEF WaitCheck, WaitPrepare, WaitRecheck, WaitWoken, WaitTest, DeinitNotification,
              CallWaitIdle, vars
<1>. QED
  BY <1>1, <1>2, <1>3, <1>4, <1>5, <1>6, <1>7 DEF Next, OwnerStep, ConsumeStep

----------------------------------------------------------------------------
(* Theorems.                                                               *)

\* The invariant holds in every reachable state.
THEOREM Invariance == Spec => []Inv
<1>1. Inv /\ [Next]_vars => Inv'
  BY CountAfterStep, TypeAfterStep, TakenAfterStep DEF Inv
<1>. QED
  BY InitInv, <1>1, PTL DEF Spec

\* iree_task_scope_fail, _consume_status and _deinitialize: the storage of a
\* failure status is freed or handed out at most once, for any number of
\* failing submissions and consumers.
THEOREM StatusOwnership == Spec => []StatusTakenOnce
<1>1. Inv => StatusTakenOnce
  BY DEF Inv, TakenIsGone, StatusTakenOnce
<1>. QED
  BY Invariance, <1>1, PTL
=============================================================================
