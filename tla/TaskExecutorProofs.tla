------------------------- MODULE TaskExecutorProofs -------------------------
(***************************************************************************)
(* TLAPS proofs about module TaskExecutor, for any number of workers, any  *)
(* finite set of producers, any wake budgets and any fanout.               *)
(***************************************************************************)
EXTENDS TaskExecutor, FiniteSetTheorems, TLAPS

----------------------------------------------------------------------------
(* The inductive invariant: sleeping and waking.                           *)

\* Between which operations each kind of thread is inside a call.
DestroyPcs == {"destroy"} \cup RequestPcs \cup AwaitPcs
ProducerPcs == {"ready", "done", "finalize"} \cup WakePcs \cup DestroyPcs
WorkerPcs == Pcs \ (AwaitPcs \cup {"ready"})

\* A wake call knows how many wakes it was asked for, and a claimed worker
\* leaves one to deliver.  Only workers in the claim loop relay.
ClaimInv ==
  /\ \A t \in Threads :
       /\ Waking(t) /\ pc[t] # "seed" => budget[t] > 0
       /\ pc[t] \in {"bump", "load_mask"} /\ t \notin relaying => remaining[t] = budget[t]
       /\ pc[t] = "post" => remaining[t] > 0
  /\ \A w \in relaying : pc[w] \in {"load_mask", "claim", "post"}

\* A token is not ahead of the notification, and an epoch not of the executor.
TokenInv ==
  \A w \in Workers : token[w] <= notifyEpoch[w] /\ epochSeen[w] <= wakeEpoch

\* A worker that has enrolled before it commits its wait stays reachable.
EnrolledIsReachable ==
  \A w \in Workers :
    pc[w] \in {"recheck", "asleep"} /\ notifyEpoch[w] = token[w] =>
      w \in idleMask \/ \E t \in Threads : pc[t] = "post" /\ target[t] = w

\* Before shutdown only workers that sleep, or are about to mark themselves
\* active, are enrolled.
EnrolledPcs == {"start", "prepare", "snapshot", "mark_active", "recheck", "asleep"}
EnrolledIsInactive ==
  ~ShuttingDown => \A w \in idleMask : pc[w] \in EnrolledPcs /\ ~isActive[w]

\* The publishers that have not announced their unit, and those that have
\* not yet claimed anybody and still have worker w in view.
Bumping == {t \in Threads : pc[t] = "bump"}
Publishing(w) ==
  {t \in Threads \ relaying :
     \/ pc[t] \in {"bump", "load_mask"}
     \/ pc[t] = "claim" /\ remaining[t] = budget[t] /\ w \in mask[t]}

\* The workers that nobody can claim and that will scan before they sleep or
\* will be posted.
ComingPcs == {"start", "prepare", "snapshot", "mark_active", "relay", "check_exit", "scan",
              "recheck", "asleep"}
Coming == {v \in Workers \ idleMask : pc[v] \in ComingPcs \/ v \in relaying}

\* The published units a worker has missed are accounted for.  Those a worker
\* with a current epoch has missed have not been announced.  Those a sleeper
\* has missed have a publisher that will see the sleeper, or a worker of their
\* own that comes to take one.
UnitsAreCovered ==
  ~ShuttingDown =>
    \A w \in Workers :
      /\ pc[w] \in {"mark_idle", "recheck"} /\ epochSeen[w] = wakeEpoch =>
           pending <= Cardinality(Bumping)
      /\ pc[w] = "asleep" /\ w \in idleMask =>
           pending <= Cardinality(Publishing(w)) + Cardinality(Coming)

----------------------------------------------------------------------------
(* The inductive invariant: shutdown.                                      *)

\* The producers that own a reference.
Holders == {p \in Producers : pc[p] \in {"ready"} \cup WakePcs}
RefInv == refCount = Cardinality(Holders) + givenRefs

\* Nothing of the shutdown happens before the last reference is dropped.
Calm ==
  /\ \A w \in Workers : workerState[w] = "RUNNING" /\ pc[w] \in WakePcs \cup PumpPcs \cup {"drain"}
  /\ \A p \in Producers : pc[p] \in {"ready", "done"} \cup WakePcs
  /\ ~awaiting /\ deinitialized = {} /\ ~freed
CalmInv == ~ShuttingDown => Calm

\* One thread destroys; a worker never awaits.
Destroying(t) == pc[t] \in DestroyPcs \cup {"finalize"}
DestroyInv ==
  /\ \A t, u \in Threads : Destroying(t) /\ Destroying(u) => t = u
  /\ \A p \in Producers : pc[p] \in ProducerPcs
  /\ \A w \in Workers : pc[w] \in WorkerPcs
  /\ \A t \in Threads :
       /\ pc[t] \in RequestPcs \cup AwaitPcs \cup {"finalize"} => (releaseOnExit <=> t \in Workers)
       /\ pc[t] \in AwaitPcs => awaiting
       /\ pc[t] \in AwaitPcs \cup {"restore", "request_post"} => exitIndex \in Workers
       /\ pc[t] = "destroy" => ~awaiting
  /\ awaiting => ~releaseOnExit

\* The workers whose state is final.
GonePcs == {"post_state", "exit_mode", "exit_count", "finalize", "done"}
Leaving(w) == pc[w] \in {"exit_idle", "zombie"} \cup GonePcs

\* A zombie has left its loop, and is seen otherwise only by the request that
\* is about to put the state back; the mode of the shutdown is settled before
\* the first worker is asked to exit.
ZombieInv ==
  /\ \A w \in Workers :
       /\ workerState[w] = "ZOMBIE" => pc[w] \in GonePcs
       /\ pc[w] \in GonePcs =>
            workerState[w] = "ZOMBIE" \/ \E t \in Threads : pc[t] = "restore" /\ exitIndex = w
       /\ Leaving(w) \/ workerState[w] = "EXITING" =>
            ShuttingDown /\ \A t \in Threads : pc[t] # "destroy"
       /\ pc[w] \in {"exit_count", "finalize", "done"} => exitMode[w] = releaseOnExit
  /\ \A t \in Threads : pc[t] = "restore" => pc[exitIndex] \in GonePcs

\* live_worker_count counts the workers that have not left, and the last one
\* of them finalizes only in the absence of all others.
Present == {w \in Workers : pc[w] \notin {"finalize", "done"}}
LiveInv ==
  /\ liveWorkers = Cardinality(Present)
  /\ \A w \in Workers : pc[w] = "finalize" => Present = {}

\* Destroy awaits the workers in order; whoever finalizes finds them gone.
AwaitInv ==
  /\ \A t \in Threads : pc[t] \in RequestPcs \cup AwaitPcs /\ awaiting =>
       \A i \in Workers : i < exitIndex => pc[i] \in GonePcs
  /\ \A t \in Threads : pc[t] = "finalize" => \A i \in Workers : pc[i] \in GonePcs

\* Finalize deinitializes in order what it has joined.
FinalizeInv ==
  /\ \A t \in Threads : pc[t] = "finalize" =>
       /\ ~freed /\ deinitialized = {i \in Workers : i < exitIndex}
       /\ \A i \in deinitialized : i = t \/ pc[i] = "done"
  /\ (\A t \in Threads : pc[t] # "finalize") /\ ~freed => deinitialized = {}
  /\ freed => deinitialized = Workers /\ \A t \in Threads : pc[t] = "done"

WakeInv ==
  ClaimInv /\ TokenInv /\ EnrolledIsReachable /\ EnrolledIsInactive /\ UnitsAreCovered
ShutdownInv ==
  RefInv /\ CalmInv /\ DestroyInv /\ ZombieInv /\ LiveInv /\ AwaitInv /\ FinalizeInv
Inv == TypeOK /\ WakeInv /\ ShutdownInv

----------------------------------------------------------------------------
(* Finite sets of threads.                                                 *)

LEMMA ThreadsAreFinite == IsFiniteSet(Workers) /\ IsFiniteSet(Threads)
<1>1. WorkerCount \in Nat /\ 1 \in Int
  BY WorkerAssumption
<1>2. IsFiniteSet(Workers)
  BY <1>1, FS_Interval DEF Workers
<1>. QED
  BY <1>2, BudgetAssumption, FS_Union DEF Threads

\* The sizes of sets of threads: they are numbers, and grow with the sets.
LEMMA Sizes ==
  /\ \A S \in SUBSET Threads : IsFiniteSet(S) /\ Cardinality(S) \in Nat
  /\ \A S, T \in SUBSET Threads : S \subseteq T => Cardinality(S) <= Cardinality(T)
  /\ \A S \in SUBSET Threads : \A t \in Threads :
       /\ t \notin S => Cardinality(S \cup {t}) = Cardinality(S) + 1
       /\ t \in S => Cardinality(S \ {t}) = Cardinality(S) - 1
  /\ \A S \in SUBSET Threads : Cardinality(S) = 0 => S = {}
  /\ Cardinality({}) = 0
<1>1. \A S \in SUBSET Threads : IsFiniteSet(S)
  BY ThreadsAreFinite, FS_Subset
<1>2. \A S \in SUBSET Threads : Cardinality(S) \in Nat
  BY <1>1, FS_CardinalityType
<1>3. \A S, T \in SUBSET Threads : S \subseteq T => Cardinality(S) <= Cardinality(T)
  BY <1>1, FS_Subset
<1>4. \A S \in SUBSET Threads : \A t \in Threads :
        /\ t \notin S => Cardinality(S \cup {t}) = Cardinality(S) + 1
        /\ t \in S => Cardinality(S \ {t}) = Cardinality(S) - 1
  BY <1>1, FS_AddElement, FS_RemoveElement
<1>5. \A S \in SUBSET Threads : Cardinality(S) = 0 => S = {}
  BY <1>1, FS_EmptySet
<1>. QED
  BY <1>1, <1>2, <1>3, <1>4, <1>5, FS_EmptySet

LEMMA Kinds ==
  /\ Workers \subseteq Threads /\ Producers \subseteq Threads /\ Workers \cap Producers = {}
  /\ \A t \in Threads : t \in Producers <=> t \notin Workers
  /\ WorkerCount \in Nat \ {0} /\ 1 \in Workers
  /\ \A i : i \in Workers <=> i \in Nat /\ 1 <= i /\ i <= WorkerCount
  /\ {} \subseteq Threads
BY WorkerAssumption DEF Threads, Workers

----------------------------------------------------------------------------
(* Type correctness.                                                       *)

LEMMA TypeKept == Inv /\ Next => TypeOK'
<1>. SUFFICES ASSUME Inv, Next PROVE TypeOK'
  OBVIOUS
<1>. USE DEF wakeVars, shutdownVars, pumpVars, claimVars, Goto, Pcs, WakePcs, PumpPcs, ExitPcs, RequestPcs, AwaitPcs
<1>0. TypeOK /\ ClaimInv /\ DestroyInv
  BY DEF Inv, WakeInv, ShutdownInv
<1>1. ASSUME NEW t \in Threads, WakeBump(t) PROVE TypeOK'
  BY <1>0, <1>1, Kinds DEF TypeOK, WakeBump, AdvanceWakeEpoch
<1>2. ASSUME NEW t \in Threads, WakeLoadMask(t) PROVE TypeOK'
  BY <1>0, <1>2, Kinds DEF TypeOK, WakeLoadMask
<1>3. ASSUME NEW t \in Threads, ClaimPost(t) PROVE TypeOK'
  BY <1>0, <1>3, Kinds DEF TypeOK, ClaimPost, Post, ClaimInv
<1>4. ASSUME NEW t \in Threads, WakeDelivered(t) PROVE TypeOK'
  BY <1>0, <1>4, Kinds DEF TypeOK, WakeDelivered, ForgetClaims, CallerPc
<1>5. ASSUME NEW t \in Threads, WakeExhausted(t) PROVE TypeOK'
  BY <1>0, <1>5, Kinds DEF TypeOK, WakeExhausted
<1>6. ASSUME NEW t \in Threads, WakeDemand(t) PROVE TypeOK'
  BY <1>0, <1>6, Kinds DEF TypeOK, WakeDemand, ForgetClaims, CallerPc
<1>7. ASSUME NEW t \in Threads, WakeSeed(t) PROVE TypeOK'
  BY <1>0, <1>7, Kinds DEF TypeOK, WakeSeed, Post, CallerPc
<1>8. ASSUME NEW w \in Workers, WorkerStart(w) PROVE TypeOK'
  BY <1>0, <1>8, Kinds DEF TypeOK, WorkerStart
<1>9. ASSUME NEW w \in Workers, PrepareWait(w) PROVE TypeOK'
  BY <1>0, <1>9, Kinds DEF TypeOK, PrepareWait
<1>10. ASSUME NEW w \in Workers, SnapshotEpoch(w) PROVE TypeOK'
  BY <1>0, <1>10, Kinds DEF TypeOK, SnapshotEpoch, ReadEpoch
<1>11. ASSUME NEW w \in Workers, MarkActive(w) PROVE TypeOK'
  BY <1>0, <1>11, Kinds DEF TypeOK, MarkActive
<1>12. ASSUME NEW w \in Workers, RelayClaim(w) PROVE TypeOK'
  BY <1>0, <1>12, Kinds, BudgetAssumption DEF TypeOK, RelayClaim, Share
<1>13. ASSUME NEW w \in Workers, RelayDone(w) PROVE TypeOK'
  BY <1>0, <1>13, Kinds DEF TypeOK, RelayDone, ForgetClaims
<1>14. ASSUME NEW w \in Workers, CheckExit(w) PROVE TypeOK'
  BY <1>0, <1>14, Kinds DEF TypeOK, CheckExit
<1>15. ASSUME NEW w \in Workers, ScanTake(w) PROVE TypeOK'
  BY <1>0, <1>15, Kinds DEF TypeOK, ScanTake
<1>16. ASSUME NEW w \in Workers, ScanEmpty(w) PROVE TypeOK'
  BY <1>0, <1>16, Kinds DEF TypeOK, ScanEmpty
<1>17. ASSUME NEW w \in Workers, MarkIdle(w) PROVE TypeOK'
  BY <1>0, <1>17, Kinds DEF TypeOK, MarkIdle, Enroll
<1>18. ASSUME NEW w \in Workers, RecheckEpoch(w) PROVE TypeOK'
  BY <1>0, <1>18, Kinds DEF TypeOK, RecheckEpoch
<1>19. ASSUME NEW w \in Workers, CommitWait(w) PROVE TypeOK'
  BY <1>0, <1>19, Kinds DEF TypeOK, CommitWait
<1>20. ASSUME NEW w \in Workers, DrainReturn(w) PROVE TypeOK'
  BY <1>0, <1>20, Kinds DEF TypeOK, DrainReturn
<1>21. ASSUME NEW w \in Workers, DrainRelease(w) PROVE TypeOK'
  BY <1>0, <1>21, Kinds DEF TypeOK, DrainRelease, ReleaseReference
<1>22. ASSUME NEW w \in Workers, ExitMarkIdle(w) PROVE TypeOK'
  BY <1>0, <1>22, Kinds DEF TypeOK, ExitMarkIdle
<1>23. ASSUME NEW w \in Workers, ExitZombie(w) PROVE TypeOK'
  BY <1>0, <1>23, Kinds DEF TypeOK, ExitZombie
<1>24. ASSUME NEW w \in Workers, ExitPostState(w) PROVE TypeOK'
  BY <1>0, <1>24, Kinds DEF TypeOK, ExitPostState
<1>25. ASSUME NEW w \in Workers, ExitReadMode(w) PROVE TypeOK'
  BY <1>0, <1>25, Kinds DEF TypeOK, ExitReadMode
<1>26. ASSUME NEW w \in Workers, ExitCount(w) PROVE TypeOK'
  BY <1>0, <1>26, Kinds DEF TypeOK, ExitCount
<1>27. ASSUME NEW t \in Threads, DestroyBegin(t) PROVE TypeOK'
  BY <1>0, <1>27, Kinds DEF TypeOK, DestroyBegin
<1>28. ASSUME NEW t \in Threads, RequestExit(t) PROVE TypeOK'
  BY <1>0, <1>28, Kinds DEF TypeOK, RequestExit, DestroyInv
<1>29. ASSUME NEW t \in Threads, RequestRestore(t) PROVE TypeOK'
  BY <1>0, <1>29, Kinds DEF TypeOK, RequestRestore, RestoreZombie, DestroyInv
<1>30. ASSUME NEW t \in Threads, RequestPost(t) PROVE TypeOK'
  BY <1>0, <1>30, Kinds DEF TypeOK, RequestPost, Post, DestroyInv
<1>31. ASSUME NEW t \in Threads, RequestsDone(t) PROVE TypeOK'
  BY <1>0, <1>31, Kinds DEF TypeOK, RequestsDone
<1>32. ASSUME NEW t \in Threads, AwaitCheck(t) PROVE TypeOK'
  BY <1>0, <1>32, Kinds DEF TypeOK, AwaitCheck, AwaitTest, DestroyInv
<1>33. ASSUME NEW t \in Threads, AwaitPrepare(t) PROVE TypeOK'
  BY <1>0, <1>33, Kinds DEF TypeOK, AwaitPrepare, DestroyInv
<1>34. ASSUME NEW t \in Threads, AwaitRecheck(t) PROVE TypeOK'
  BY <1>0, <1>34, Kinds DEF TypeOK, AwaitRecheck, AwaitTest, DestroyInv
<1>35. ASSUME NEW t \in Threads, AwaitWoken(t) PROVE TypeOK'
  BY <1>0, <1>35, Kinds DEF TypeOK, AwaitWoken
<1>36. ASSUME NEW t \in Threads, AwaitsDone(t) PROVE TypeOK'
  BY <1>0, <1>36, Kinds DEF TypeOK, AwaitsDone, EveryoneAwaited
<1>37. ASSUME NEW t \in Threads, FinalizeWorker(t) PROVE TypeOK'
  BY <1>0, <1>37, Kinds DEF TypeOK, FinalizeWorker
<1>38. ASSUME NEW t \in Threads, FinalizeFree(t) PROVE TypeOK'
  BY <1>0, <1>38, Kinds DEF TypeOK, FinalizeFree
<1>39. ASSUME NEW t \in Releasers, ProducerRelease(t) PROVE TypeOK'
  BY <1>0, <1>39, Kinds, BudgetAssumption DEF TypeOK, ProducerRelease, ReleaseReference
<1>40. ASSUME NEW t \in Threads, NEW w \in Workers, ClaimBit(t, w) \/ ClaimMiss(t, w) PROVE TypeOK'
  <2>1. CASE ClaimBit(t, w)
    BY <1>0, <2>1, Kinds DEF TypeOK, ClaimBit
  <2>2. CASE ClaimMiss(t, w)
    BY <1>0, <2>2, Kinds DEF TypeOK, ClaimMiss
  <2>. QED
    BY <1>40, <2>1, <2>2
<1>41. ASSUME NEW t \in Threads, NEW n \in Budgets, NEW keep \in Keeps, CallSchedule(t, n, keep) PROVE TypeOK'
  BY <1>0, <1>41, Kinds, BudgetAssumption DEF TypeOK, CallSchedule, CallerPc
<1>. QED
  BY <1>1, <1>2, <1>3, <1>4, <1>5, <1>6, <1>7, <1>8, <1>9, <1>10, <1>11, <1>12, <1>13, <1>14,
     <1>15, <1>16, <1>17, <1>18, <1>19, <1>20, <1>21, <1>22, <1>23, <1>24, <1>25, <1>26, <1>27,
     <1>28, <1>29, <1>30, <1>31, <1>32, <1>33, <1>34, <1>35, <1>36, <1>37, <1>38, <1>39, <1>40,
     <1>41
  DEF Next, WakeStep, PumpStep, ExitStep, DestroyStep

----------------------------------------------------------------------------
(* The shutdown invariant.                                                 *)

\* Where a worker, and a producer with a reference, work as usual.
ActivePcs(t) ==
  IF t \in Workers THEN WakePcs \cup PumpPcs \cup {"drain"} ELSE {"ready"} \cup WakePcs

\* What every step of such a thread leaves alone.
StateVars == <<workerState, releaseOnExit, liveWorkers, deinitialized, freed, exitMode,
               exitIndex, awaiting>>

\* Thread t goes about its work, and references are at most passed on.
Works(t) ==
  /\ \E x : pc' = [pc EXCEPT ![t] = x] /\ x \in ActivePcs(t)
  /\ pc[t] \in ActivePcs(t)
  /\ UNCHANGED StateVars
  /\ refCount' - givenRefs' = refCount - givenRefs
  /\ ShuttingDown' <=> ShuttingDown

LEMMA PcSets ==
  /\ WakePcs = {"bump", "load_mask", "claim", "post", "demand", "seed"}
  /\ PumpPcs = {"start", "prepare", "snapshot", "mark_active", "relay", "check_exit",
                "scan", "drain", "mark_idle", "recheck", "asleep"}
  /\ RequestPcs = {"request", "restore", "request_post"}
  /\ AwaitPcs = {"await", "await_prepare", "await_recheck", "await_sleep"}
  /\ DestroyPcs = {"destroy", "request", "restore", "request_post",
                   "await", "await_prepare", "await_recheck", "await_sleep"}
  /\ GonePcs = {"post_state", "exit_mode", "exit_count", "finalize", "done"}
BY DEF WakePcs, PumpPcs, RequestPcs, AwaitPcs, DestroyPcs, GonePcs

LEMMA WorkKeepsShutdown ==
  ASSUME TypeOK, TypeOK', ShutdownInv, NEW t \in Threads, Works(t)
  PROVE  ShutdownInv'
<1>1. PICK x : pc' = [pc EXCEPT ![t] = x] /\ x \in ActivePcs(t)
  BY DEF Works
<1>2. /\ pc \in [Threads -> Pcs] /\ refCount \in Nat /\ givenRefs \in Nat
      /\ refCount' \in Nat /\ givenRefs' \in Nat
  BY DEF TypeOK
<1>3. pc[t] \in ActivePcs(t) /\ pc'[t] = x /\ \A u \in Threads : u # t => pc'[u] = pc[u]
  BY <1>1, <1>2 DEF Works
<1>4. /\ UNCHANGED <<workerState, releaseOnExit, liveWorkers, deinitialized, freed, exitMode,
                     exitIndex, awaiting>>
      /\ refCount' - givenRefs' = refCount - givenRefs
      /\ (refCount' = 0) <=> (refCount = 0)
  BY DEF Works, StateVars, ShuttingDown
<1>5. /\ x \notin DestroyPcs \cup GonePcs \cup {"exit_idle", "zombie", "destroy"}
      /\ pc[t] \notin DestroyPcs \cup GonePcs \cup {"exit_idle", "zombie", "destroy"}
      /\ t \in Workers => x \in WakePcs \cup PumpPcs \cup {"drain"}
      /\ t \in Producers => x \in {"ready"} \cup WakePcs /\ pc[t] \in {"ready"} \cup WakePcs
  BY <1>1, <1>3, PcSets, Kinds DEF ActivePcs
<1>6. Holders' = Holders /\ Present' = Present
  BY <1>3, <1>5, PcSets, Kinds DEF Holders, Present
<1>7. RefInv'
  <2>1. Holders \in SUBSET Threads
    BY Kinds DEF Holders
  <2>2. Cardinality(Holders) \in Nat
    BY <2>1, Sizes
  <2>3. refCount' = Cardinality(Holders) + givenRefs'
    BY <1>2, <1>4, <2>2 DEF ShutdownInv, RefInv
  <2>. QED
    BY <1>6, <2>3 DEF RefInv
<1>8. CalmInv'
  BY <1>3, <1>4, <1>5, Kinds DEF ShutdownInv, CalmInv, Calm, ShuttingDown
<1>9. DestroyInv'
  BY <1>3, <1>4, <1>5, PcSets, Kinds
  DEF ShutdownInv, DestroyInv, Destroying, ProducerPcs, WorkerPcs, Pcs
<1>10. ZombieInv'
  <2>1. ZombieInv /\ \A u \in Threads : pc[u] = "restore" => exitIndex \in Workers
    BY DEF ShutdownInv, DestroyInv
  <2>2. \A w \in Workers : pc'[w] \in GonePcs <=> pc[w] \in GonePcs
    BY <1>3, <1>5, Kinds
  <2>3. \A u \in Threads : pc'[u] = "restore" <=> pc[u] = "restore"
    BY <1>3, <1>5, PcSets
  <2>4. \A w \in Workers : pc[w] \in GonePcs =>
          workerState[w] = "ZOMBIE" \/ \E u \in Threads : pc'[u] = "restore" /\ exitIndex' = w
    BY <1>4, <2>1, <2>3 DEF ZombieInv
  <2>. QED
    BY <1>3, <1>4, <1>5, <2>1, <2>2, <2>3, <2>4, PcSets, Kinds
    DEF ZombieInv, Leaving, ShuttingDown
<1>11. LiveInv'
  BY <1>3, <1>4, <1>5, <1>6, PcSets, Kinds DEF ShutdownInv, LiveInv
<1>12. AwaitInv'
  BY <1>3, <1>4, <1>5, PcSets, Kinds DEF ShutdownInv, AwaitInv
<1>13. FinalizeInv'
  BY <1>3, <1>4, <1>5, PcSets, Kinds DEF ShutdownInv, FinalizeInv
<1>. QED
  BY <1>7, <1>8, <1>9, <1>10, <1>11, <1>12, <1>13 DEF ShutdownInv

\* The steps of the wake calls and of the loop of a worker are such steps.
LEMMA WorkSteps ==
  ASSUME Inv
  PROVE  /\ \A t \in Threads : WakeStep(t) => Works(t)
         /\ \A t \in Threads, n \in Budgets, keep \in Keeps : CallSchedule(t, n, keep) => Works(t)
         /\ \A w \in Workers : DrainReturn(w) => Works(w)
         /\ \A w \in Workers : PumpStep(w) /\ ~WorkerStart(w) /\ ~CheckExit(w) => Works(w)
<1>0. refCount \in Nat /\ givenRefs \in Nat 
  BY DEF Inv, TypeOK
<1>. USE DEF Goto, wakeVars, shutdownVars, pumpVars, claimVars, StateVars, Works, ActivePcs, ShuttingDown, WakePcs, PumpPcs, CallerPc
<1>1. ASSUME NEW t \in Threads, WakeBump(t) PROVE Works(t)
  BY <1>0, Kinds, <1>1 DEF WakeBump
<1>2. ASSUME NEW t \in Threads, WakeLoadMask(t) PROVE Works(t)
  BY <1>0, Kinds, <1>2 DEF WakeLoadMask
<1>3. ASSUME NEW t \in Threads, ClaimPost(t) PROVE Works(t)
  BY <1>0, Kinds, <1>3 DEF ClaimPost
<1>4. ASSUME NEW t \in Threads, WakeDelivered(t) PROVE Works(t)
  BY <1>0, Kinds, <1>4 DEF WakeDelivered
<1>5. ASSUME NEW t \in Threads, WakeExhausted(t) PROVE Works(t)
  BY <1>0, Kinds, <1>5 DEF WakeExhausted
<1>6. ASSUME NEW t \in Threads, WakeDemand(t) PROVE Works(t)
  BY <1>0, Kinds, <1>6 DEF WakeDemand
<1>7. ASSUME NEW t \in Threads, WakeSeed(t) PROVE Works(t)
  BY <1>0, Kinds, <1>7 DEF WakeSeed
<1>8. ASSUME NEW t \in Threads, NEW w \in Workers, ClaimBit(t, w) \/ ClaimMiss(t, w) PROVE Works(t)
  <2>1. CASE ClaimBit(t, w)
    BY <1>0, Kinds, <2>1 DEF ClaimBit
  <2>2. CASE ClaimMiss(t, w)
    <3>1. pc' = [pc EXCEPT ![t] = "claim"] /\ pc[t] = "claim"
      BY <2>2 DEF ClaimMiss, Inv, TypeOK
    <3>. QED
      BY <1>0, Kinds, <2>2, <3>1 DEF ClaimMiss
  <2>. QED
    BY <1>8, <2>1, <2>2
<1>9. ASSUME NEW t \in Threads, NEW n \in Budgets, NEW keep \in Keeps, CallSchedule(t, n, keep) PROVE Works(t)
  <2>1. \/ refCount' = refCount + 1 /\ givenRefs' = givenRefs + 1 /\ refCount > 0
        \/ refCount' = refCount + 0 /\ givenRefs' = givenRefs + 0
    BY <1>9 DEF CallSchedule
  <2>2. refCount' - givenRefs' = refCount - givenRefs /\ (ShuttingDown' <=> ShuttingDown)
    BY <1>0, <2>1
  <2>. QED
    BY <1>9, <2>2, Kinds DEF CallSchedule
<1>10. ASSUME NEW w \in Workers, PrepareWait(w) PROVE Works(w)
  BY <1>0, Kinds, <1>10 DEF PrepareWait
<1>11. ASSUME NEW w \in Workers, SnapshotEpoch(w) PROVE Works(w)
  BY <1>0, Kinds, <1>11 DEF SnapshotEpoch
<1>12. ASSUME NEW w \in Workers, MarkActive(w) PROVE Works(w)
  BY <1>0, Kinds, <1>12 DEF MarkActive
<1>13. ASSUME NEW w \in Workers, RelayClaim(w) PROVE Works(w)
  BY <1>0, Kinds, <1>13 DEF RelayClaim
<1>14. ASSUME NEW w \in Workers, RelayDone(w) PROVE Works(w)
  BY <1>0, Kinds, <1>14 DEF RelayDone
<1>15. ASSUME NEW w \in Workers, ScanTake(w) PROVE Works(w)
  BY <1>0, Kinds, <1>15 DEF ScanTake
<1>16. ASSUME NEW w \in Workers, ScanEmpty(w) PROVE Works(w)
  BY <1>0, Kinds, <1>16 DEF ScanEmpty
<1>17. ASSUME NEW w \in Workers, MarkIdle(w) PROVE Works(w)
  BY <1>0, Kinds, <1>17 DEF MarkIdle
<1>18. ASSUME NEW w \in Workers, RecheckEpoch(w) PROVE Works(w)
  BY <1>0, Kinds, <1>18 DEF RecheckEpoch
<1>19. ASSUME NEW w \in Workers, CommitWait(w) PROVE Works(w)
  BY <1>0, Kinds, <1>19 DEF CommitWait
<1>20. ASSUME NEW w \in Workers, DrainReturn(w) PROVE Works(w)
  BY <1>0, Kinds, <1>20 DEF DrainReturn
<1>. QED
  BY <1>1, <1>2, <1>3, <1>4, <1>5, <1>6, <1>7, <1>8, <1>9, <1>10, <1>11, <1>12, <1>13, <1>14,
     <1>15, <1>16, <1>17, <1>18, <1>19, <1>20
  DEF WakeStep, PumpStep

\* A step of a thread that takes part in the shutdown.
Ends(t) ==
  /\ \A u \in Threads : u # t => pc'[u] = pc[u]
  /\ t \in Producers => pc'[t] \notin {"ready"} \cup WakePcs
  /\ pc[t] \notin ActivePcs(t) \cup {"done"}
  /\ UNCHANGED <<refCount, givenRefs>>

LEMMA EndingKeeps ==
  ASSUME TypeOK, ShutdownInv, NEW t \in Threads, Ends(t)
  PROVE  RefInv' /\ CalmInv' /\ ShuttingDown /\ ShuttingDown' /\ ~freed
<1>1. /\ \A u \in Threads : u # t => pc'[u] = pc[u]
      /\ t \in Producers => pc'[t] \notin {"ready"} \cup WakePcs
  BY DEF Ends
<1>2. pc \in [Threads -> Pcs] /\ pc[t] \notin ActivePcs(t) \cup {"done"}
  BY DEF TypeOK, Ends
<1>3. Holders' = Holders
  BY <1>1, <1>2, Kinds DEF Holders, ActivePcs
<1>4. ShuttingDown
  BY <1>2, Kinds DEF ShutdownInv, CalmInv, Calm, ActivePcs
<1>5. ~freed
  BY <1>2 DEF ShutdownInv, FinalizeInv
<1>. QED
  BY <1>3, <1>4, <1>5 DEF Ends, ShutdownInv, RefInv, CalmInv, ShuttingDown

LEMMA ExitMarkIdleShutdown ==
  ASSUME TypeOK, TypeOK', ShutdownInv, NEW w \in Workers, ExitMarkIdle(w)
  PROVE  ShutdownInv'
<1>0. w \in Threads
  BY Kinds
<1>1. /\ pc \in [Threads -> Pcs] /\ pc' \in [Threads -> Pcs]
      /\ exitIndex \in 1 .. WorkerCount + 1 /\ exitMode \in [Workers -> BOOLEAN]
      /\ workerState \in [Workers -> {"RUNNING", "EXITING", "ZOMBIE"}]
      /\ awaiting \in BOOLEAN /\ releaseOnExit \in BOOLEAN
  BY DEF TypeOK
<1>2. Ends(w)
  BY <1>0, <1>1, PcSets, Kinds
  DEF Ends, ActivePcs, ShutdownInv, DestroyInv, ExitMarkIdle, Goto, shutdownVars
<1>3. RefInv' /\ CalmInv' /\ ShuttingDown /\ ShuttingDown' /\ ~freed
  BY <1>0, <1>2, EndingKeeps
<1>4. DestroyInv'
  BY <1>0, <1>1, PcSets, Kinds
  DEF ShutdownInv, DestroyInv, Destroying, ProducerPcs, WorkerPcs, ExitMarkIdle, Goto,
     shutdownVars
<1>5. ZombieInv'
  BY <1>0, <1>1, <1>3, PcSets, Kinds
  DEF ShutdownInv, DestroyInv, ZombieInv, Destroying, Leaving, ExitMarkIdle, Goto, shutdownVars
<1>6. LiveInv'
  BY <1>0, <1>1, PcSets, Kinds
  DEF ShutdownInv, LiveInv, DestroyInv, Destroying, Present, ExitMarkIdle, Goto, shutdownVars
<1>7. AwaitInv'
  BY <1>0, <1>1, PcSets, Kinds
  DEF ShutdownInv, AwaitInv, DestroyInv, Destroying, ExitMarkIdle, Goto, shutdownVars
<1>8. FinalizeInv'
  BY <1>0, <1>1, <1>3, PcSets, Kinds
  DEF ShutdownInv, FinalizeInv, DestroyInv, AwaitInv, Destroying, ExitMarkIdle, Goto, shutdownVars
<1>. QED
  BY <1>3, <1>4, <1>5, <1>6, <1>7, <1>8 DEF ShutdownInv

LEMMA ExitZombieShutdown ==
  ASSUME TypeOK, TypeOK', ShutdownInv, NEW w \in Workers, ExitZombie(w)
  PROVE  ShutdownInv'
<1>0. w \in Threads
  BY Kinds
<1>1. /\ pc \in [Threads -> Pcs] /\ pc' \in [Threads -> Pcs]
      /\ exitIndex \in 1 .. WorkerCount + 1 /\ exitMode \in [Workers -> BOOLEAN]
      /\ workerState \in [Workers -> {"RUNNING", "EXITING", "ZOMBIE"}]
      /\ awaiting \in BOOLEAN /\ releaseOnExit \in BOOLEAN
  BY DEF TypeOK
<1>2. Ends(w)
  BY <1>0, <1>1, PcSets, Kinds
  DEF Ends, ActivePcs, ShutdownInv, DestroyInv, ExitZombie, Goto, shutdownVars
<1>3. RefInv' /\ CalmInv' /\ ShuttingDown /\ ShuttingDown' /\ ~freed
  BY <1>0, <1>2, EndingKeeps
<1>4. DestroyInv'
  BY <1>0, <1>1, PcSets, Kinds
  DEF ShutdownInv, DestroyInv, Destroying, ProducerPcs, WorkerPcs, ExitZombie, Goto, shutdownVars
<1>5. ZombieInv'
  BY <1>0, <1>1, <1>3, PcSets, Kinds
  DEF ShutdownInv, DestroyInv, ZombieInv, Destroying, Leaving, ExitZombie, Goto, shutdownVars
<1>6. LiveInv'
  BY <1>0, <1>1, PcSets, Kinds
  DEF ShutdownInv, LiveInv, DestroyInv, Destroying, Present, ExitZombie, Goto, shutdownVars
<1>7. AwaitInv'
  BY <1>0, <1>1, PcSets, Kinds
  DEF ShutdownInv, AwaitInv, DestroyInv, Destroying, ExitZombie, Goto, shutdownVars
<1>8. FinalizeInv'
  BY <1>0, <1>1, <1>3, PcSets, Kinds
  DEF ShutdownInv, FinalizeInv, DestroyInv, AwaitInv, Destroying, ExitZombie, Goto, shutdownVars
<1>. QED
  BY <1>3, <1>4, <1>5, <1>6, <1>7, <1>8 DEF ShutdownInv

LEMMA ExitPostStateShutdown ==
  ASSUME TypeOK, TypeOK', ShutdownInv, NEW w \in Workers, ExitPostState(w)
  PROVE  ShutdownInv'
<1>0. w \in Threads
  BY Kinds
<1>1. /\ pc \in [Threads -> Pcs] /\ pc' \in [Threads -> Pcs]
      /\ exitIndex \in 1 .. WorkerCount + 1 /\ exitMode \in [Workers -> BOOLEAN]
      /\ workerState \in [Workers -> {"RUNNING", "EXITING", "ZOMBIE"}]
      /\ awaiting \in BOOLEAN /\ releaseOnExit \in BOOLEAN
  BY DEF TypeOK
<1>2. Ends(w)
  BY <1>0, <1>1, PcSets, Kinds
  DEF Ends, ActivePcs, ShutdownInv, DestroyInv, ExitPostState, Goto, shutdownVars
<1>3. RefInv' /\ CalmInv' /\ ShuttingDown /\ ShuttingDown' /\ ~freed
  BY <1>0, <1>2, EndingKeeps
<1>4. DestroyInv'
  BY <1>0, <1>1, PcSets, Kinds
  DEF ShutdownInv, DestroyInv, Destroying, ProducerPcs, WorkerPcs, ExitPostState, Goto,
     shutdownVars
<1>5. ZombieInv'
  BY <1>0, <1>1, <1>3, PcSets, Kinds
  DEF ShutdownInv, DestroyInv, ZombieInv, Destroying, Leaving, ExitPostState, Goto, shutdownVars
<1>6. LiveInv'
  BY <1>0, <1>1, PcSets, Kinds
  DEF ShutdownInv, LiveInv, DestroyInv, Destroying, Present, ExitPostState, Goto, shutdownVars
<1>7. AwaitInv'
  BY <1>0, <1>1, PcSets, Kinds
  DEF ShutdownInv, AwaitInv, DestroyInv, Destroying, ExitPostState, Goto, shutdownVars
<1>8. FinalizeInv'
  BY <1>0, <1>1, <1>3, PcSets, Kinds
  DEF ShutdownInv, FinalizeInv, DestroyInv, AwaitInv, Destroying, ExitPostState, Goto,
     shutdownVars
<1>. QED
  BY <1>3, <1>4, <1>5, <1>6, <1>7, <1>8 DEF ShutdownInv

LEMMA ExitReadModeShutdown ==
  ASSUME TypeOK, TypeOK', ShutdownInv, NEW w \in Workers, ExitReadMode(w)
  PROVE  ShutdownInv'
<1>0. w \in Threads
  BY Kinds
<1>1. /\ pc \in [Threads -> Pcs] /\ pc' \in [Threads -> Pcs]
      /\ exitIndex \in 1 .. WorkerCount + 1 /\ exitMode \in [Workers -> BOOLEAN]
      /\ workerState \in [Workers -> {"RUNNING", "EXITING", "ZOMBIE"}]
      /\ awaiting \in BOOLEAN /\ releaseOnExit \in BOOLEAN
  BY DEF TypeOK
<1>2. Ends(w)
  BY <1>0, <1>1, PcSets, Kinds
  DEF Ends, ActivePcs, ShutdownInv, DestroyInv, ExitReadMode, Goto, shutdownVars
<1>3. RefInv' /\ CalmInv' /\ ShuttingDown /\ ShuttingDown' /\ ~freed
  BY <1>0, <1>2, EndingKeeps
<1>4. DestroyInv'
  BY <1>0, <1>1, PcSets, Kinds
  DEF ShutdownInv, DestroyInv, Destroying, ProducerPcs, WorkerPcs, ExitReadMode, Goto,
     shutdownVars
<1>5. ZombieInv'
  BY <1>0, <1>1, <1>3, PcSets, Kinds
  DEF ShutdownInv, DestroyInv, ZombieInv, Destroying, Leaving, ExitReadMode, Goto, shutdownVars
<1>6. LiveInv'
  BY <1>0, <1>1, PcSets, Kinds
  DEF ShutdownInv, LiveInv, DestroyInv, Destroying, Present, ExitReadMode, Goto, shutdownVars
<1>7. AwaitInv'
  BY <1>0, <1>1, PcSets, Kinds
  DEF ShutdownInv, AwaitInv, DestroyInv, Destroying, ExitReadMode, Goto, shutdownVars
<1>8. FinalizeInv'
  BY <1>0, <1>1, <1>3, PcSets, Kinds
  DEF ShutdownInv, FinalizeInv, DestroyInv, AwaitInv, Destroying, ExitReadMode, Goto, shutdownVars
<1>. QED
  BY <1>3, <1>4, <1>5, <1>6, <1>7, <1>8 DEF ShutdownInv

LEMMA DestroyBeginShutdown ==
  ASSUME TypeOK, TypeOK', ShutdownInv, NEW t \in Threads, DestroyBegin(t)
  PROVE  ShutdownInv'
<1>0. t \in Threads
  BY Kinds
<1>1. /\ pc \in [Threads -> Pcs] /\ pc' \in [Threads -> Pcs]
      /\ exitIndex \in 1 .. WorkerCount + 1 /\ exitMode \in [Workers -> BOOLEAN]
      /\ workerState \in [Workers -> {"RUNNING", "EXITING", "ZOMBIE"}]
      /\ awaiting \in BOOLEAN /\ releaseOnExit \in BOOLEAN
  BY DEF TypeOK
<1>2. Ends(t)
  BY <1>0, <1>1, PcSets, Kinds
  DEF Ends, ActivePcs, ShutdownInv, DestroyInv, DestroyBegin, Goto, shutdownVars
<1>3. RefInv' /\ CalmInv' /\ ShuttingDown /\ ShuttingDown' /\ ~freed
  BY <1>0, <1>2, EndingKeeps
<1>4. DestroyInv'
  <2>1. ~awaiting /\ awaiting' = awaiting /\ (releaseOnExit' <=> t \in Workers)
    BY <1>0 DEF DestroyBegin, Goto, ShutdownInv, DestroyInv
  <2>2. /\ pc[t] = "destroy" /\ pc' = [pc EXCEPT ![t] = "request"]
        /\ \A u \in Threads : u # t => ~Destroying(u)
    BY <1>0, PcSets DEF DestroyBegin, Goto, ShutdownInv, DestroyInv, Destroying
  <2>3. \A u \in Threads : u # t => pc'[u] = pc[u] /\ pc'[u] \notin DestroyPcs \cup {"finalize"}
    BY <1>1, <2>2 DEF Destroying
  <2>. QED
    BY <1>0, <1>1, <2>1, <2>2, <2>3, PcSets, Kinds
    DEF ShutdownInv, DestroyInv, Destroying, ProducerPcs, WorkerPcs
<1>5. ZombieInv'
  BY <1>0, <1>1, <1>3, PcSets, Kinds
  DEF ShutdownInv, DestroyInv, ZombieInv, Destroying, Leaving, DestroyBegin, Goto, shutdownVars
<1>6. LiveInv'
  BY <1>0, <1>1, PcSets, Kinds
  DEF ShutdownInv, LiveInv, DestroyInv, Destroying, Present, DestroyBegin, Goto, shutdownVars
<1>7. AwaitInv'
  BY <1>0, <1>1, PcSets, Kinds
  DEF ShutdownInv, AwaitInv, DestroyInv, Destroying, DestroyBegin, Goto, shutdownVars
<1>8. FinalizeInv'
  BY <1>0, <1>1, <1>3, PcSets, Kinds
  DEF ShutdownInv, FinalizeInv, DestroyInv, AwaitInv, Destroying, DestroyBegin, Goto, shutdownVars
<1>. QED
  BY <1>3, <1>4, <1>5, <1>6, <1>7, <1>8 DEF ShutdownInv

LEMMA RequestExitShutdown ==
  ASSUME TypeOK, TypeOK', ShutdownInv, NEW t \in Threads, RequestExit(t)
  PROVE  ShutdownInv'
<1>0. t \in Threads
  BY Kinds
<1>1. /\ pc \in [Threads -> Pcs] /\ pc' \in [Threads -> Pcs]
      /\ exitIndex \in 1 .. WorkerCount + 1 /\ exitMode \in [Workers -> BOOLEAN]
      /\ workerState \in [Workers -> {"RUNNING", "EXITING", "ZOMBIE"}]
      /\ awaiting \in BOOLEAN /\ releaseOnExit \in BOOLEAN
  BY DEF TypeOK
<1>2. Ends(t)
  BY <1>0, <1>1, PcSets, Kinds
  DEF Ends, ActivePcs, ShutdownInv, DestroyInv, RequestExit, Goto, shutdownVars
<1>3. RefInv' /\ CalmInv' /\ ShuttingDown /\ ShuttingDown' /\ ~freed
  BY <1>0, <1>2, EndingKeeps
<1>4. DestroyInv'
  BY <1>0, <1>1, PcSets, Kinds
  DEF ShutdownInv, DestroyInv, Destroying, ProducerPcs, WorkerPcs, RequestExit, Goto, shutdownVars
<1>5. ZombieInv'
  BY <1>0, <1>1, <1>3, PcSets, Kinds
  DEF ShutdownInv, DestroyInv, ZombieInv, Destroying, Leaving, RequestExit, Goto, shutdownVars
<1>6. LiveInv'
  BY <1>0, <1>1, PcSets, Kinds
  DEF ShutdownInv, LiveInv, DestroyInv, Destroying, Present, RequestExit, Goto, shutdownVars
<1>7. AwaitInv'
  BY <1>0, <1>1, PcSets, Kinds
  DEF ShutdownInv, AwaitInv, DestroyInv, Destroying, RequestExit, Goto, shutdownVars
<1>8. FinalizeInv'
  BY <1>0, <1>1, <1>3, PcSets, Kinds
  DEF ShutdownInv, FinalizeInv, DestroyInv, AwaitInv, Destroying, RequestExit, Goto, shutdownVars
<1>. QED
  BY <1>3, <1>4, <1>5, <1>6, <1>7, <1>8 DEF ShutdownInv

LEMMA RequestRestoreShutdown ==
  ASSUME TypeOK, TypeOK', ShutdownInv, NEW t \in Threads, RequestRestore(t)
  PROVE  ShutdownInv'
<1>0. t \in Threads
  BY Kinds
<1>1. /\ pc \in [Threads -> Pcs] /\ pc' \in [Threads -> Pcs]
      /\ exitIndex \in 1 .. WorkerCount + 1 /\ exitMode \in [Workers -> BOOLEAN]
      /\ workerState \in [Workers -> {"RUNNING", "EXITING", "ZOMBIE"}]
      /\ awaiting \in BOOLEAN /\ releaseOnExit \in BOOLEAN
  BY DEF TypeOK
<1>2. Ends(t)
  BY <1>0, <1>1, PcSets, Kinds
  DEF Ends, ActivePcs, ShutdownInv, DestroyInv, RequestRestore, Goto, shutdownVars, RestoreZombie
<1>3. RefInv' /\ CalmInv' /\ ShuttingDown /\ ShuttingDown' /\ ~freed
  BY <1>0, <1>2, EndingKeeps
<1>4. DestroyInv'
  BY <1>0, <1>1, PcSets, Kinds
  DEF ShutdownInv, DestroyInv, Destroying, ProducerPcs, WorkerPcs, RequestRestore, Goto,
     shutdownVars, RestoreZombie
<1>5. ZombieInv'
  BY <1>0, <1>1, <1>3, PcSets, Kinds
  DEF ShutdownInv, DestroyInv, ZombieInv, Destroying, Leaving, RequestRestore, Goto,
     shutdownVars, RestoreZombie
<1>6. LiveInv'
  BY <1>0, <1>1, PcSets, Kinds
  DEF ShutdownInv, LiveInv, DestroyInv, Destroying, Present, RequestRestore, Goto, shutdownVars,
     RestoreZombie
<1>7. AwaitInv'
  BY <1>0, <1>1, PcSets, Kinds
  DEF ShutdownInv, AwaitInv, DestroyInv, Destroying, RequestRestore, Goto, shutdownVars,
     RestoreZombie
<1>8. FinalizeInv'
  BY <1>0, <1>1, <1>3, PcSets, Kinds
  DEF ShutdownInv, FinalizeInv, DestroyInv, AwaitInv, Destroying, RequestRestore, Goto,
     shutdownVars, RestoreZombie
<1>. QED
  BY <1>3, <1>4, <1>5, <1>6, <1>7, <1>8 DEF ShutdownInv

LEMMA RequestPostShutdown ==
  ASSUME TypeOK, TypeOK', ShutdownInv, NEW t \in Threads, RequestPost(t)
  PROVE  ShutdownInv'
<1>0. t \in Threads
  BY Kinds
<1>1. /\ pc \in [Threads -> Pcs] /\ pc' \in [Threads -> Pcs]
      /\ exitIndex \in 1 .. WorkerCount + 1 /\ exitMode \in [Workers -> BOOLEAN]
      /\ workerState \in [Workers -> {"RUNNING", "EXITING", "ZOMBIE"}]
      /\ awaiting \in BOOLEAN /\ releaseOnExit \in BOOLEAN
  BY DEF TypeOK
<1>2. Ends(t)
  BY <1>0, <1>1, PcSets, Kinds
  DEF Ends, ActivePcs, ShutdownInv, DestroyInv, RequestPost, Goto, shutdownVars
<1>3. RefInv' /\ CalmInv' /\ ShuttingDown /\ ShuttingDown' /\ ~freed
  BY <1>0, <1>2, EndingKeeps
<1>4. DestroyInv'
  BY <1>0, <1>1, PcSets, Kinds
  DEF ShutdownInv, DestroyInv, Destroying, ProducerPcs, WorkerPcs, RequestPost, Goto, shutdownVars
<1>5. ZombieInv'
  BY <1>0, <1>1, <1>3, PcSets, Kinds
  DEF ShutdownInv, DestroyInv, ZombieInv, Destroying, Leaving, RequestPost, Goto, shutdownVars
<1>6. LiveInv'
  BY <1>0, <1>1, PcSets, Kinds
  DEF ShutdownInv, LiveInv, DestroyInv, Destroying, Present, RequestPost, Goto, shutdownVars
<1>7. AwaitInv'
  BY <1>0, <1>1, PcSets, Kinds
  DEF ShutdownInv, AwaitInv, DestroyInv, Destroying, RequestPost, Goto, shutdownVars
<1>8. FinalizeInv'
  BY <1>0, <1>1, <1>3, PcSets, Kinds
  DEF ShutdownInv, FinalizeInv, DestroyInv, AwaitInv, Destroying, RequestPost, Goto, shutdownVars
<1>. QED
  BY <1>3, <1>4, <1>5, <1>6, <1>7, <1>8 DEF ShutdownInv

LEMMA RequestsDoneShutdown ==
  ASSUME TypeOK, TypeOK', ShutdownInv, NEW t \in Threads, RequestsDone(t)
  PROVE  ShutdownInv'
<1>0. t \in Threads
  BY Kinds
<1>1. /\ pc \in [Threads -> Pcs] /\ pc' \in [Threads -> Pcs]
      /\ exitIndex \in 1 .. WorkerCount + 1 /\ exitMode \in [Workers -> BOOLEAN]
      /\ workerState \in [Workers -> {"RUNNING", "EXITING", "ZOMBIE"}]
      /\ awaiting \in BOOLEAN /\ releaseOnExit \in BOOLEAN
  BY DEF TypeOK
<1>2. Ends(t)
  BY <1>0, <1>1, PcSets, Kinds
  DEF Ends, ActivePcs, ShutdownInv, DestroyInv, RequestsDone, Goto, shutdownVars
<1>3. RefInv' /\ CalmInv' /\ ShuttingDown /\ ShuttingDown' /\ ~freed
  BY <1>0, <1>2, EndingKeeps
<1>4. DestroyInv'
  BY <1>0, <1>1, PcSets, Kinds
  DEF ShutdownInv, DestroyInv, Destroying, ProducerPcs, WorkerPcs, RequestsDone, Goto,
     shutdownVars
<1>5. ZombieInv'
  BY <1>0, <1>1, <1>3, PcSets, Kinds
  DEF ShutdownInv, DestroyInv, ZombieInv, Destroying, Leaving, RequestsDone, Goto, shutdownVars
<1>6. LiveInv'
  BY <1>0, <1>1, PcSets, Kinds
  DEF ShutdownInv, LiveInv, DestroyInv, Destroying, Present, RequestsDone, Goto, shutdownVars
<1>7. AwaitInv'
  BY <1>0, <1>1, PcSets, Kinds
  DEF ShutdownInv, AwaitInv, DestroyInv, Destroying, RequestsDone, Goto, shutdownVars
<1>8. FinalizeInv'
  BY <1>0, <1>1, <1>3, PcSets, Kinds
  DEF ShutdownInv, FinalizeInv, DestroyInv, AwaitInv, Destroying, RequestsDone, Goto, shutdownVars
<1>. QED
  BY <1>3, <1>4, <1>5, <1>6, <1>7, <1>8 DEF ShutdownInv

LEMMA AwaitCheckShutdown ==
  ASSUME TypeOK, TypeOK', ShutdownInv, NEW t \in Threads, AwaitCheck(t)
  PROVE  ShutdownInv'
<1>0. t \in Threads
  BY Kinds
<1>1. /\ pc \in [Threads -> Pcs] /\ pc' \in [Threads -> Pcs]
      /\ exitIndex \in 1 .. WorkerCount + 1 /\ exitMode \in [Workers -> BOOLEAN]
      /\ workerState \in [Workers -> {"RUNNING", "EXITING", "ZOMBIE"}]
      /\ awaiting \in BOOLEAN /\ releaseOnExit \in BOOLEAN
  BY DEF TypeOK
<1>2. Ends(t)
  BY <1>0, <1>1, PcSets, Kinds
  DEF Ends, ActivePcs, ShutdownInv, DestroyInv, AwaitCheck, Goto, shutdownVars, AwaitTest
<1>3. RefInv' /\ CalmInv' /\ ShuttingDown /\ ShuttingDown' /\ ~freed
  BY <1>0, <1>2, EndingKeeps
<1>4. DestroyInv'
  BY <1>0, <1>1, PcSets, Kinds
  DEF ShutdownInv, DestroyInv, Destroying, ProducerPcs, WorkerPcs, AwaitCheck, Goto,
     shutdownVars, AwaitTest
<1>5. ZombieInv'
  BY <1>0, <1>1, <1>3, PcSets, Kinds
  DEF ShutdownInv, DestroyInv, ZombieInv, Destroying, Leaving, AwaitCheck, Goto, shutdownVars,
     AwaitTest
<1>6. LiveInv'
  BY <1>0, <1>1, PcSets, Kinds
  DEF ShutdownInv, LiveInv, DestroyInv, Destroying, Present, AwaitCheck, Goto, shutdownVars,
     AwaitTest
<1>7. AwaitInv'
  <2>1. exitIndex \in Workers /\ awaiting /\ pc[t] \in AwaitPcs
    BY <1>0, PcSets DEF ShutdownInv, DestroyInv, AwaitCheck, AwaitTest, Goto
  <2>2. CASE workerState[exitIndex] = "ZOMBIE"
    <3>1. pc[exitIndex] \in GonePcs /\ exitIndex' = exitIndex + 1
      BY <2>1, <2>2 DEF ShutdownInv, ZombieInv, AwaitCheck, AwaitTest
    <3>2. \A i \in Workers : i < exitIndex' => i < exitIndex \/ i = exitIndex
      BY <2>1, <3>1, Kinds
    <3>. QED
      BY <1>0, <1>1, <2>1, <2>2, <3>1, <3>2, PcSets, Kinds
      DEF ShutdownInv, AwaitInv, DestroyInv, Destroying, AwaitCheck, AwaitTest, Goto
  <2>3. CASE workerState[exitIndex] # "ZOMBIE"
    BY <1>0, <1>1, <2>3, PcSets, Kinds
    DEF ShutdownInv, AwaitInv, DestroyInv, Destroying, AwaitCheck, AwaitTest, Goto
  <2>. QED
    BY <2>2, <2>3
<1>8. FinalizeInv'
  BY <1>0, <1>1, <1>3, PcSets, Kinds
  DEF ShutdownInv, FinalizeInv, DestroyInv, AwaitInv, Destroying, AwaitCheck, Goto, shutdownVars,
     AwaitTest
<1>. QED
  BY <1>3, <1>4, <1>5, <1>6, <1>7, <1>8 DEF ShutdownInv

LEMMA AwaitRecheckShutdown ==
  ASSUME TypeOK, TypeOK', ShutdownInv, NEW t \in Threads, AwaitRecheck(t)
  PROVE  ShutdownInv'
<1>0. t \in Threads
  BY Kinds
<1>1. /\ pc \in [Threads -> Pcs] /\ pc' \in [Threads -> Pcs]
      /\ exitIndex \in 1 .. WorkerCount + 1 /\ exitMode \in [Workers -> BOOLEAN]
      /\ workerState \in [Workers -> {"RUNNING", "EXITING", "ZOMBIE"}]
      /\ awaiting \in BOOLEAN /\ releaseOnExit \in BOOLEAN
  BY DEF TypeOK
<1>2. Ends(t)
  BY <1>0, <1>1, PcSets, Kinds
  DEF Ends, ActivePcs, ShutdownInv, DestroyInv, AwaitRecheck, Goto, shutdownVars, AwaitTest
<1>3. RefInv' /\ CalmInv' /\ ShuttingDown /\ ShuttingDown' /\ ~freed
  BY <1>0, <1>2, EndingKeeps
<1>4. DestroyInv'
  BY <1>0, <1>1, PcSets, Kinds
  DEF ShutdownInv, DestroyInv, Destroying, ProducerPcs, WorkerPcs, AwaitRecheck, Goto,
     shutdownVars, AwaitTest
<1>5. ZombieInv'
  BY <1>0, <1>1, <1>3, PcSets, Kinds
  DEF ShutdownInv, DestroyInv, ZombieInv, Destroying, Leaving, AwaitRecheck, Goto, shutdownVars,
     AwaitTest
<1>6. LiveInv'
  BY <1>0, <1>1, PcSets, Kinds
  DEF ShutdownInv, LiveInv, DestroyInv, Destroying, Present, AwaitRecheck, Goto, shutdownVars,
     AwaitTest
<1>7. AwaitInv'
  <2>1. exitIndex \in Workers /\ awaiting /\ pc[t] \in AwaitPcs
    BY <1>0, PcSets DEF ShutdownInv, DestroyInv, AwaitRecheck, AwaitTest, Goto
  <2>2. CASE workerState[exitIndex] = "ZOMBIE"
    <3>1. pc[exitIndex] \in GonePcs /\ exitIndex' = exitIndex + 1
      BY <2>1, <2>2 DEF ShutdownInv, ZombieInv, AwaitRecheck, AwaitTest
    <3>2. \A i \in Workers : i < exitIndex' => i < exitIndex \/ i = exitIndex
      BY <2>1, <3>1, Kinds
    <3>. QED
      BY <1>0, <1>1, <2>1, <2>2, <3>1, <3>2, PcSets, Kinds
      DEF ShutdownInv, AwaitInv, DestroyInv, Destroying, AwaitRecheck, AwaitTest, Goto
  <2>3. CASE workerState[exitIndex] # "ZOMBIE"
    BY <1>0, <1>1, <2>3, PcSets, Kinds
    DEF ShutdownInv, AwaitInv, DestroyInv, Destroying, AwaitRecheck, AwaitTest, Goto
  <2>. QED
    BY <2>2, <2>3
<1>8. FinalizeInv'
  BY <1>0, <1>1, <1>3, PcSets, Kinds
  DEF ShutdownInv, FinalizeInv, DestroyInv, AwaitInv, Destroying, AwaitRecheck, Goto,
     shutdownVars, AwaitTest
<1>. QED
  BY <1>3, <1>4, <1>5, <1>6, <1>7, <1>8 DEF ShutdownInv

LEMMA AwaitPrepareShutdown ==
  ASSUME TypeOK, TypeOK', ShutdownInv, NEW t \in Threads, AwaitPrepare(t)
  PROVE  ShutdownInv'
<1>0. t \in Threads
  BY Kinds
<1>1. /\ pc \in [Threads -> Pcs] /\ pc' \in [Threads -> Pcs]
      /\ exitIndex \in 1 .. WorkerCount + 1 /\ exitMode \in [Workers -> BOOLEAN]
      /\ workerState \in [Workers -> {"RUNNING", "EXITING", "ZOMBIE"}]
      /\ awaiting \in BOOLEAN /\ releaseOnExit \in BOOLEAN
  BY DEF TypeOK
<1>2. Ends(t)
  BY <1>0, <1>1, PcSets, Kinds
  DEF Ends, ActivePcs, ShutdownInv, DestroyInv, AwaitPrepare, Goto, shutdownVars
<1>3. RefInv' /\ CalmInv' /\ ShuttingDown /\ ShuttingDown' /\ ~freed
  BY <1>0, <1>2, EndingKeeps
<1>4. DestroyInv'
  BY <1>0, <1>1, PcSets, Kinds
  DEF ShutdownInv, DestroyInv, Destroying, ProducerPcs, WorkerPcs, AwaitPrepare, Goto,
     shutdownVars
<1>5. ZombieInv'
  BY <1>0, <1>1, <1>3, PcSets, Kinds
  DEF ShutdownInv, DestroyInv, ZombieInv, Destroying, Leaving, AwaitPrepare, Goto, shutdownVars
<1>6. LiveInv'
  BY <1>0, <1>1, PcSets, Kinds
  DEF ShutdownInv, LiveInv, DestroyInv, Destroying, Present, AwaitPrepare, Goto, shutdownVars
<1>7. AwaitInv'
  BY <1>0, <1>1, PcSets, Kinds
  DEF ShutdownInv, AwaitInv, DestroyInv, Destroying, AwaitPrepare, Goto, shutdownVars
<1>8. FinalizeInv'
  BY <1>0, <1>1, <1>3, PcSets, Kinds
  DEF ShutdownInv, FinalizeInv, DestroyInv, AwaitInv, Destroying, AwaitPrepare, Goto, shutdownVars
<1>. QED
  BY <1>3, <1>4, <1>5, <1>6, <1>7, <1>8 DEF ShutdownInv

LEMMA AwaitWokenShutdown ==
  ASSUME TypeOK, TypeOK', ShutdownInv, NEW t \in Threads, AwaitWoken(t)
  PROVE  ShutdownInv'
<1>0. t \in Threads
  BY Kinds
<1>1. /\ pc \in [Threads -> Pcs] /\ pc' \in [Threads -> Pcs]
      /\ exitIndex \in 1 .. WorkerCount + 1 /\ exitMode \in [Workers -> BOOLEAN]
      /\ workerState \in [Workers -> {"RUNNING", "EXITING", "ZOMBIE"}]
      /\ awaiting \in BOOLEAN /\ releaseOnExit \in BOOLEAN
  BY DEF TypeOK
<1>2. Ends(t)
  BY <1>0, <1>1, PcSets, Kinds
  DEF Ends, ActivePcs, ShutdownInv, DestroyInv, AwaitWoken, Goto, shutdownVars
<1>3. RefInv' /\ CalmInv' /\ ShuttingDown /\ ShuttingDown' /\ ~freed
  BY <1>0, <1>2, EndingKeeps
<1>4. DestroyInv'
  BY <1>0, <1>1, PcSets, Kinds
  DEF ShutdownInv, DestroyInv, Destroying, ProducerPcs, WorkerPcs, AwaitWoken, Goto, shutdownVars
<1>5. ZombieInv'
  BY <1>0, <1>1, <1>3, PcSets, Kinds
  DEF ShutdownInv, DestroyInv, ZombieInv, Destroying, Leaving, AwaitWoken, Goto, shutdownVars
<1>6. LiveInv'
  BY <1>0, <1>1, PcSets, Kinds
  DEF ShutdownInv, LiveInv, DestroyInv, Destroying, Present, AwaitWoken, Goto, shutdownVars
<1>7. AwaitInv'
  BY <1>0, <1>1, PcSets, Kinds
  DEF ShutdownInv, AwaitInv, DestroyInv, Destroying, AwaitWoken, Goto, shutdownVars
<1>8. FinalizeInv'
  BY <1>0, <1>1, <1>3, PcSets, Kinds
  DEF ShutdownInv, FinalizeInv, DestroyInv, AwaitInv, Destroying, AwaitWoken, Goto, shutdownVars
<1>. QED
  BY <1>3, <1>4, <1>5, <1>6, <1>7, <1>8 DEF ShutdownInv

LEMMA AwaitsDoneShutdown ==
  ASSUME TypeOK, TypeOK', ShutdownInv, NEW t \in Threads, AwaitsDone(t)
  PROVE  ShutdownInv'
<1>0. t \in Threads
  BY Kinds
<1>1. /\ pc \in [Threads -> Pcs] /\ pc' \in [Threads -> Pcs]
      /\ exitIndex \in 1 .. WorkerCount + 1 /\ exitMode \in [Workers -> BOOLEAN]
      /\ workerState \in [Workers -> {"RUNNING", "EXITING", "ZOMBIE"}]
      /\ awaiting \in BOOLEAN /\ releaseOnExit \in BOOLEAN
  BY DEF TypeOK
<1>2. Ends(t)
  BY <1>0, <1>1, PcSets, Kinds
  DEF Ends, ActivePcs, ShutdownInv, DestroyInv, AwaitsDone, Goto, shutdownVars, EveryoneAwaited
<1>3. RefInv' /\ CalmInv' /\ ShuttingDown /\ ShuttingDown' /\ ~freed
  BY <1>0, <1>2, EndingKeeps
<1>4. DestroyInv'
  BY <1>0, <1>1, PcSets, Kinds
  DEF ShutdownInv, DestroyInv, Destroying, ProducerPcs, WorkerPcs, AwaitsDone, Goto,
     shutdownVars, EveryoneAwaited
<1>5. ZombieInv'
  BY <1>0, <1>1, <1>3, PcSets, Kinds
  DEF ShutdownInv, DestroyInv, ZombieInv, Destroying, Leaving, AwaitsDone, Goto, shutdownVars,
     EveryoneAwaited
<1>6. LiveInv'
  BY <1>0, <1>1, PcSets, Kinds
  DEF ShutdownInv, LiveInv, DestroyInv, Destroying, Present, AwaitsDone, Goto, shutdownVars,
     EveryoneAwaited
<1>7. AwaitInv'
  BY <1>0, <1>1, PcSets, Kinds
  DEF ShutdownInv, AwaitInv, DestroyInv, Destroying, AwaitsDone, Goto, shutdownVars,
     EveryoneAwaited
<1>8. FinalizeInv'
  BY <1>0, <1>1, <1>3, PcSets, Kinds
  DEF ShutdownInv, FinalizeInv, DestroyInv, AwaitInv, Destroying, AwaitsDone, Goto, shutdownVars,
     EveryoneAwaited
<1>. QED
  BY <1>3, <1>4, <1>5, <1>6, <1>7, <1>8 DEF ShutdownInv

LEMMA FinalizeWorkerShutdown ==
  ASSUME TypeOK, TypeOK', ShutdownInv, NEW t \in Threads, FinalizeWorker(t)
  PROVE  ShutdownInv'
<1>0. t \in Threads
  BY Kinds
<1>1. /\ pc \in [Threads -> Pcs] /\ pc' \in [Threads -> Pcs]
      /\ exitIndex \in 1 .. WorkerCount + 1 /\ exitMode \in [Workers -> BOOLEAN]
      /\ workerState \in [Workers -> {"RUNNING", "EXITING", "ZOMBIE"}]
      /\ awaiting \in BOOLEAN /\ releaseOnExit \in BOOLEAN
  BY DEF TypeOK
<1>2. Ends(t)
  BY <1>0, <1>1, PcSets, Kinds
  DEF Ends, ActivePcs, ShutdownInv, DestroyInv, FinalizeWorker, Goto, shutdownVars, Joined
<1>3. RefInv' /\ CalmInv' /\ ShuttingDown /\ ShuttingDown' /\ ~freed
  BY <1>0, <1>2, EndingKeeps
<1>4. DestroyInv'
  BY <1>0, <1>1, PcSets, Kinds
  DEF ShutdownInv, DestroyInv, Destroying, ProducerPcs, WorkerPcs, FinalizeWorker, Goto,
     shutdownVars, Joined
<1>5. ZombieInv'
  BY <1>0, <1>1, <1>3, PcSets, Kinds
  DEF ShutdownInv, DestroyInv, ZombieInv, Destroying, Leaving, FinalizeWorker, Goto,
     shutdownVars, Joined
<1>6. LiveInv'
  BY <1>0, <1>1, PcSets, Kinds
  DEF ShutdownInv, LiveInv, DestroyInv, Destroying, Present, FinalizeWorker, Goto, shutdownVars,
     Joined
<1>7. AwaitInv'
  BY <1>0, <1>1, PcSets, Kinds
  DEF ShutdownInv, AwaitInv, DestroyInv, Destroying, FinalizeWorker, Goto, shutdownVars, Joined
<1>8. FinalizeInv'
  BY <1>0, <1>1, <1>3, PcSets, Kinds
  DEF ShutdownInv, FinalizeInv, DestroyInv, AwaitInv, Destroying, FinalizeWorker, Goto,
     shutdownVars, Joined
<1>. QED
  BY <1>3, <1>4, <1>5, <1>6, <1>7, <1>8 DEF ShutdownInv

LEMMA FinalizeFreeShutdown ==
  ASSUME TypeOK, TypeOK', ShutdownInv, NEW t \in Threads, FinalizeFree(t)
  PROVE  ShutdownInv'
<1>0. t \in Threads
  BY Kinds
<1>1. /\ pc \in [Threads -> Pcs] /\ pc' \in [Threads -> Pcs]
      /\ exitIndex \in 1 .. WorkerCount + 1 /\ exitMode \in [Workers -> BOOLEAN]
      /\ workerState \in [Workers -> {"RUNNING", "EXITING", "ZOMBIE"}]
      /\ awaiting \in BOOLEAN /\ releaseOnExit \in BOOLEAN
  BY DEF TypeOK
<1>2. Ends(t)
  BY <1>0, <1>1, PcSets, Kinds
  DEF Ends, ActivePcs, ShutdownInv, DestroyInv, FinalizeFree, Goto, shutdownVars
<1>3. RefInv' /\ CalmInv' /\ ShuttingDown /\ ShuttingDown' /\ ~freed
  BY <1>0, <1>2, EndingKeeps
<1>4. DestroyInv'
  BY <1>0, <1>1, PcSets, Kinds
  DEF ShutdownInv, DestroyInv, Destroying, ProducerPcs, WorkerPcs, FinalizeFree, Goto,
     shutdownVars
<1>5. ZombieInv'
  BY <1>0, <1>1, <1>3, PcSets, Kinds
  DEF ShutdownInv, DestroyInv, ZombieInv, Destroying, Leaving, FinalizeFree, Goto, shutdownVars
<1>6. LiveInv'
  BY <1>0, <1>1, PcSets, Kinds
  DEF ShutdownInv, LiveInv, DestroyInv, Destroying, Present, FinalizeFree, Goto, shutdownVars
<1>7. AwaitInv'
  BY <1>0, <1>1, PcSets, Kinds
  DEF ShutdownInv, AwaitInv, DestroyInv, Destroying, FinalizeFree, Goto, shutdownVars
<1>8. FinalizeInv'
  <2>1. /\ pc[t] = "finalize" /\ pc' = [pc EXCEPT ![t] = "done"]
        /\ freed' /\ deinitialized' = deinitialized /\ exitIndex = WorkerCount + 1
    BY DEF FinalizeFree, Goto
  <2>2. deinitialized = Workers
    BY <1>0, <2>1, Kinds DEF ShutdownInv, FinalizeInv
  <2>3. \A i \in Workers : i = t \/ pc[i] = "done"
    BY <1>0, <2>1, <2>2 DEF ShutdownInv, FinalizeInv
  <2>4. \A p \in Producers : p = t \/ pc[p] = "done"
    <3>1. Holders = {} /\ \A p \in Producers : pc[p] \in ProducerPcs
      <4>1. Holders \in SUBSET Threads
        BY Kinds DEF Holders
      <4>2. refCount = 0 /\ refCount = Cardinality(Holders) + givenRefs /\ givenRefs \in Nat
        BY <1>3 DEF ShuttingDown, ShutdownInv, RefInv, TypeOK
      <4>3. Cardinality(Holders) = 0
        BY <4>1, <4>2, Sizes
      <4>. QED
        BY <4>1, <4>3, Sizes DEF ShutdownInv, DestroyInv
    <3>2. \A p \in Producers : p # t => pc[p] \notin DestroyPcs \cup {"finalize"}
      BY <1>0, <2>1, Kinds DEF ShutdownInv, DestroyInv, Destroying
    <3>. QED
      BY <3>1, <3>2 DEF Holders, ProducerPcs
  <2>5. \A u \in Threads : pc'[u] = "done"
    BY <1>1, <2>1, <2>3, <2>4, Kinds
  <2>. QED
    BY <2>1, <2>2, <2>5 DEF FinalizeInv
<1>. QED
  BY <1>3, <1>4, <1>5, <1>6, <1>7, <1>8 DEF ShutdownInv

LEMMA ExitCountShutdown ==
  ASSUME TypeOK, TypeOK', ShutdownInv, NEW w \in Workers, ExitCount(w)
  PROVE  ShutdownInv'
<1>0. w \in Threads
  BY Kinds
<1>1. /\ pc \in [Threads -> Pcs] /\ pc' \in [Threads -> Pcs]
      /\ exitIndex \in 1 .. WorkerCount + 1 /\ exitMode \in [Workers -> BOOLEAN]
      /\ workerState \in [Workers -> {"RUNNING", "EXITING", "ZOMBIE"}]
      /\ awaiting \in BOOLEAN /\ releaseOnExit \in BOOLEAN
  BY DEF TypeOK
<1>2. Ends(w)
  BY <1>0, <1>1, PcSets, Kinds DEF Ends, ActivePcs, ExitCount, Goto
<1>3. RefInv' /\ CalmInv' /\ ShuttingDown /\ ShuttingDown' /\ ~freed
  BY <1>0, <1>2, EndingKeeps
<1>4. PICK x : /\ pc[w] = "exit_count" /\ pc' = [pc EXCEPT ![w] = x] /\ x \in {"finalize", "done"}
               /\ x = "finalize" => LastToLeave /\ exitMode[w] /\ exitIndex' = 1
               /\ x = "done" => exitIndex' = exitIndex
               /\ liveWorkers' = liveWorkers - 1
               /\ UNCHANGED <<workerState, releaseOnExit, deinitialized, freed, exitMode, awaiting>>
  BY DEF ExitCount, Goto
<1>5. pc'[w] = x /\ \A u \in Threads : u # w => pc'[u] = pc[u]
  BY <1>0, <1>1, <1>4
<1>6. w \in Present /\ Present \in SUBSET Threads /\ Present' = Present \ {w}
  BY <1>4, <1>5, Kinds DEF Present
<1>7. liveWorkers = Cardinality(Present) /\ liveWorkers' = Cardinality(Present')
  BY <1>0, <1>4, <1>6, Sizes DEF ShutdownInv, LiveInv
<1>8. ASSUME x = "finalize"
      PROVE  /\ Present' = {} /\ releaseOnExit
             /\ \A u \in Threads : ~Destroying(u)
             /\ \A i \in Workers : i # w => pc[i] = "done"
  <2>1. Cardinality(Present') = 0 /\ Present' \in SUBSET Threads
    BY <1>4, <1>6, <1>7, <1>8 DEF LastToLeave
  <2>2. Present' = {}
    BY <2>1, Sizes
  <2>3. releaseOnExit /\ \A u \in Threads : pc[u] # "destroy"
    <3>1. Leaving(w) /\ exitMode[w] = releaseOnExit /\ exitMode[w]
      BY <1>4, <1>8, PcSets DEF ShutdownInv, ZombieInv, Leaving
    <3>. QED
      BY <3>1 DEF ShutdownInv, ZombieInv
  <2>4. \A i \in Workers : pc[i] # "finalize"
    BY <1>6 DEF ShutdownInv, LiveInv
  <2>5. \A i \in Workers : i # w => pc[i] = "done"
    BY <1>5, <2>2, <2>4, Kinds DEF Present
  <2>6. \A i \in Workers : ~Destroying(i)
    BY <1>4, <2>5, PcSets DEF Destroying
  <2>7. \A p \in Producers : ~Destroying(p)
    BY <2>3, Kinds, PcSets DEF Destroying, ShutdownInv, DestroyInv
  <2>. QED
    BY <2>2, <2>3, <2>5, <2>6, <2>7, Kinds
<1>9. DestroyInv'
  BY <1>0, <1>1, <1>4, <1>5, <1>8, PcSets, Kinds
  DEF ShutdownInv, DestroyInv, Destroying, ProducerPcs, WorkerPcs
<1>10. ZombieInv'
  BY <1>0, <1>1, <1>3, <1>4, <1>5, <1>8, PcSets, Kinds
  DEF ShutdownInv, DestroyInv, ZombieInv, Destroying, Leaving
<1>11. LiveInv'
  BY <1>4, <1>5, <1>6, <1>7, <1>8, Kinds DEF ShutdownInv, LiveInv
<1>12. AwaitInv'
  BY <1>4, <1>5, <1>8, PcSets, Kinds DEF ShutdownInv, AwaitInv, Destroying
<1>13. FinalizeInv'
  BY <1>0, <1>1, <1>3, <1>4, <1>5, <1>8, Kinds DEF ShutdownInv, FinalizeInv, Destroying
<1>. QED
  BY <1>3, <1>9, <1>10, <1>11, <1>12, <1>13 DEF ShutdownInv

LEMMA WorkerStartShutdown ==
  ASSUME TypeOK, TypeOK', ShutdownInv, NEW w \in Workers, WorkerStart(w)
  PROVE  ShutdownInv'
<1>0. w \in Threads
  BY Kinds
<1>1. /\ pc \in [Threads -> Pcs] /\ workerState \in [Workers -> {"RUNNING", "EXITING", "ZOMBIE"}]
  BY DEF TypeOK
<1>2. PICK x : /\ pc[w] = "start" /\ pc' = [pc EXCEPT ![w] = x]
               /\ x = IF workerState[w] = "EXITING" THEN "exit_idle" ELSE "prepare"
               /\ workerState' = [workerState EXCEPT ![w] = "RUNNING"]
               /\ UNCHANGED <<refCount, givenRefs, releaseOnExit, liveWorkers, deinitialized, freed,
                              exitMode, exitIndex, awaiting>>
  BY DEF WorkerStart, Goto
<1>3. /\ pc'[w] = x /\ \A u \in Threads : u # w => pc'[u] = pc[u]
      /\ workerState'[w] = "RUNNING" /\ \A v \in Workers : v # w => workerState'[v] = workerState[v]
      /\ x \in {"exit_idle", "prepare"} /\ workerState[w] # "EXITING" => x = "prepare"
  BY <1>0, <1>1, <1>2
<1>4. Holders' = Holders /\ Present' = Present
  BY <1>2, <1>3, Kinds DEF Holders, Present
<1>5. RefInv'
  BY <1>2, <1>4 DEF ShutdownInv, RefInv
<1>6. CalmInv'
  BY <1>2, <1>3, PcSets, Kinds DEF ShutdownInv, CalmInv, Calm, ShuttingDown
<1>7. DestroyInv'
  BY <1>2, <1>3, PcSets, Kinds
  DEF ShutdownInv, DestroyInv, Destroying, ProducerPcs, WorkerPcs, Pcs, ExitPcs
<1>8. ZombieInv'
  BY <1>0, <1>1, <1>2, <1>3, PcSets, Kinds
  DEF ShutdownInv, DestroyInv, ZombieInv, Leaving, ShuttingDown
<1>9. LiveInv'
  BY <1>2, <1>3, <1>4, Kinds DEF ShutdownInv, LiveInv
<1>10. AwaitInv'
  BY <1>2, <1>3, PcSets, Kinds DEF ShutdownInv, AwaitInv
<1>11. FinalizeInv'
  BY <1>2, <1>3, Kinds DEF ShutdownInv, FinalizeInv
<1>. QED
  BY <1>5, <1>6, <1>7, <1>8, <1>9, <1>10, <1>11 DEF ShutdownInv

LEMMA CheckExitShutdown ==
  ASSUME TypeOK, TypeOK', ShutdownInv, NEW w \in Workers, CheckExit(w)
  PROVE  ShutdownInv'
<1>0. w \in Threads
  BY Kinds
<1>1. pc \in [Threads -> Pcs]
  BY DEF TypeOK
<1>2. PICK x : /\ pc[w] = "check_exit" /\ pc' = [pc EXCEPT ![w] = x]
               /\ x = IF workerState[w] = "EXITING" THEN "exit_idle" ELSE "scan"
               /\ UNCHANGED shutdownVars
  BY DEF CheckExit, Goto
<1>3. /\ pc'[w] = x /\ \A u \in Threads : u # w => pc'[u] = pc[u]
      /\ x \in {"exit_idle", "scan"} /\ workerState[w] # "EXITING" => x = "scan"
  BY <1>0, <1>1, <1>2
<1>4. Holders' = Holders /\ Present' = Present
  BY <1>2, <1>3, Kinds DEF Holders, Present
<1>. USE DEF shutdownVars
<1>5. RefInv'
  BY <1>2, <1>4 DEF ShutdownInv, RefInv
<1>6. CalmInv'
  BY <1>2, <1>3, PcSets, Kinds DEF ShutdownInv, CalmInv, Calm, ShuttingDown
<1>7. DestroyInv'
  BY <1>2, <1>3, PcSets, Kinds
  DEF ShutdownInv, DestroyInv, Destroying, ProducerPcs, WorkerPcs, Pcs, ExitPcs
<1>8. ZombieInv'
  BY <1>0, <1>1, <1>2, <1>3, PcSets, Kinds
  DEF ShutdownInv, DestroyInv, ZombieInv, Leaving, ShuttingDown
<1>9. LiveInv'
  BY <1>2, <1>3, <1>4, Kinds DEF ShutdownInv, LiveInv
<1>10. AwaitInv'
  BY <1>2, <1>3, PcSets, Kinds DEF ShutdownInv, AwaitInv
<1>11. FinalizeInv'
  BY <1>2, <1>3, Kinds DEF ShutdownInv, FinalizeInv
<1>. QED
  BY <1>5, <1>6, <1>7, <1>8, <1>9, <1>10, <1>11 DEF ShutdownInv

\* The reference that is dropped may be the last one; the thread then destroys
\* the executor, and nothing of the shutdown had begun.
LEMMA DropShutdown ==
  ASSUME TypeOK, TypeOK', ShutdownInv, NEW t \in Threads, refCount > 0,
         NEW x, pc' = [pc EXCEPT ![t] = x], refCount = 1 => x = "destroy",
         refCount # 1 => x \in {"drain", "done"} /\ (x = "drain" <=> t \in Workers),
         pc[t] = IF t \in Workers THEN "drain" ELSE "ready",
         refCount' = refCount - 1,
         givenRefs' = IF t \in Workers THEN givenRefs - 1 ELSE givenRefs,
         UNCHANGED StateVars
  PROVE  ShutdownInv'
<1>1. pc \in [Threads -> Pcs] /\ refCount \in Nat /\ givenRefs \in Nat
  BY DEF TypeOK
<1>2. pc'[t] = x /\ \A u \in Threads : u # t => pc'[u] = pc[u]
  BY <1>1
<1>3. Calm
  BY DEF ShutdownInv, CalmInv, ShuttingDown
<1>4. UNCHANGED <<workerState, releaseOnExit, liveWorkers, deinitialized, freed, exitMode,
                  exitIndex, awaiting>>
  BY DEF StateVars
<1>5. x \in {"destroy", "drain", "done"} /\ (t \in Workers => x # "done") /\ (t \in Producers => x # "drain")
  BY Kinds
<1>6. (refCount' = 0 <=> x = "destroy") /\ (x # "destroy" => refCount' # 0)
  BY <1>1
<1>7. RefInv'
  <2>0. Holders \in SUBSET Threads /\ Cardinality(Holders) \in Nat
    BY Kinds, Sizes DEF Holders
  <2>1. CASE t \in Workers
    <3>1. Holders' = Holders
      BY <1>2, <2>1, Kinds DEF Holders
    <3>2. refCount' = Cardinality(Holders) + givenRefs'
      BY <1>1, <2>0, <2>1 DEF ShutdownInv, RefInv
    <3>. QED
      BY <3>1, <3>2 DEF RefInv
  <2>2. CASE t \notin Workers
    <3>1. Holders' = Holders \ {t} /\ t \in Holders
      BY <1>2, <1>5, <2>2, PcSets, Kinds DEF Holders
    <3>2. refCount' = Cardinality(Holders \ {t}) + givenRefs'
      BY <1>1, <2>0, <2>2, <3>1, Sizes DEF ShutdownInv, RefInv
    <3>. QED
      BY <3>1, <3>2 DEF RefInv
  <2>. QED
    BY <2>1, <2>2
<1>8. CalmInv'
  BY <1>2, <1>3, <1>4, <1>5, <1>6, Kinds, PcSets DEF CalmInv, Calm, ShuttingDown
<1>9. DestroyInv'
  BY <1>2, <1>3, <1>4, <1>5, Kinds, PcSets
  DEF Calm, ShutdownInv, DestroyInv, Destroying, ProducerPcs, WorkerPcs, Pcs
<1>10. ZombieInv'
  BY <1>2, <1>3, <1>4, <1>5, Kinds, PcSets DEF Calm, ShutdownInv, ZombieInv, Leaving
<1>11. LiveInv'
  <2>1. Present' = Present
    BY <1>2, <1>3, <1>5, Kinds, PcSets DEF Calm, Present
  <2>. QED
    BY <1>2, <1>3, <1>4, <1>5, <2>1, Kinds, PcSets DEF Calm, ShutdownInv, LiveInv
<1>12. AwaitInv'
  BY <1>2, <1>3, <1>4, <1>5, Kinds, PcSets DEF Calm, AwaitInv
<1>13. FinalizeInv'
  BY <1>2, <1>3, <1>4, <1>5, Kinds, PcSets DEF Calm, FinalizeInv
<1>. QED
  BY <1>7, <1>8, <1>9, <1>10, <1>11, <1>12, <1>13 DEF ShutdownInv

LEMMA ShutdownKept == Inv /\ Next => ShutdownInv'
<1>. SUFFICES ASSUME Inv, Next PROVE ShutdownInv'
  OBVIOUS
<1>0. TypeOK /\ TypeOK' /\ ShutdownInv
  BY TypeKept DEF Inv
<1>1. ASSUME NEW t \in Threads, Works(t) PROVE ShutdownInv'
  BY <1>0, <1>1, WorkKeepsShutdown
<1>2. ASSUME NEW t \in Threads, WakeStep(t) PROVE ShutdownInv'
  BY <1>1, <1>2, WorkSteps
<1>3. ASSUME NEW t \in Threads, DestroyStep(t) PROVE ShutdownInv'
  BY <1>0, <1>3, DestroyBeginShutdown, RequestExitShutdown, RequestRestoreShutdown,
     RequestPostShutdown, RequestsDoneShutdown, AwaitCheckShutdown, AwaitRecheckShutdown,
     AwaitPrepareShutdown, AwaitWokenShutdown, AwaitsDoneShutdown, FinalizeWorkerShutdown,
     FinalizeFreeShutdown
  DEF DestroyStep
<1>4. ASSUME NEW t \in Threads, NEW n \in Budgets, NEW keep \in Keeps, CallSchedule(t, n, keep)
      PROVE  ShutdownInv'
  BY <1>1, <1>4, WorkSteps
<1>5. ASSUME NEW w \in Workers, PumpStep(w) PROVE ShutdownInv'
  BY <1>0, <1>1, <1>5, WorkSteps, WorkerStartShutdown, CheckExitShutdown, Kinds
<1>6. ASSUME NEW w \in Workers, ExitStep(w) PROVE ShutdownInv'
  BY <1>0, <1>6, ExitMarkIdleShutdown, ExitZombieShutdown, ExitPostStateShutdown,
     ExitReadModeShutdown, ExitCountShutdown
  DEF ExitStep
<1>7. ASSUME NEW w \in Workers, DrainReturn(w) PROVE ShutdownInv'
  BY <1>1, <1>7, WorkSteps, Kinds
<1>8. ASSUME NEW w \in Workers, DrainRelease(w) PROVE ShutdownInv'
  <2>1. PICK x : x = IF refCount = 1 THEN "destroy" ELSE "drain"
    OBVIOUS
  <2>2. /\ w \in Threads /\ refCount > 0 /\ pc' = [pc EXCEPT ![w] = x] /\ pc[w] = "drain"
        /\ refCount' = refCount - 1 /\ givenRefs' = givenRefs - 1 /\ UNCHANGED StateVars
    BY <1>8, <2>1, Kinds DEF DrainRelease, ReleaseReference, Goto, StateVars
  <2>. QED
    BY <1>0, <2>1, <2>2, DropShutdown
<1>9. ASSUME NEW t \in Releasers, ProducerRelease(t) PROVE ShutdownInv'
  <2>1. PICK x : x = IF refCount = 1 THEN "destroy" ELSE "done"
    OBVIOUS
  <2>2. /\ t \in Threads /\ t \notin Workers
        /\ refCount > 0 /\ pc' = [pc EXCEPT ![t] = x] /\ pc[t] = "ready"
        /\ refCount' = refCount - 1 /\ givenRefs' = givenRefs /\ UNCHANGED StateVars
    BY <1>9, <2>1, Kinds, BudgetAssumption DEF ProducerRelease, ReleaseReference, Goto, StateVars
  <2>. QED
    BY <1>0, <2>1, <2>2, DropShutdown
<1>. QED
  BY <1>2, <1>3, <1>4, <1>5, <1>6, <1>7, <1>8, <1>9 DEF Next

----------------------------------------------------------------------------
(* The sleep and wake invariant.                                           *)

LEMMA CoverSets ==
  /\ Bumping \in SUBSET Threads /\ Coming \in SUBSET Threads
  /\ \A w : Publishing(w) \in SUBSET Threads
  /\ Bumping' \in SUBSET Threads /\ Coming' \in SUBSET Threads
  /\ \A w : Publishing(w)' \in SUBSET Threads
BY Kinds DEF Bumping, Coming, Publishing

\* No unit is published, and no worker loses sight of what covers the others.
Monotone ==
  ~ShuttingDown' =>
    /\ ~ShuttingDown /\ pending' <= pending
    /\ Bumping \subseteq Bumping' /\ Coming \subseteq Coming'
    /\ \A w \in Workers : pc'[w] \in {"mark_idle", "recheck"} /\ epochSeen'[w] = wakeEpoch' =>
         pc[w] \in {"mark_idle", "recheck"} /\ epochSeen[w] = wakeEpoch
    /\ \A w \in Workers : pc'[w] = "asleep" /\ w \in idleMask' =>
         pc[w] = "asleep" /\ w \in idleMask /\ Publishing(w) \subseteq Publishing(w)'

LEMMA MonotoneCovers ==
  ASSUME TypeOK, TypeOK', UnitsAreCovered, Monotone
  PROVE  UnitsAreCovered'
<1>. SUFFICES ASSUME ~ShuttingDown', NEW w \in Workers
              PROVE  /\ pc'[w] \in {"mark_idle", "recheck"} /\ epochSeen'[w] = wakeEpoch' =>
                          pending' <= Cardinality(Bumping')
                     /\ pc'[w] = "asleep" /\ w \in idleMask' =>
                          pending' <= Cardinality(Publishing(w)') + Cardinality(Coming')
  BY DEF UnitsAreCovered
<1>1. pending \in Nat /\ pending' \in Nat
  BY DEF TypeOK
<1>2. pending' <= pending /\ Bumping \subseteq Bumping' /\ Coming \subseteq Coming' /\ ~ShuttingDown
  BY DEF Monotone
<1>3. /\ Cardinality(Bumping) <= Cardinality(Bumping') /\ Cardinality(Coming) <= Cardinality(Coming')
      /\ Cardinality(Bumping) \in Nat /\ Cardinality(Bumping') \in Nat
      /\ Cardinality(Coming) \in Nat /\ Cardinality(Coming') \in Nat
      /\ Cardinality(Publishing(w)) \in Nat /\ Cardinality(Publishing(w)') \in Nat
      /\ Publishing(w) \subseteq Publishing(w)' =>
           Cardinality(Publishing(w)) <= Cardinality(Publishing(w)')
  BY <1>2, CoverSets, Sizes
<1>4. ASSUME pc'[w] \in {"mark_idle", "recheck"}, epochSeen'[w] = wakeEpoch'
      PROVE  pending' <= Cardinality(Bumping')
  <2>1. pending <= Cardinality(Bumping)
    BY <1>2, <1>4 DEF Monotone, UnitsAreCovered
  <2>. QED
    BY <1>1, <1>2, <1>3, <2>1
<1>5. ASSUME pc'[w] = "asleep", w \in idleMask'
      PROVE  pending' <= Cardinality(Publishing(w)') + Cardinality(Coming')
  <2>1. pending <= Cardinality(Publishing(w)) + Cardinality(Coming) /\ Publishing(w) \subseteq Publishing(w)'
    BY <1>2, <1>5 DEF Monotone, UnitsAreCovered
  <2>. QED
    BY <1>1, <1>2, <1>3, <2>1
<1>. QED
  BY <1>4, <1>5

\* A shutdown has begun: nothing more is promised of units, and a worker about
\* to sleep stays reachable, whoever posts or enrolls others.
LEMMA EndingKeepsWake ==
  ASSUME TypeOK, TypeOK', WakeInv, ShutdownInv, NEW t \in Threads, Ends(t),
         pc'[t] \notin WakePcs \cup {"recheck", "asleep"},
         UNCHANGED <<relaying, mask, remaining, budget, target, epochSeen, wakeEpoch>>,
         idleMask \subseteq idleMask',
         \A w \in Workers : token'[w] = token[w] /\ notifyEpoch[w] <= notifyEpoch'[w]
  PROVE  WakeInv'
<1>1. /\ \A u \in Threads : u # t => pc'[u] = pc[u]
      /\ pc[t] \notin WakePcs \cup {"recheck", "asleep"}
  BY PcSets, Kinds DEF Ends, ActivePcs, ShutdownInv, DestroyInv, ProducerPcs
<1>2. ClaimInv'
  BY <1>1, PcSets, Kinds DEF WakeInv, ClaimInv, Waking, TypeOK
<1>3. TokenInv'
  <2>. SUFFICES ASSUME NEW w \in Workers
                PROVE  token'[w] <= notifyEpoch'[w] /\ epochSeen'[w] <= wakeEpoch'
    BY DEF TokenInv
  <2>1. token[w] \in Nat /\ notifyEpoch[w] \in Nat /\ notifyEpoch'[w] \in Nat
    BY Kinds DEF TypeOK
  <2>2. token[w] <= notifyEpoch[w] /\ epochSeen[w] <= wakeEpoch
    BY DEF WakeInv, TokenInv
  <2>. QED
    BY <2>1, <2>2
<1>4. EnrolledIsReachable'
  <2>. SUFFICES ASSUME NEW w \in Workers, pc'[w] \in {"recheck", "asleep"},
                       notifyEpoch'[w] = token'[w]
                PROVE  w \in idleMask' \/ \E u \in Threads : pc'[u] = "post" /\ target'[u] = w
    BY DEF EnrolledIsReachable
  <2>1. pc[w] \in {"recheck", "asleep"}
    BY <1>1, Kinds
  <2>2. notifyEpoch[w] = token[w]
    BY DEF WakeInv, TokenInv, TypeOK
  <2>3. w \in idleMask \/ \E u \in Threads : pc[u] = "post" /\ target[u] = w
    BY <2>1, <2>2 DEF WakeInv, EnrolledIsReachable
  <2>. QED
    BY <1>1, <2>3, PcSets
<1>5. ShuttingDown'
  BY EndingKeeps
<1>. QED
  BY <1>2, <1>3, <1>4, <1>5 DEF WakeInv, EnrolledIsInactive, UnitsAreCovered

\* The steps of the shutdown.
LEMMA EndStepsKeepWake ==
  ASSUME Inv, TypeOK'
  PROVE  /\ \A w \in Workers : ExitStep(w) => WakeInv'
         /\ \A t \in Threads : DestroyStep(t) => WakeInv'
<1>0. TypeOK /\ WakeInv /\ ShutdownInv
  BY DEF Inv
<1>1. /\ pc \in [Threads -> Pcs] /\ pc' \in [Threads -> Pcs]
      /\ notifyEpoch \in [Workers -> Nat] /\ token \in [Threads -> Nat]
      /\ \A t \in Threads : pc[t] \in AwaitPcs \cup RequestPcs => t \in Producers \/ releaseOnExit
      /\ \A t \in Threads : pc[t] \in AwaitPcs => t \in Producers
      /\ \A t \in Threads : pc[t] = "request_post" => exitIndex \in Workers
      /\ \A p \in Producers : pc[p] \in RequestPcs => ~releaseOnExit
  BY <1>0, PcSets, Kinds DEF TypeOK, ShutdownInv, DestroyInv, WorkerPcs
<1>. USE DEF Goto, wakeVars, shutdownVars, pumpVars, claimVars
<1>2. ASSUME NEW w \in Workers, ExitMarkIdle(w) PROVE WakeInv'
  <2>1. w \in Threads /\ Ends(w)
    BY <1>1, <1>2, PcSets, Kinds DEF Ends, ActivePcs, ExitMarkIdle
  <2>2. /\ pc'[w] \notin WakePcs \cup {"recheck", "asleep"}
        /\ UNCHANGED <<relaying, mask, remaining, budget, target, epochSeen, wakeEpoch>>
        /\ idleMask \subseteq idleMask'
        /\ \A x \in Workers : token'[x] = token[x] /\ notifyEpoch[x] <= notifyEpoch'[x]
    BY <1>1, <1>2, <2>1, PcSets, Kinds DEF ExitMarkIdle
  <2>. QED
    BY <1>0, <2>1, <2>2, EndingKeepsWake
<1>3. ASSUME NEW w \in Workers, ExitZombie(w) PROVE WakeInv'
  <2>1. w \in Threads /\ Ends(w)
    BY <1>1, <1>3, PcSets, Kinds DEF Ends, ActivePcs, ExitZombie
  <2>2. /\ pc'[w] \notin WakePcs \cup {"recheck", "asleep"}
        /\ UNCHANGED <<relaying, mask, remaining, budget, target, epochSeen, wakeEpoch>>
        /\ idleMask \subseteq idleMask'
        /\ \A x \in Workers : token'[x] = token[x] /\ notifyEpoch[x] <= notifyEpoch'[x]
    BY <1>1, <1>3, <2>1, PcSets, Kinds DEF ExitZombie
  <2>. QED
    BY <1>0, <2>1, <2>2, EndingKeepsWake
<1>4. ASSUME NEW w \in Workers, ExitPostState(w) PROVE WakeInv'
  <2>1. w \in Threads /\ Ends(w)
    BY <1>1, <1>4, PcSets, Kinds DEF Ends, ActivePcs, ExitPostState
  <2>2. /\ pc'[w] \notin WakePcs \cup {"recheck", "asleep"}
        /\ UNCHANGED <<relaying, mask, remaining, budget, target, epochSeen, wakeEpoch>>
        /\ idleMask \subseteq idleMask'
        /\ \A x \in Workers : token'[x] = token[x] /\ notifyEpoch[x] <= notifyEpoch'[x]
    BY <1>1, <1>4, <2>1, PcSets, Kinds DEF ExitPostState
  <2>. QED
    BY <1>0, <2>1, <2>2, EndingKeepsWake
<1>5. ASSUME NEW w \in Workers, ExitReadMode(w) PROVE WakeInv'
  <2>1. w \in Threads /\ Ends(w)
    BY <1>1, <1>5, PcSets, Kinds DEF Ends, ActivePcs, ExitReadMode
  <2>2. /\ pc'[w] \notin WakePcs \cup {"recheck", "asleep"}
        /\ UNCHANGED <<relaying, mask, remaining, budget, target, epochSeen, wakeEpoch>>
        /\ idleMask \subseteq idleMask'
        /\ \A x \in Workers : token'[x] = token[x] /\ notifyEpoch[x] <= notifyEpoch'[x]
    BY <1>1, <1>5, <2>1, PcSets, Kinds DEF ExitReadMode
  <2>. QED
    BY <1>0, <2>1, <2>2, EndingKeepsWake
<1>6. ASSUME NEW w \in Workers, ExitCount(w) PROVE WakeInv'
  <2>1. w \in Threads /\ Ends(w)
    BY <1>1, <1>6, PcSets, Kinds DEF Ends, ActivePcs, ExitCount
  <2>2. /\ pc'[w] \notin WakePcs \cup {"recheck", "asleep"}
        /\ UNCHANGED <<relaying, mask, remaining, budget, target, epochSeen, wakeEpoch>>
        /\ idleMask \subseteq idleMask'
        /\ \A x \in Workers : token'[x] = token[x] /\ notifyEpoch[x] <= notifyEpoch'[x]
    BY <1>1, <1>6, <2>1, PcSets, Kinds DEF ExitCount
  <2>. QED
    BY <1>0, <2>1, <2>2, EndingKeepsWake
<1>7. ASSUME NEW t \in Threads, DestroyBegin(t) PROVE WakeInv'
  <2>1. t \in Threads /\ Ends(t)
    BY <1>1, <1>7, PcSets, Kinds DEF Ends, ActivePcs, DestroyBegin
  <2>2. /\ pc'[t] \notin WakePcs \cup {"recheck", "asleep"}
        /\ UNCHANGED <<relaying, mask, remaining, budget, target, epochSeen, wakeEpoch>>
        /\ idleMask \subseteq idleMask'
        /\ \A x \in Workers : token'[x] = token[x] /\ notifyEpoch[x] <= notifyEpoch'[x]
    BY <1>1, <1>7, <2>1, PcSets, Kinds DEF DestroyBegin
  <2>. QED
    BY <1>0, <2>1, <2>2, EndingKeepsWake
<1>8. ASSUME NEW t \in Threads, RequestExit(t) PROVE WakeInv'
  <2>1. t \in Threads /\ Ends(t)
    BY <1>1, <1>8, PcSets, Kinds DEF Ends, ActivePcs, RequestExit
  <2>2. /\ pc'[t] \notin WakePcs \cup {"recheck", "asleep"}
        /\ UNCHANGED <<relaying, mask, remaining, budget, target, epochSeen, wakeEpoch>>
        /\ idleMask \subseteq idleMask'
        /\ \A x \in Workers : token'[x] = token[x] /\ notifyEpoch[x] <= notifyEpoch'[x]
    BY <1>1, <1>8, <2>1, PcSets, Kinds DEF RequestExit
  <2>. QED
    BY <1>0, <2>1, <2>2, EndingKeepsWake
<1>9. ASSUME NEW t \in Threads, RequestRestore(t) PROVE WakeInv'
  <2>1. t \in Threads /\ Ends(t)
    BY <1>1, <1>9, PcSets, Kinds DEF Ends, ActivePcs, RequestRestore
  <2>2. /\ pc'[t] \notin WakePcs \cup {"recheck", "asleep"}
        /\ UNCHANGED <<relaying, mask, remaining, budget, target, epochSeen, wakeEpoch>>
        /\ idleMask \subseteq idleMask'
        /\ \A x \in Workers : token'[x] = token[x] /\ notifyEpoch[x] <= notifyEpoch'[x]
    BY <1>1, <1>9, <2>1, PcSets, Kinds DEF RequestRestore
  <2>. QED
    BY <1>0, <2>1, <2>2, EndingKeepsWake
<1>10. ASSUME NEW t \in Threads, RequestPost(t) PROVE WakeInv'
  <2>1. t \in Threads /\ Ends(t)
    BY <1>1, <1>10, PcSets, Kinds DEF Ends, ActivePcs, RequestPost, Post
  <2>2. /\ pc'[t] \notin WakePcs \cup {"recheck", "asleep"}
        /\ UNCHANGED <<relaying, mask, remaining, budget, target, epochSeen, wakeEpoch>>
        /\ idleMask \subseteq idleMask'
        /\ \A x \in Workers : token'[x] = token[x] /\ notifyEpoch[x] <= notifyEpoch'[x]
    BY <1>1, <1>10, <2>1, PcSets, Kinds DEF RequestPost, Post
  <2>. QED
    BY <1>0, <2>1, <2>2, EndingKeepsWake
<1>11. ASSUME NEW t \in Threads, RequestsDone(t) PROVE WakeInv'
  <2>1. t \in Threads /\ Ends(t)
    BY <1>1, <1>11, PcSets, Kinds DEF Ends, ActivePcs, RequestsDone
  <2>2. /\ pc'[t] \notin WakePcs \cup {"recheck", "asleep"}
        /\ UNCHANGED <<relaying, mask, remaining, budget, target, epochSeen, wakeEpoch>>
        /\ idleMask \subseteq idleMask'
        /\ \A x \in Workers : token'[x] = token[x] /\ notifyEpoch[x] <= notifyEpoch'[x]
    BY <1>1, <1>11, <2>1, PcSets, Kinds DEF RequestsDone
  <2>. QED
    BY <1>0, <2>1, <2>2, EndingKeepsWake
<1>12. ASSUME NEW t \in Threads, AwaitCheck(t) PROVE WakeInv'
  <2>1. t \in Threads /\ Ends(t)
    BY <1>1, <1>12, PcSets, Kinds DEF Ends, ActivePcs, AwaitCheck, AwaitTest
  <2>2. /\ pc'[t] \notin WakePcs \cup {"recheck", "asleep"}
        /\ UNCHANGED <<relaying, mask, remaining, budget, target, epochSeen, wakeEpoch>>
        /\ idleMask \subseteq idleMask'
        /\ \A x \in Workers : token'[x] = token[x] /\ notifyEpoch[x] <= notifyEpoch'[x]
    BY <1>1, <1>12, <2>1, PcSets, Kinds DEF AwaitCheck, AwaitTest
  <2>. QED
    BY <1>0, <2>1, <2>2, EndingKeepsWake
<1>13. ASSUME NEW t \in Threads, AwaitRecheck(t) PROVE WakeInv'
  <2>1. t \in Threads /\ Ends(t)
    BY <1>1, <1>13, PcSets, Kinds DEF Ends, ActivePcs, AwaitRecheck, AwaitTest
  <2>2. /\ pc'[t] \notin WakePcs \cup {"recheck", "asleep"}
        /\ UNCHANGED <<relaying, mask, remaining, budget, target, epochSeen, wakeEpoch>>
        /\ idleMask \subseteq idleMask'
        /\ \A x \in Workers : token'[x] = token[x] /\ notifyEpoch[x] <= notifyEpoch'[x]
    BY <1>1, <1>13, <2>1, PcSets, Kinds DEF AwaitRecheck, AwaitTest
  <2>. QED
    BY <1>0, <2>1, <2>2, EndingKeepsWake
<1>14. ASSUME NEW t \in Threads, AwaitPrepare(t) PROVE WakeInv'
  <2>1. t \in Threads /\ Ends(t)
    BY <1>1, <1>14, PcSets, Kinds DEF Ends, ActivePcs, AwaitPrepare
  <2>2. /\ pc'[t] \notin WakePcs \cup {"recheck", "asleep"}
        /\ UNCHANGED <<relaying, mask, remaining, budget, target, epochSeen, wakeEpoch>>
        /\ idleMask \subseteq idleMask'
        /\ \A x \in Workers : token'[x] = token[x] /\ notifyEpoch[x] <= notifyEpoch'[x]
    BY <1>1, <1>14, <2>1, PcSets, Kinds DEF AwaitPrepare
  <2>. QED
    BY <1>0, <2>1, <2>2, EndingKeepsWake
<1>15. ASSUME NEW t \in Threads, AwaitWoken(t) PROVE WakeInv'
  <2>1. t \in Threads /\ Ends(t)
    BY <1>1, <1>15, PcSets, Kinds DEF Ends, ActivePcs, AwaitWoken
  <2>2. /\ pc'[t] \notin WakePcs \cup {"recheck", "asleep"}
        /\ UNCHANGED <<relaying, mask, remaining, budget, target, epochSeen, wakeEpoch>>
        /\ idleMask \subseteq idleMask'
        /\ \A x \in Workers : token'[x] = token[x] /\ notifyEpoch[x] <= notifyEpoch'[x]
    BY <1>1, <1>15, <2>1, PcSets, Kinds DEF AwaitWoken
  <2>. QED
    BY <1>0, <2>1, <2>2, EndingKeepsWake
<1>16. ASSUME NEW t \in Threads, AwaitsDone(t) PROVE WakeInv'
  <2>1. t \in Threads /\ Ends(t)
    BY <1>1, <1>16, PcSets, Kinds DEF Ends, ActivePcs, AwaitsDone
  <2>2. /\ pc'[t] \notin WakePcs \cup {"recheck", "asleep"}
        /\ UNCHANGED <<relaying, mask, remaining, budget, target, epochSeen, wakeEpoch>>
        /\ idleMask \subseteq idleMask'
        /\ \A x \in Workers : token'[x] = token[x] /\ notifyEpoch[x] <= notifyEpoch'[x]
    BY <1>1, <1>16, <2>1, PcSets, Kinds DEF AwaitsDone
  <2>. QED
    BY <1>0, <2>1, <2>2, EndingKeepsWake
<1>17. ASSUME NEW t \in Threads, FinalizeWorker(t) PROVE WakeInv'
  <2>1. t \in Threads /\ Ends(t)
    BY <1>1, <1>17, PcSets, Kinds DEF Ends, ActivePcs, FinalizeWorker
  <2>2. /\ pc'[t] \notin WakePcs \cup {"recheck", "asleep"}
        /\ UNCHANGED <<relaying, mask, remaining, budget, target, epochSeen, wakeEpoch>>
        /\ idleMask \subseteq idleMask'
        /\ \A x \in Workers : token'[x] = token[x] /\ notifyEpoch[x] <= notifyEpoch'[x]
    BY <1>1, <1>17, <2>1, PcSets, Kinds DEF FinalizeWorker
  <2>. QED
    BY <1>0, <2>1, <2>2, EndingKeepsWake
<1>18. ASSUME NEW t \in Threads, FinalizeFree(t) PROVE WakeInv'
  <2>1. t \in Threads /\ Ends(t)
    BY <1>1, <1>18, PcSets, Kinds DEF Ends, ActivePcs, FinalizeFree
  <2>2. /\ pc'[t] \notin WakePcs \cup {"recheck", "asleep"}
        /\ UNCHANGED <<relaying, mask, remaining, budget, target, epochSeen, wakeEpoch>>
        /\ idleMask \subseteq idleMask'
        /\ \A x \in Workers : token'[x] = token[x] /\ notifyEpoch[x] <= notifyEpoch'[x]
    BY <1>1, <1>18, <2>1, PcSets, Kinds DEF FinalizeFree
  <2>. QED
    BY <1>0, <2>1, <2>2, EndingKeepsWake
<1>. QED
  BY <1>2, <1>3, <1>4, <1>5, <1>6, <1>7, <1>8, <1>9, <1>10, <1>11, <1>12, <1>13, <1>14, <1>15,
     <1>16, <1>17, <1>18
  DEF ExitStep, DestroyStep

LEMMA WakeLoadMaskWake ==
  ASSUME TypeOK, TypeOK', WakeInv, ShutdownInv, NEW t \in Threads, WakeLoadMask(t)
  PROVE  WakeInv'
<1>0. t \in Threads
  BY Kinds
<1>1. /\ pc \in [Threads -> Pcs] /\ relaying \subseteq Workers /\ idleMask \subseteq Workers
      /\ token \in [Threads -> Nat] /\ notifyEpoch \in [Workers -> Nat]
      /\ epochSeen \in [Workers -> Nat] /\ wakeEpoch \in Nat /\ pending \in Nat
      /\ remaining \in [Threads -> Nat] /\ budget \in [Threads -> Nat] /\ refCount \in Nat
      /\ mask \in [Threads -> SUBSET Workers] /\ target \in [Threads -> Workers]
      /\ isActive \in [Workers -> BOOLEAN] /\ desiredWake \in Nat
  BY DEF TypeOK
<1>2. ClaimInv /\ TokenInv /\ EnrolledIsReachable /\ EnrolledIsInactive /\ UnitsAreCovered /\ CalmInv
  BY DEF WakeInv, ShutdownInv
<1>3. ClaimInv'
  BY <1>0, <1>1, <1>2, PcSets, Kinds
  DEF ClaimInv, Waking, WakeLoadMask, Goto, wakeVars, pumpVars, claimVars, shutdownVars
<1>4. TokenInv'
  BY <1>0, <1>1, <1>2, PcSets, Kinds
  DEF TokenInv, WakeLoadMask, Goto, wakeVars, pumpVars, claimVars, shutdownVars
<1>5. EnrolledIsReachable'
  BY <1>0, <1>1, <1>2, PcSets, Kinds
  DEF EnrolledIsReachable, TokenInv, WakeLoadMask, Goto, wakeVars, pumpVars, claimVars,
     shutdownVars
<1>6. EnrolledIsInactive'
  BY <1>0, <1>1, <1>2, PcSets, Kinds
  DEF EnrolledIsInactive, EnrolledPcs, CalmInv, Calm, ShuttingDown, WakeLoadMask, Goto, wakeVars,
     pumpVars, claimVars, shutdownVars
<1>7. Monotone
  BY <1>0, <1>1, <1>2, PcSets, Kinds
  DEF Monotone, Bumping, Coming, ComingPcs, Publishing, ClaimInv, Waking, TokenInv,
     EnrolledIsInactive, EnrolledPcs, CalmInv, Calm, ShuttingDown, WakeLoadMask, Goto, wakeVars,
     pumpVars, claimVars, shutdownVars
<1>. QED
  BY <1>2, <1>3, <1>4, <1>5, <1>6, <1>7, MonotoneCovers DEF WakeInv

LEMMA ClaimPostWake ==
  ASSUME TypeOK, TypeOK', WakeInv, ShutdownInv, NEW t \in Threads, ClaimPost(t)
  PROVE  WakeInv'
<1>0. t \in Threads
  BY Kinds
<1>1. /\ pc \in [Threads -> Pcs] /\ relaying \subseteq Workers /\ idleMask \subseteq Workers
      /\ token \in [Threads -> Nat] /\ notifyEpoch \in [Workers -> Nat]
      /\ epochSeen \in [Workers -> Nat] /\ wakeEpoch \in Nat /\ pending \in Nat
      /\ remaining \in [Threads -> Nat] /\ budget \in [Threads -> Nat] /\ refCount \in Nat
      /\ mask \in [Threads -> SUBSET Workers] /\ target \in [Threads -> Workers]
      /\ isActive \in [Workers -> BOOLEAN] /\ desiredWake \in Nat
  BY DEF TypeOK
<1>2. ClaimInv /\ TokenInv /\ EnrolledIsReachable /\ EnrolledIsInactive /\ UnitsAreCovered /\ CalmInv
  BY DEF WakeInv, ShutdownInv
<1>3. ClaimInv'
  BY <1>0, <1>1, <1>2, PcSets, Kinds
  DEF ClaimInv, Waking, ClaimPost, Goto, wakeVars, pumpVars, claimVars, shutdownVars, Post
<1>4. TokenInv'
  BY <1>0, <1>1, <1>2, PcSets, Kinds
  DEF TokenInv, ClaimPost, Goto, wakeVars, pumpVars, claimVars, shutdownVars, Post
<1>5. EnrolledIsReachable'
  BY <1>0, <1>1, <1>2, PcSets, Kinds
  DEF EnrolledIsReachable, TokenInv, ClaimPost, Goto, wakeVars, pumpVars, claimVars,
     shutdownVars, Post
<1>6. EnrolledIsInactive'
  BY <1>0, <1>1, <1>2, PcSets, Kinds
  DEF EnrolledIsInactive, EnrolledPcs, CalmInv, Calm, ShuttingDown, ClaimPost, Goto, wakeVars,
     pumpVars, claimVars, shutdownVars, Post
<1>7. Monotone
  BY <1>0, <1>1, <1>2, PcSets, Kinds
  DEF Monotone, Bumping, Coming, ComingPcs, Publishing, ClaimInv, Waking, TokenInv,
     EnrolledIsInactive, EnrolledPcs, CalmInv, Calm, ShuttingDown, ClaimPost, Goto, wakeVars,
     pumpVars, claimVars, shutdownVars, Post
<1>. QED
  BY <1>2, <1>3, <1>4, <1>5, <1>6, <1>7, MonotoneCovers DEF WakeInv

LEMMA WakeDeliveredWake ==
  ASSUME TypeOK, TypeOK', WakeInv, ShutdownInv, NEW t \in Threads, WakeDelivered(t)
  PROVE  WakeInv'
<1>0. t \in Threads
  BY Kinds
<1>1. /\ pc \in [Threads -> Pcs] /\ relaying \subseteq Workers /\ idleMask \subseteq Workers
      /\ token \in [Threads -> Nat] /\ notifyEpoch \in [Workers -> Nat]
      /\ epochSeen \in [Workers -> Nat] /\ wakeEpoch \in Nat /\ pending \in Nat
      /\ remaining \in [Threads -> Nat] /\ budget \in [Threads -> Nat] /\ refCount \in Nat
      /\ mask \in [Threads -> SUBSET Workers] /\ target \in [Threads -> Workers]
      /\ isActive \in [Workers -> BOOLEAN] /\ desiredWake \in Nat
  BY DEF TypeOK
<1>2. ClaimInv /\ TokenInv /\ EnrolledIsReachable /\ EnrolledIsInactive /\ UnitsAreCovered /\ CalmInv
  BY DEF WakeInv, ShutdownInv
<1>3. ClaimInv'
  BY <1>0, <1>1, <1>2, PcSets, Kinds
  DEF ClaimInv, Waking, WakeDelivered, Goto, wakeVars, pumpVars, claimVars, shutdownVars,
     ForgetClaims, CallerPc
<1>4. TokenInv'
  BY <1>0, <1>1, <1>2, PcSets, Kinds
  DEF TokenInv, WakeDelivered, Goto, wakeVars, pumpVars, claimVars, shutdownVars, ForgetClaims,
     CallerPc
<1>5. EnrolledIsReachable'
  BY <1>0, <1>1, <1>2, PcSets, Kinds
  DEF EnrolledIsReachable, TokenInv, WakeDelivered, Goto, wakeVars, pumpVars, claimVars,
     shutdownVars, ForgetClaims, CallerPc
<1>6. EnrolledIsInactive'
  BY <1>0, <1>1, <1>2, PcSets, Kinds
  DEF EnrolledIsInactive, EnrolledPcs, CalmInv, Calm, ShuttingDown, WakeDelivered, Goto,
     wakeVars, pumpVars, claimVars, shutdownVars, ForgetClaims, CallerPc
<1>7. Monotone
  <2>1. /\ pc[t] = "claim" /\ t \notin relaying /\ remaining[t] = 0
        /\ pc' = [pc EXCEPT ![t] = CallerPc(t)] /\ UNCHANGED <<wakeVars, epochSeen, relaying, refCount>>
        /\ \A u \in Threads : u # t =>
             mask'[u] = mask[u] /\ remaining'[u] = remaining[u] /\ budget'[u] = budget[u]
    BY <1>1 DEF WakeDelivered, ForgetClaims, Goto, wakeVars, pumpVars, shutdownVars
  <2>2. remaining[t] # budget[t]
    BY <1>0, <1>1, <1>2, <2>1, PcSets DEF ClaimInv, Waking
  <2>3. CallerPc(t) \in {"drain", "ready"}
    BY DEF CallerPc
  <2>4. \A u \in Threads : u # t => pc'[u] = pc[u]
    BY <1>1, <2>1
  <2>5. Bumping \subseteq Bumping' /\ Coming \subseteq Coming'
    BY <1>0, <2>1, <2>4, Kinds DEF Bumping, Coming, ComingPcs, wakeVars
  <2>6. \A w \in Workers : Publishing(w) \subseteq Publishing(w)'
    BY <2>1, <2>2, <2>4 DEF Publishing
  <2>7. pc'[t] \in {"drain", "ready"}
    BY <1>0, <1>1, <2>1, <2>3
  <2>. QED
    BY <1>1, <2>1, <2>4, <2>5, <2>6, <2>7, Kinds DEF Monotone, ShuttingDown, wakeVars
<1>. QED
  BY <1>2, <1>3, <1>4, <1>5, <1>6, <1>7, MonotoneCovers DEF WakeInv

LEMMA WakeExhaustedWake ==
  ASSUME TypeOK, TypeOK', WakeInv, ShutdownInv, NEW t \in Threads, WakeExhausted(t)
  PROVE  WakeInv'
<1>0. t \in Threads
  BY Kinds
<1>1. /\ pc \in [Threads -> Pcs] /\ relaying \subseteq Workers /\ idleMask \subseteq Workers
      /\ token \in [Threads -> Nat] /\ notifyEpoch \in [Workers -> Nat]
      /\ epochSeen \in [Workers -> Nat] /\ wakeEpoch \in Nat /\ pending \in Nat
      /\ remaining \in [Threads -> Nat] /\ budget \in [Threads -> Nat] /\ refCount \in Nat
      /\ mask \in [Threads -> SUBSET Workers] /\ target \in [Threads -> Workers]
      /\ isActive \in [Workers -> BOOLEAN] /\ desiredWake \in Nat
  BY DEF TypeOK
<1>2. ClaimInv /\ TokenInv /\ EnrolledIsReachable /\ EnrolledIsInactive /\ UnitsAreCovered /\ CalmInv
  BY DEF WakeInv, ShutdownInv
<1>3. ClaimInv'
  BY <1>0, <1>1, <1>2, PcSets, Kinds
  DEF ClaimInv, Waking, WakeExhausted, Goto, wakeVars, pumpVars, claimVars, shutdownVars
<1>4. TokenInv'
  BY <1>0, <1>1, <1>2, PcSets, Kinds
  DEF TokenInv, WakeExhausted, Goto, wakeVars, pumpVars, claimVars, shutdownVars
<1>5. EnrolledIsReachable'
  BY <1>0, <1>1, <1>2, PcSets, Kinds
  DEF EnrolledIsReachable, TokenInv, WakeExhausted, Goto, wakeVars, pumpVars, claimVars,
     shutdownVars
<1>6. EnrolledIsInactive'
  BY <1>0, <1>1, <1>2, PcSets, Kinds
  DEF EnrolledIsInactive, EnrolledPcs, CalmInv, Calm, ShuttingDown, WakeExhausted, Goto,
     wakeVars, pumpVars, claimVars, shutdownVars
<1>7. Monotone
  BY <1>0, <1>1, <1>2, PcSets, Kinds
  DEF Monotone, Bumping, Coming, ComingPcs, Publishing, ClaimInv, Waking, TokenInv,
     EnrolledIsInactive, EnrolledPcs, CalmInv, Calm, ShuttingDown, WakeExhausted, Goto, wakeVars,
     pumpVars, claimVars, shutdownVars
<1>. QED
  BY <1>2, <1>3, <1>4, <1>5, <1>6, <1>7, MonotoneCovers DEF WakeInv

LEMMA WakeDemandWake ==
  ASSUME TypeOK, TypeOK', WakeInv, ShutdownInv, NEW t \in Threads, WakeDemand(t)
  PROVE  WakeInv'
<1>0. t \in Threads
  BY Kinds
<1>1. /\ pc \in [Threads -> Pcs] /\ relaying \subseteq Workers /\ idleMask \subseteq Workers
      /\ token \in [Threads -> Nat] /\ notifyEpoch \in [Workers -> Nat]
      /\ epochSeen \in [Workers -> Nat] /\ wakeEpoch \in Nat /\ pending \in Nat
      /\ remaining \in [Threads -> Nat] /\ budget \in [Threads -> Nat] /\ refCount \in Nat
      /\ mask \in [Threads -> SUBSET Workers] /\ target \in [Threads -> Workers]
      /\ isActive \in [Workers -> BOOLEAN] /\ desiredWake \in Nat
  BY DEF TypeOK
<1>2. ClaimInv /\ TokenInv /\ EnrolledIsReachable /\ EnrolledIsInactive /\ UnitsAreCovered /\ CalmInv
  BY DEF WakeInv, ShutdownInv
<1>3. ClaimInv'
  BY <1>0, <1>1, <1>2, PcSets, Kinds
  DEF ClaimInv, Waking, WakeDemand, Goto, wakeVars, pumpVars, claimVars, shutdownVars,
     ForgetClaims, CallerPc
<1>4. TokenInv'
  BY <1>0, <1>1, <1>2, PcSets, Kinds
  DEF TokenInv, WakeDemand, Goto, wakeVars, pumpVars, claimVars, shutdownVars, ForgetClaims,
     CallerPc
<1>5. EnrolledIsReachable'
  BY <1>0, <1>1, <1>2, PcSets, Kinds
  DEF EnrolledIsReachable, TokenInv, WakeDemand, Goto, wakeVars, pumpVars, claimVars,
     shutdownVars, ForgetClaims, CallerPc
<1>6. EnrolledIsInactive'
  BY <1>0, <1>1, <1>2, PcSets, Kinds
  DEF EnrolledIsInactive, EnrolledPcs, CalmInv, Calm, ShuttingDown, WakeDemand, Goto, wakeVars,
     pumpVars, claimVars, shutdownVars, ForgetClaims, CallerPc
<1>7. Monotone
  BY <1>0, <1>1, <1>2, PcSets, Kinds
  DEF Monotone, Bumping, Coming, ComingPcs, Publishing, ClaimInv, Waking, TokenInv,
     EnrolledIsInactive, EnrolledPcs, CalmInv, Calm, ShuttingDown, WakeDemand, Goto, wakeVars,
     pumpVars, claimVars, shutdownVars, ForgetClaims, CallerPc
<1>. QED
  BY <1>2, <1>3, <1>4, <1>5, <1>6, <1>7, MonotoneCovers DEF WakeInv

LEMMA WakeSeedWake ==
  ASSUME TypeOK, TypeOK', WakeInv, ShutdownInv, NEW t \in Threads, WakeSeed(t)
  PROVE  WakeInv'
<1>0. t \in Threads
  BY Kinds
<1>1. /\ pc \in [Threads -> Pcs] /\ relaying \subseteq Workers /\ idleMask \subseteq Workers
      /\ token \in [Threads -> Nat] /\ notifyEpoch \in [Workers -> Nat]
      /\ epochSeen \in [Workers -> Nat] /\ wakeEpoch \in Nat /\ pending \in Nat
      /\ remaining \in [Threads -> Nat] /\ budget \in [Threads -> Nat] /\ refCount \in Nat
      /\ mask \in [Threads -> SUBSET Workers] /\ target \in [Threads -> Workers]
      /\ isActive \in [Workers -> BOOLEAN] /\ desiredWake \in Nat
  BY DEF TypeOK
<1>2. ClaimInv /\ TokenInv /\ EnrolledIsReachable /\ EnrolledIsInactive /\ UnitsAreCovered /\ CalmInv
  BY DEF WakeInv, ShutdownInv
<1>3. ClaimInv'
  BY <1>0, <1>1, <1>2, PcSets, Kinds
  DEF ClaimInv, Waking, WakeSeed, Goto, wakeVars, pumpVars, claimVars, shutdownVars, Post,
     CallerPc
<1>4. TokenInv'
  BY <1>0, <1>1, <1>2, PcSets, Kinds
  DEF TokenInv, WakeSeed, Goto, wakeVars, pumpVars, claimVars, shutdownVars, Post, CallerPc
<1>5. EnrolledIsReachable'
  BY <1>0, <1>1, <1>2, PcSets, Kinds
  DEF EnrolledIsReachable, TokenInv, WakeSeed, Goto, wakeVars, pumpVars, claimVars, shutdownVars,
     Post, CallerPc
<1>6. EnrolledIsInactive'
  BY <1>0, <1>1, <1>2, PcSets, Kinds
  DEF EnrolledIsInactive, EnrolledPcs, CalmInv, Calm, ShuttingDown, WakeSeed, Goto, wakeVars,
     pumpVars, claimVars, shutdownVars, Post, CallerPc
<1>7. Monotone
  BY <1>0, <1>1, <1>2, PcSets, Kinds
  DEF Monotone, Bumping, Coming, ComingPcs, Publishing, ClaimInv, Waking, TokenInv,
     EnrolledIsInactive, EnrolledPcs, CalmInv, Calm, ShuttingDown, WakeSeed, Goto, wakeVars,
     pumpVars, claimVars, shutdownVars, Post, CallerPc
<1>. QED
  BY <1>2, <1>3, <1>4, <1>5, <1>6, <1>7, MonotoneCovers DEF WakeInv

LEMMA WorkerStartWake ==
  ASSUME TypeOK, TypeOK', WakeInv, ShutdownInv, NEW w \in Workers, WorkerStart(w)
  PROVE  WakeInv'
<1>0. w \in Threads
  BY Kinds
<1>1. /\ pc \in [Threads -> Pcs] /\ relaying \subseteq Workers /\ idleMask \subseteq Workers
      /\ token \in [Threads -> Nat] /\ notifyEpoch \in [Workers -> Nat]
      /\ epochSeen \in [Workers -> Nat] /\ wakeEpoch \in Nat /\ pending \in Nat
      /\ remaining \in [Threads -> Nat] /\ budget \in [Threads -> Nat] /\ refCount \in Nat
      /\ mask \in [Threads -> SUBSET Workers] /\ target \in [Threads -> Workers]
      /\ isActive \in [Workers -> BOOLEAN] /\ desiredWake \in Nat
  BY DEF TypeOK
<1>2. ClaimInv /\ TokenInv /\ EnrolledIsReachable /\ EnrolledIsInactive /\ UnitsAreCovered /\ CalmInv
  BY DEF WakeInv, ShutdownInv
<1>3. ClaimInv'
  BY <1>0, <1>1, <1>2, PcSets, Kinds
  DEF ClaimInv, Waking, WorkerStart, Goto, wakeVars, pumpVars, claimVars, shutdownVars
<1>4. TokenInv'
  BY <1>0, <1>1, <1>2, PcSets, Kinds
  DEF TokenInv, WorkerStart, Goto, wakeVars, pumpVars, claimVars, shutdownVars
<1>5. EnrolledIsReachable'
  BY <1>0, <1>1, <1>2, PcSets, Kinds
  DEF EnrolledIsReachable, TokenInv, WorkerStart, Goto, wakeVars, pumpVars, claimVars,
     shutdownVars
<1>6. EnrolledIsInactive'
  BY <1>0, <1>1, <1>2, PcSets, Kinds
  DEF EnrolledIsInactive, EnrolledPcs, CalmInv, Calm, ShuttingDown, WorkerStart, Goto, wakeVars,
     pumpVars, claimVars, shutdownVars
<1>7. Monotone
  BY <1>0, <1>1, <1>2, PcSets, Kinds
  DEF Monotone, Bumping, Coming, ComingPcs, Publishing, ClaimInv, Waking, TokenInv,
     EnrolledIsInactive, EnrolledPcs, CalmInv, Calm, ShuttingDown, WorkerStart, Goto, wakeVars,
     pumpVars, claimVars, shutdownVars
<1>. QED
  BY <1>2, <1>3, <1>4, <1>5, <1>6, <1>7, MonotoneCovers DEF WakeInv

LEMMA PrepareWaitWake ==
  ASSUME TypeOK, TypeOK', WakeInv, ShutdownInv, NEW w \in Workers, PrepareWait(w)
  PROVE  WakeInv'
<1>0. w \in Threads
  BY Kinds
<1>1. /\ pc \in [Threads -> Pcs] /\ relaying \subseteq Workers /\ idleMask \subseteq Workers
      /\ token \in [Threads -> Nat] /\ notifyEpoch \in [Workers -> Nat]
      /\ epochSeen \in [Workers -> Nat] /\ wakeEpoch \in Nat /\ pending \in Nat
      /\ remaining \in [Threads -> Nat] /\ budget \in [Threads -> Nat] /\ refCount \in Nat
      /\ mask \in [Threads -> SUBSET Workers] /\ target \in [Threads -> Workers]
      /\ isActive \in [Workers -> BOOLEAN] /\ desiredWake \in Nat
  BY DEF TypeOK
<1>2. ClaimInv /\ TokenInv /\ EnrolledIsReachable /\ EnrolledIsInactive /\ UnitsAreCovered /\ CalmInv
  BY DEF WakeInv, ShutdownInv
<1>3. ClaimInv'
  BY <1>0, <1>1, <1>2, PcSets, Kinds
  DEF ClaimInv, Waking, PrepareWait, Goto, wakeVars, pumpVars, claimVars, shutdownVars
<1>4. TokenInv'
  BY <1>0, <1>1, <1>2, PcSets, Kinds
  DEF TokenInv, PrepareWait, Goto, wakeVars, pumpVars, claimVars, shutdownVars
<1>5. EnrolledIsReachable'
  BY <1>0, <1>1, <1>2, PcSets, Kinds
  DEF EnrolledIsReachable, TokenInv, PrepareWait, Goto, wakeVars, pumpVars, claimVars,
     shutdownVars
<1>6. EnrolledIsInactive'
  BY <1>0, <1>1, <1>2, PcSets, Kinds
  DEF EnrolledIsInactive, EnrolledPcs, CalmInv, Calm, ShuttingDown, PrepareWait, Goto, wakeVars,
     pumpVars, claimVars, shutdownVars
<1>7. Monotone
  BY <1>0, <1>1, <1>2, PcSets, Kinds
  DEF Monotone, Bumping, Coming, ComingPcs, Publishing, ClaimInv, Waking, TokenInv,
     EnrolledIsInactive, EnrolledPcs, CalmInv, Calm, ShuttingDown, PrepareWait, Goto, wakeVars,
     pumpVars, claimVars, shutdownVars
<1>. QED
  BY <1>2, <1>3, <1>4, <1>5, <1>6, <1>7, MonotoneCovers DEF WakeInv

LEMMA SnapshotEpochWake ==
  ASSUME TypeOK, TypeOK', WakeInv, ShutdownInv, NEW w \in Workers, SnapshotEpoch(w)
  PROVE  WakeInv'
<1>0. w \in Threads
  BY Kinds
<1>1. /\ pc \in [Threads -> Pcs] /\ relaying \subseteq Workers /\ idleMask \subseteq Workers
      /\ token \in [Threads -> Nat] /\ notifyEpoch \in [Workers -> Nat]
      /\ epochSeen \in [Workers -> Nat] /\ wakeEpoch \in Nat /\ pending \in Nat
      /\ remaining \in [Threads -> Nat] /\ budget \in [Threads -> Nat] /\ refCount \in Nat
      /\ mask \in [Threads -> SUBSET Workers] /\ target \in [Threads -> Workers]
      /\ isActive \in [Workers -> BOOLEAN] /\ desiredWake \in Nat
  BY DEF TypeOK
<1>2. ClaimInv /\ TokenInv /\ EnrolledIsReachable /\ EnrolledIsInactive /\ UnitsAreCovered /\ CalmInv
  BY DEF WakeInv, ShutdownInv
<1>3. ClaimInv'
  BY <1>0, <1>1, <1>2, PcSets, Kinds
  DEF ClaimInv, Waking, SnapshotEpoch, Goto, wakeVars, pumpVars, claimVars, shutdownVars,
     ReadEpoch
<1>4. TokenInv'
  BY <1>0, <1>1, <1>2, PcSets, Kinds
  DEF TokenInv, SnapshotEpoch, Goto, wakeVars, pumpVars, claimVars, shutdownVars, ReadEpoch
<1>5. EnrolledIsReachable'
  BY <1>0, <1>1, <1>2, PcSets, Kinds
  DEF EnrolledIsReachable, TokenInv, SnapshotEpoch, Goto, wakeVars, pumpVars, claimVars,
     shutdownVars, ReadEpoch
<1>6. EnrolledIsInactive'
  BY <1>0, <1>1, <1>2, PcSets, Kinds
  DEF EnrolledIsInactive, EnrolledPcs, CalmInv, Calm, ShuttingDown, SnapshotEpoch, Goto,
     wakeVars, pumpVars, claimVars, shutdownVars, ReadEpoch
<1>7. Monotone
  BY <1>0, <1>1, <1>2, PcSets, Kinds
  DEF Monotone, Bumping, Coming, ComingPcs, Publishing, ClaimInv, Waking, TokenInv,
     EnrolledIsInactive, EnrolledPcs, CalmInv, Calm, ShuttingDown, SnapshotEpoch, Goto, wakeVars,
     pumpVars, claimVars, shutdownVars, ReadEpoch
<1>. QED
  BY <1>2, <1>3, <1>4, <1>5, <1>6, <1>7, MonotoneCovers DEF WakeInv

LEMMA MarkActiveWake ==
  ASSUME TypeOK, TypeOK', WakeInv, ShutdownInv, NEW w \in Workers, MarkActive(w)
  PROVE  WakeInv'
<1>0. w \in Threads
  BY Kinds
<1>1. /\ pc \in [Threads -> Pcs] /\ relaying \subseteq Workers /\ idleMask \subseteq Workers
      /\ token \in [Threads -> Nat] /\ notifyEpoch \in [Workers -> Nat]
      /\ epochSeen \in [Workers -> Nat] /\ wakeEpoch \in Nat /\ pending \in Nat
      /\ remaining \in [Threads -> Nat] /\ budget \in [Threads -> Nat] /\ refCount \in Nat
      /\ mask \in [Threads -> SUBSET Workers] /\ target \in [Threads -> Workers]
      /\ isActive \in [Workers -> BOOLEAN] /\ desiredWake \in Nat
  BY DEF TypeOK
<1>2. ClaimInv /\ TokenInv /\ EnrolledIsReachable /\ EnrolledIsInactive /\ UnitsAreCovered /\ CalmInv
  BY DEF WakeInv, ShutdownInv
<1>3. ClaimInv'
  BY <1>0, <1>1, <1>2, PcSets, Kinds
  DEF ClaimInv, Waking, MarkActive, Goto, wakeVars, pumpVars, claimVars, shutdownVars
<1>4. TokenInv'
  BY <1>0, <1>1, <1>2, PcSets, Kinds
  DEF TokenInv, MarkActive, Goto, wakeVars, pumpVars, claimVars, shutdownVars
<1>5. EnrolledIsReachable'
  BY <1>0, <1>1, <1>2, PcSets, Kinds
  DEF EnrolledIsReachable, TokenInv, MarkActive, Goto, wakeVars, pumpVars, claimVars, shutdownVars
<1>6. EnrolledIsInactive'
  BY <1>0, <1>1, <1>2, PcSets, Kinds
  DEF EnrolledIsInactive, EnrolledPcs, CalmInv, Calm, ShuttingDown, MarkActive, Goto, wakeVars,
     pumpVars, claimVars, shutdownVars
<1>7. Monotone
  BY <1>0, <1>1, <1>2, PcSets, Kinds
  DEF Monotone, Bumping, Coming, ComingPcs, Publishing, ClaimInv, Waking, TokenInv,
     EnrolledIsInactive, EnrolledPcs, CalmInv, Calm, ShuttingDown, MarkActive, Goto, wakeVars,
     pumpVars, claimVars, shutdownVars
<1>. QED
  BY <1>2, <1>3, <1>4, <1>5, <1>6, <1>7, MonotoneCovers DEF WakeInv

LEMMA RelayClaimWake ==
  ASSUME TypeOK, TypeOK', WakeInv, ShutdownInv, NEW w \in Workers, RelayClaim(w)
  PROVE  WakeInv'
<1>0. w \in Threads
  BY Kinds
<1>1. /\ pc \in [Threads -> Pcs] /\ relaying \subseteq Workers /\ idleMask \subseteq Workers
      /\ token \in [Threads -> Nat] /\ notifyEpoch \in [Workers -> Nat]
      /\ epochSeen \in [Workers -> Nat] /\ wakeEpoch \in Nat /\ pending \in Nat
      /\ remaining \in [Threads -> Nat] /\ budget \in [Threads -> Nat] /\ refCount \in Nat
      /\ mask \in [Threads -> SUBSET Workers] /\ target \in [Threads -> Workers]
      /\ isActive \in [Workers -> BOOLEAN] /\ desiredWake \in Nat
  BY DEF TypeOK
<1>2. ClaimInv /\ TokenInv /\ EnrolledIsReachable /\ EnrolledIsInactive /\ UnitsAreCovered /\ CalmInv
  BY DEF WakeInv, ShutdownInv
<1>3. ClaimInv'
  BY <1>0, <1>1, <1>2, PcSets, Kinds
  DEF ClaimInv, Waking, RelayClaim, Goto, wakeVars, pumpVars, claimVars, shutdownVars, Share
<1>4. TokenInv'
  BY <1>0, <1>1, <1>2, PcSets, Kinds
  DEF TokenInv, RelayClaim, Goto, wakeVars, pumpVars, claimVars, shutdownVars, Share
<1>5. EnrolledIsReachable'
  BY <1>0, <1>1, <1>2, PcSets, Kinds
  DEF EnrolledIsReachable, TokenInv, RelayClaim, Goto, wakeVars, pumpVars, claimVars,
     shutdownVars, Share
<1>6. EnrolledIsInactive'
  BY <1>0, <1>1, <1>2, PcSets, Kinds
  DEF EnrolledIsInactive, EnrolledPcs, CalmInv, Calm, ShuttingDown, RelayClaim, Goto, wakeVars,
     pumpVars, claimVars, shutdownVars, Share
<1>7. Monotone
  BY <1>0, <1>1, <1>2, PcSets, Kinds
  DEF Monotone, Bumping, Coming, ComingPcs, Publishing, ClaimInv, Waking, TokenInv,
     EnrolledIsInactive, EnrolledPcs, CalmInv, Calm, ShuttingDown, RelayClaim, Goto, wakeVars,
     pumpVars, claimVars, shutdownVars, Share
<1>. QED
  BY <1>2, <1>3, <1>4, <1>5, <1>6, <1>7, MonotoneCovers DEF WakeInv

LEMMA RelayDoneWake ==
  ASSUME TypeOK, TypeOK', WakeInv, ShutdownInv, NEW w \in Workers, RelayDone(w)
  PROVE  WakeInv'
<1>0. w \in Threads
  BY Kinds
<1>1. /\ pc \in [Threads -> Pcs] /\ relaying \subseteq Workers /\ idleMask \subseteq Workers
      /\ token \in [Threads -> Nat] /\ notifyEpoch \in [Workers -> Nat]
      /\ epochSeen \in [Workers -> Nat] /\ wakeEpoch \in Nat /\ pending \in Nat
      /\ remaining \in [Threads -> Nat] /\ budget \in [Threads -> Nat] /\ refCount \in Nat
      /\ mask \in [Threads -> SUBSET Workers] /\ target \in [Threads -> Workers]
      /\ isActive \in [Workers -> BOOLEAN] /\ desiredWake \in Nat
  BY DEF TypeOK
<1>2. ClaimInv /\ TokenInv /\ EnrolledIsReachable /\ EnrolledIsInactive /\ UnitsAreCovered /\ CalmInv
  BY DEF WakeInv, ShutdownInv
<1>3. ClaimInv'
  BY <1>0, <1>1, <1>2, PcSets, Kinds
  DEF ClaimInv, Waking, RelayDone, Goto, wakeVars, pumpVars, claimVars, shutdownVars, ForgetClaims
<1>4. TokenInv'
  BY <1>0, <1>1, <1>2, PcSets, Kinds
  DEF TokenInv, RelayDone, Goto, wakeVars, pumpVars, claimVars, shutdownVars, ForgetClaims
<1>5. EnrolledIsReachable'
  BY <1>0, <1>1, <1>2, PcSets, Kinds
  DEF EnrolledIsReachable, TokenInv, RelayDone, Goto, wakeVars, pumpVars, claimVars,
     shutdownVars, ForgetClaims
<1>6. EnrolledIsInactive'
  BY <1>0, <1>1, <1>2, PcSets, Kinds
  DEF EnrolledIsInactive, EnrolledPcs, CalmInv, Calm, ShuttingDown, RelayDone, Goto, wakeVars,
     pumpVars, claimVars, shutdownVars, ForgetClaims
<1>7. Monotone
  BY <1>0, <1>1, <1>2, PcSets, Kinds
  DEF Monotone, Bumping, Coming, ComingPcs, Publishing, ClaimInv, Waking, TokenInv,
     EnrolledIsInactive, EnrolledPcs, CalmInv, Calm, ShuttingDown, RelayDone, Goto, wakeVars,
     pumpVars, claimVars, shutdownVars, ForgetClaims
<1>. QED
  BY <1>2, <1>3, <1>4, <1>5, <1>6, <1>7, MonotoneCovers DEF WakeInv

LEMMA CheckExitWake ==
  ASSUME TypeOK, TypeOK', WakeInv, ShutdownInv, NEW w \in Workers, CheckExit(w)
  PROVE  WakeInv'
<1>0. w \in Threads
  BY Kinds
<1>1. /\ pc \in [Threads -> Pcs] /\ relaying \subseteq Workers /\ idleMask \subseteq Workers
      /\ token \in [Threads -> Nat] /\ notifyEpoch \in [Workers -> Nat]
      /\ epochSeen \in [Workers -> Nat] /\ wakeEpoch \in Nat /\ pending \in Nat
      /\ remaining \in [Threads -> Nat] /\ budget \in [Threads -> Nat] /\ refCount \in Nat
      /\ mask \in [Threads -> SUBSET Workers] /\ target \in [Threads -> Workers]
      /\ isActive \in [Workers -> BOOLEAN] /\ desiredWake \in Nat
  BY DEF TypeOK
<1>2. ClaimInv /\ TokenInv /\ EnrolledIsReachable /\ EnrolledIsInactive /\ UnitsAreCovered /\ CalmInv
  BY DEF WakeInv, ShutdownInv
<1>3. ClaimInv'
  BY <1>0, <1>1, <1>2, PcSets, Kinds
  DEF ClaimInv, Waking, CheckExit, Goto, wakeVars, pumpVars, claimVars, shutdownVars
<1>4. TokenInv'
  BY <1>0, <1>1, <1>2, PcSets, Kinds
  DEF TokenInv, CheckExit, Goto, wakeVars, pumpVars, claimVars, shutdownVars
<1>5. EnrolledIsReachable'
  BY <1>0, <1>1, <1>2, PcSets, Kinds
  DEF EnrolledIsReachable, TokenInv, CheckExit, Goto, wakeVars, pumpVars, claimVars, shutdownVars
<1>6. EnrolledIsInactive'
  BY <1>0, <1>1, <1>2, PcSets, Kinds
  DEF EnrolledIsInactive, EnrolledPcs, CalmInv, Calm, ShuttingDown, CheckExit, Goto, wakeVars,
     pumpVars, claimVars, shutdownVars
<1>7. Monotone
  BY <1>0, <1>1, <1>2, PcSets, Kinds
  DEF Monotone, Bumping, Coming, ComingPcs, Publishing, ClaimInv, Waking, TokenInv,
     EnrolledIsInactive, EnrolledPcs, CalmInv, Calm, ShuttingDown, CheckExit, Goto, wakeVars,
     pumpVars, claimVars, shutdownVars
<1>. QED
  BY <1>2, <1>3, <1>4, <1>5, <1>6, <1>7, MonotoneCovers DEF WakeInv

LEMMA MarkIdleWake ==
  ASSUME TypeOK, TypeOK', WakeInv, ShutdownInv, NEW w \in Workers, MarkIdle(w)
  PROVE  WakeInv'
<1>0. w \in Threads
  BY Kinds
<1>1. /\ pc \in [Threads -> Pcs] /\ relaying \subseteq Workers /\ idleMask \subseteq Workers
      /\ token \in [Threads -> Nat] /\ notifyEpoch \in [Workers -> Nat]
      /\ epochSeen \in [Workers -> Nat] /\ wakeEpoch \in Nat /\ pending \in Nat
      /\ remaining \in [Threads -> Nat] /\ budget \in [Threads -> Nat] /\ refCount \in Nat
      /\ mask \in [Threads -> SUBSET Workers] /\ target \in [Threads -> Workers]
      /\ isActive \in [Workers -> BOOLEAN] /\ desiredWake \in Nat
  BY DEF TypeOK
<1>2. ClaimInv /\ TokenInv /\ EnrolledIsReachable /\ EnrolledIsInactive /\ UnitsAreCovered /\ CalmInv
  BY DEF WakeInv, ShutdownInv
<1>3. ClaimInv'
  BY <1>0, <1>1, <1>2, PcSets, Kinds
  DEF ClaimInv, Waking, MarkIdle, Goto, wakeVars, pumpVars, claimVars, shutdownVars, Enroll
<1>4. TokenInv'
  BY <1>0, <1>1, <1>2, PcSets, Kinds
  DEF TokenInv, MarkIdle, Goto, wakeVars, pumpVars, claimVars, shutdownVars, Enroll
<1>5. EnrolledIsReachable'
  BY <1>0, <1>1, <1>2, PcSets, Kinds
  DEF EnrolledIsReachable, TokenInv, MarkIdle, Goto, wakeVars, pumpVars, claimVars, shutdownVars,
     Enroll
<1>6. EnrolledIsInactive'
  BY <1>0, <1>1, <1>2, PcSets, Kinds
  DEF EnrolledIsInactive, EnrolledPcs, CalmInv, Calm, ShuttingDown, MarkIdle, Goto, wakeVars,
     pumpVars, claimVars, shutdownVars, Enroll
<1>7. Monotone
  BY <1>0, <1>1, <1>2, PcSets, Kinds
  DEF Monotone, Bumping, Coming, ComingPcs, Publishing, ClaimInv, Waking, TokenInv,
     EnrolledIsInactive, EnrolledPcs, CalmInv, Calm, ShuttingDown, MarkIdle, Goto, wakeVars,
     pumpVars, claimVars, shutdownVars, Enroll
<1>. QED
  BY <1>2, <1>3, <1>4, <1>5, <1>6, <1>7, MonotoneCovers DEF WakeInv

LEMMA CommitWaitWake ==
  ASSUME TypeOK, TypeOK', WakeInv, ShutdownInv, NEW w \in Workers, CommitWait(w)
  PROVE  WakeInv'
<1>0. w \in Threads
  BY Kinds
<1>1. /\ pc \in [Threads -> Pcs] /\ relaying \subseteq Workers /\ idleMask \subseteq Workers
      /\ token \in [Threads -> Nat] /\ notifyEpoch \in [Workers -> Nat]
      /\ epochSeen \in [Workers -> Nat] /\ wakeEpoch \in Nat /\ pending \in Nat
      /\ remaining \in [Threads -> Nat] /\ budget \in [Threads -> Nat] /\ refCount \in Nat
      /\ mask \in [Threads -> SUBSET Workers] /\ target \in [Threads -> Workers]
      /\ isActive \in [Workers -> BOOLEAN] /\ desiredWake \in Nat
  BY DEF TypeOK
<1>2. ClaimInv /\ TokenInv /\ EnrolledIsReachable /\ EnrolledIsInactive /\ UnitsAreCovered /\ CalmInv
  BY DEF WakeInv, ShutdownInv
<1>3. ClaimInv'
  BY <1>0, <1>1, <1>2, PcSets, Kinds
  DEF ClaimInv, Waking, CommitWait, Goto, wakeVars, pumpVars, claimVars, shutdownVars
<1>4. TokenInv'
  BY <1>0, <1>1, <1>2, PcSets, Kinds
  DEF TokenInv, CommitWait, Goto, wakeVars, pumpVars, claimVars, shutdownVars
<1>5. EnrolledIsReachable'
  BY <1>0, <1>1, <1>2, PcSets, Kinds
  DEF EnrolledIsReachable, TokenInv, CommitWait, Goto, wakeVars, pumpVars, claimVars, shutdownVars
<1>6. EnrolledIsInactive'
  BY <1>0, <1>1, <1>2, PcSets, Kinds
  DEF EnrolledIsInactive, EnrolledPcs, CalmInv, Calm, ShuttingDown, CommitWait, Goto, wakeVars,
     pumpVars, claimVars, shutdownVars
<1>7. Monotone
  BY <1>0, <1>1, <1>2, PcSets, Kinds
  DEF Monotone, Bumping, Coming, ComingPcs, Publishing, ClaimInv, Waking, TokenInv,
     EnrolledIsInactive, EnrolledPcs, CalmInv, Calm, ShuttingDown, CommitWait, Goto, wakeVars,
     pumpVars, claimVars, shutdownVars
<1>. QED
  BY <1>2, <1>3, <1>4, <1>5, <1>6, <1>7, MonotoneCovers DEF WakeInv

LEMMA DrainReturnWake ==
  ASSUME TypeOK, TypeOK', WakeInv, ShutdownInv, NEW w \in Workers, DrainReturn(w)
  PROVE  WakeInv'
<1>0. w \in Threads
  BY Kinds
<1>1. /\ pc \in [Threads -> Pcs] /\ relaying \subseteq Workers /\ idleMask \subseteq Workers
      /\ token \in [Threads -> Nat] /\ notifyEpoch \in [Workers -> Nat]
      /\ epochSeen \in [Workers -> Nat] /\ wakeEpoch \in Nat /\ pending \in Nat
      /\ remaining \in [Threads -> Nat] /\ budget \in [Threads -> Nat] /\ refCount \in Nat
      /\ mask \in [Threads -> SUBSET Workers] /\ target \in [Threads -> Workers]
      /\ isActive \in [Workers -> BOOLEAN] /\ desiredWake \in Nat
  BY DEF TypeOK
<1>2. ClaimInv /\ TokenInv /\ EnrolledIsReachable /\ EnrolledIsInactive /\ UnitsAreCovered /\ CalmInv
  BY DEF WakeInv, ShutdownInv
<1>3. ClaimInv'
  BY <1>0, <1>1, <1>2, PcSets, Kinds
  DEF ClaimInv, Waking, DrainReturn, Goto, wakeVars, pumpVars, claimVars, shutdownVars
<1>4. TokenInv'
  BY <1>0, <1>1, <1>2, PcSets, Kinds
  DEF TokenInv, DrainReturn, Goto, wakeVars, pumpVars, claimVars, shutdownVars
<1>5. EnrolledIsReachable'
  BY <1>0, <1>1, <1>2, PcSets, Kinds
  DEF EnrolledIsReachable, TokenInv, DrainReturn, Goto, wakeVars, pumpVars, claimVars,
     shutdownVars
<1>6. EnrolledIsInactive'
  BY <1>0, <1>1, <1>2, PcSets, Kinds
  DEF EnrolledIsInactive, EnrolledPcs, CalmInv, Calm, ShuttingDown, DrainReturn, Goto, wakeVars,
     pumpVars, claimVars, shutdownVars
<1>7. Monotone
  BY <1>0, <1>1, <1>2, PcSets, Kinds
  DEF Monotone, Bumping, Coming, ComingPcs, Publishing, ClaimInv, Waking, TokenInv,
     EnrolledIsInactive, EnrolledPcs, CalmInv, Calm, ShuttingDown, DrainReturn, Goto, wakeVars,
     pumpVars, claimVars, shutdownVars
<1>. QED
  BY <1>2, <1>3, <1>4, <1>5, <1>6, <1>7, MonotoneCovers DEF WakeInv

LEMMA DrainReleaseWake ==
  ASSUME TypeOK, TypeOK', WakeInv, ShutdownInv, NEW w \in Workers, DrainRelease(w)
  PROVE  WakeInv'
<1>0. w \in Threads
  BY Kinds
<1>1. /\ pc \in [Threads -> Pcs] /\ relaying \subseteq Workers /\ idleMask \subseteq Workers
      /\ token \in [Threads -> Nat] /\ notifyEpoch \in [Workers -> Nat]
      /\ epochSeen \in [Workers -> Nat] /\ wakeEpoch \in Nat /\ pending \in Nat
      /\ remaining \in [Threads -> Nat] /\ budget \in [Threads -> Nat] /\ refCount \in Nat
      /\ mask \in [Threads -> SUBSET Workers] /\ target \in [Threads -> Workers]
      /\ isActive \in [Workers -> BOOLEAN] /\ desiredWake \in Nat
  BY DEF TypeOK
<1>2. ClaimInv /\ TokenInv /\ EnrolledIsReachable /\ EnrolledIsInactive /\ UnitsAreCovered /\ CalmInv
  BY DEF WakeInv, ShutdownInv
<1>3. ClaimInv'
  BY <1>0, <1>1, <1>2, PcSets, Kinds
  DEF ClaimInv, Waking, DrainRelease, Goto, wakeVars, pumpVars, claimVars, shutdownVars,
     ReleaseReference
<1>4. TokenInv'
  BY <1>0, <1>1, <1>2, PcSets, Kinds
  DEF TokenInv, DrainRelease, Goto, wakeVars, pumpVars, claimVars, shutdownVars, ReleaseReference
<1>5. EnrolledIsReachable'
  BY <1>0, <1>1, <1>2, PcSets, Kinds
  DEF EnrolledIsReachable, TokenInv, DrainRelease, Goto, wakeVars, pumpVars, claimVars,
     shutdownVars, ReleaseReference
<1>6. EnrolledIsInactive'
  BY <1>0, <1>1, <1>2, PcSets, Kinds
  DEF EnrolledIsInactive, EnrolledPcs, CalmInv, Calm, ShuttingDown, DrainRelease, Goto, wakeVars,
     pumpVars, claimVars, shutdownVars, ReleaseReference
<1>7. Monotone
  BY <1>0, <1>1, <1>2, PcSets, Kinds
  DEF Monotone, Bumping, Coming, ComingPcs, Publishing, ClaimInv, Waking, TokenInv,
     EnrolledIsInactive, EnrolledPcs, CalmInv, Calm, ShuttingDown, DrainRelease, Goto, wakeVars,
     pumpVars, claimVars, shutdownVars, ReleaseReference
<1>. QED
  BY <1>2, <1>3, <1>4, <1>5, <1>6, <1>7, MonotoneCovers DEF WakeInv

LEMMA ProducerReleaseWake ==
  ASSUME TypeOK, TypeOK', WakeInv, ShutdownInv, NEW t \in Releasers, ProducerRelease(t)
  PROVE  WakeInv'
<1>0. t \in Threads
  BY Kinds, BudgetAssumption
<1>1. /\ pc \in [Threads -> Pcs] /\ relaying \subseteq Workers /\ idleMask \subseteq Workers
      /\ token \in [Threads -> Nat] /\ notifyEpoch \in [Workers -> Nat]
      /\ epochSeen \in [Workers -> Nat] /\ wakeEpoch \in Nat /\ pending \in Nat
      /\ remaining \in [Threads -> Nat] /\ budget \in [Threads -> Nat] /\ refCount \in Nat
      /\ mask \in [Threads -> SUBSET Workers] /\ target \in [Threads -> Workers]
      /\ isActive \in [Workers -> BOOLEAN] /\ desiredWake \in Nat
  BY DEF TypeOK
<1>2. ClaimInv /\ TokenInv /\ EnrolledIsReachable /\ EnrolledIsInactive /\ UnitsAreCovered /\ CalmInv
  BY DEF WakeInv, ShutdownInv
<1>3. ClaimInv'
  BY <1>0, <1>1, <1>2, PcSets, Kinds
  DEF ClaimInv, Waking, ProducerRelease, Goto, wakeVars, pumpVars, claimVars, shutdownVars,
     ReleaseReference
<1>4. TokenInv'
  BY <1>0, <1>1, <1>2, PcSets, Kinds
  DEF TokenInv, ProducerRelease, Goto, wakeVars, pumpVars, claimVars, shutdownVars,
     ReleaseReference
<1>5. EnrolledIsReachable'
  BY <1>0, <1>1, <1>2, PcSets, Kinds
  DEF EnrolledIsReachable, TokenInv, ProducerRelease, Goto, wakeVars, pumpVars, claimVars,
     shutdownVars, ReleaseReference
<1>6. EnrolledIsInactive'
  BY <1>0, <1>1, <1>2, PcSets, Kinds
  DEF EnrolledIsInactive, EnrolledPcs, CalmInv, Calm, ShuttingDown, ProducerRelease, Goto,
     wakeVars, pumpVars, claimVars, shutdownVars, ReleaseReference
<1>7. Monotone
  BY <1>0, <1>1, <1>2, PcSets, Kinds
  DEF Monotone, Bumping, Coming, ComingPcs, Publishing, ClaimInv, Waking, TokenInv,
     EnrolledIsInactive, EnrolledPcs, CalmInv, Calm, ShuttingDown, ProducerRelease, Goto,
     wakeVars, pumpVars, claimVars, shutdownVars, ReleaseReference
<1>. QED
  BY <1>2, <1>3, <1>4, <1>5, <1>6, <1>7, MonotoneCovers DEF WakeInv

\* A publisher that misses a worker keeps in view those that are enrolled.
LEMMA ClaimMissWake ==
  ASSUME TypeOK, TypeOK', WakeInv, ShutdownInv, NEW t \in Threads, NEW v \in Workers, ClaimMiss(t, v)
  PROVE  WakeInv'
<1>. USE DEF ClaimMiss, wakeVars, pumpVars, shutdownVars
<1>1. /\ relaying \subseteq Workers /\ pending \in Nat /\ mask \in [Threads -> SUBSET Workers]
  BY DEF TypeOK
<1>2. UnitsAreCovered
  BY DEF WakeInv
<1>3. ClaimInv' /\ TokenInv' /\ EnrolledIsReachable' /\ EnrolledIsInactive'
  BY
  DEF WakeInv, ClaimInv, Waking, TokenInv, EnrolledIsReachable, EnrolledIsInactive, ShuttingDown
<1>4. Bumping' = Bumping /\ Coming' = Coming
  BY DEF Bumping, Coming
<1>5. v \notin idleMask /\ \A w \in Workers : w \in idleMask => Publishing(w) \subseteq Publishing(w)'
  BY <1>1 DEF Publishing, Enrolled
<1>6. Monotone
  BY <1>1, <1>4, <1>5 DEF Monotone, ShuttingDown
<1>. QED
  BY <1>2, <1>3, <1>6, MonotoneCovers DEF WakeInv

\* A worker that a publisher claims takes the publisher's place for those that
\* sleep on.
LEMMA ClaimBitWake ==
  ASSUME TypeOK, TypeOK', WakeInv, ShutdownInv, NEW t \in Threads, NEW v \in Workers, ClaimBit(t, v)
  PROVE  WakeInv'
<1>1. /\ pc \in [Threads -> Pcs] /\ relaying \subseteq Workers /\ idleMask \subseteq Workers
      /\ pending \in Nat /\ remaining \in [Threads -> Nat]
      /\ mask \in [Threads -> SUBSET Workers] /\ target \in [Threads -> Workers]
  BY DEF TypeOK
<1>2. /\ pc[t] = "claim" /\ pc'[t] = "post" /\ \A u \in Threads : u # t => pc'[u] = pc[u]
      /\ remaining[t] > 0 /\ v \in idleMask /\ idleMask' = idleMask \ {v}
      /\ target'[t] = v /\ \A u \in Threads : u # t => target'[u] = target[u]
      /\ mask' = [mask EXCEPT ![t] = @ \ {v}]
      /\ UNCHANGED <<pending, wakeEpoch, notifyEpoch, token, epochSeen, isActive, relaying, remaining,
                     budget, refCount>>
  BY <1>1 DEF ClaimBit, Goto, Enrolled, pumpVars, shutdownVars
<1>3. ClaimInv /\ TokenInv /\ EnrolledIsReachable /\ EnrolledIsInactive /\ UnitsAreCovered
  BY DEF WakeInv
<1>4. ClaimInv'
  BY <1>1, <1>2, <1>3, PcSets, Kinds DEF ClaimInv, Waking
<1>5. TokenInv'
  BY <1>2, <1>3 DEF TokenInv
<1>6. EnrolledIsReachable'
  BY <1>2, <1>3, Kinds DEF EnrolledIsReachable
<1>7. EnrolledIsInactive'
  BY <1>1, <1>2, <1>3, Kinds DEF EnrolledIsInactive, EnrolledPcs, ShuttingDown
<1>8. UnitsAreCovered'
  <2>. SUFFICES ASSUME ~ShuttingDown', NEW w \in Workers
                PROVE  /\ pc'[w] \in {"mark_idle", "recheck"} /\ epochSeen'[w] = wakeEpoch' =>
                            pending' <= Cardinality(Bumping')
                       /\ pc'[w] = "asleep" /\ w \in idleMask' =>
                            pending' <= Cardinality(Publishing(w)') + Cardinality(Coming')
    BY DEF UnitsAreCovered
  <2>0. ~ShuttingDown /\ (pc'[w] \in {"mark_idle", "recheck", "asleep"} => pc'[w] = pc[w])
    BY <1>2, Kinds DEF ShuttingDown
  <2>1. Bumping' = Bumping
    BY <1>2 DEF Bumping
  <2>2. v \notin Coming /\ Coming' = Coming \cup {v}
    <3>1. v # t /\ pc[v] \in ComingPcs
      BY <1>2, <1>3, <2>0 DEF EnrolledIsInactive, EnrolledPcs, ComingPcs, ShuttingDown
    <3>. QED
      BY <1>2, <1>3, <3>1, Kinds DEF Coming, ComingPcs, ClaimInv
  <2>3. w # v => Publishing(w) \subseteq Publishing(w)' \cup {t}
    BY <1>1, <1>2 DEF Publishing
  <2>4. w # v => Cardinality(Publishing(w)) <= Cardinality(Publishing(w)') + 1
    <3>. SUFFICES ASSUME w # v PROVE Cardinality(Publishing(w)) <= Cardinality(Publishing(w)') + 1
      OBVIOUS
    <3>1. PICK S : S = Publishing(w)' \cup {t}
      OBVIOUS
    <3>2. S \in SUBSET Threads /\ Publishing(w) \subseteq S /\ Publishing(w)' \in SUBSET Threads
      BY <2>3, <3>1, CoverSets
    <3>3. t \notin Publishing(w)'
      BY <1>2 DEF Publishing
    <3>4. Cardinality(S) = Cardinality(Publishing(w)') + 1
      BY <3>1, <3>2, <3>3, Sizes
    <3>. QED
      BY <3>2, <3>4, CoverSets, Sizes
  <2>5. Cardinality(Coming') = Cardinality(Coming) + 1
    BY <2>2, CoverSets, Sizes, Kinds
  <2>6. /\ Cardinality(Publishing(w)) \in Nat /\ Cardinality(Publishing(w)') \in Nat
        /\ Cardinality(Coming) \in Nat
    BY CoverSets, Sizes
  <2>7. ASSUME pc'[w] = "asleep", w \in idleMask'
        PROVE  pending' <= Cardinality(Publishing(w)') + Cardinality(Coming')
    <3>1. w # v /\ pending <= Cardinality(Publishing(w)) + Cardinality(Coming)
      BY <1>2, <1>3, <2>0, <2>7 DEF UnitsAreCovered
    <3>. QED
      BY <1>1, <1>2, <2>4, <2>5, <2>6, <3>1
  <2>8. pc'[w] \in {"mark_idle", "recheck"} /\ epochSeen'[w] = wakeEpoch' =>
          pending' <= Cardinality(Bumping')
    BY <1>2, <1>3, <2>0, <2>1 DEF UnitsAreCovered
  <2>. QED
    BY <2>7, <2>8
<1>. QED
  BY <1>3, <1>4, <1>5, <1>6, <1>7, <1>8 DEF WakeInv

\* A published unit is covered by its publisher.
LEMMA CallScheduleWake ==
  ASSUME TypeOK, TypeOK', WakeInv, ShutdownInv,
         NEW t \in Threads, NEW n \in Budgets, NEW keep \in Keeps, CallSchedule(t, n, keep)
  PROVE  WakeInv'
<1>1. /\ pc \in [Threads -> Pcs] /\ relaying \subseteq Workers /\ idleMask \subseteq Workers
      /\ pending \in Nat /\ remaining \in [Threads -> Nat] /\ budget \in [Threads -> Nat]
      /\ refCount \in Nat /\ n > 0
  BY BudgetAssumption DEF TypeOK
<1>2. /\ pc[t] \in {"drain", "ready"} /\ pc'[t] = "bump" /\ \A u \in Threads : u # t => pc'[u] = pc[u]
      /\ pending' = pending + 1
      /\ budget' = [budget EXCEPT ![t] = n] /\ remaining' = [remaining EXCEPT ![t] = n]
      /\ UNCHANGED <<wakeEpoch, notifyEpoch, token, epochSeen, isActive, idleMask, relaying, mask, target>>
  BY <1>1 DEF CallSchedule, Goto, pumpVars, CallerPc
<1>3. ClaimInv /\ TokenInv /\ EnrolledIsReachable /\ EnrolledIsInactive /\ UnitsAreCovered
  BY DEF WakeInv
<1>4. ShuttingDown' <=> ShuttingDown
  <2>1. \/ refCount' = refCount + 1 /\ refCount > 0
        \/ refCount' = refCount + 0
    BY DEF CallSchedule
  <2>. QED
    BY <1>1, <2>1 DEF ShuttingDown
<1>5. t \notin relaying
  BY <1>2, <1>3 DEF ClaimInv
<1>6. ClaimInv'
  BY <1>1, <1>2, <1>3, <1>5, PcSets, Kinds DEF ClaimInv, Waking
<1>7. TokenInv'
  BY <1>2, <1>3 DEF TokenInv
<1>8. EnrolledIsReachable'
  BY <1>2, <1>3, Kinds DEF EnrolledIsReachable
<1>9. EnrolledIsInactive'
  BY <1>1, <1>2, <1>3, <1>4, Kinds DEF EnrolledIsInactive, EnrolledPcs
<1>10. UnitsAreCovered'
  <2>. SUFFICES ASSUME ~ShuttingDown', NEW w \in Workers
                PROVE  /\ pc'[w] \in {"mark_idle", "recheck"} /\ epochSeen'[w] = wakeEpoch' =>
                            pending' <= Cardinality(Bumping')
                       /\ pc'[w] = "asleep" /\ w \in idleMask' =>
                            pending' <= Cardinality(Publishing(w)') + Cardinality(Coming')
    BY DEF UnitsAreCovered
  <2>0. ~ShuttingDown /\ (pc'[w] \in {"mark_idle", "recheck", "asleep"} => pc'[w] = pc[w])
    BY <1>2, <1>4, Kinds
  <2>1. t \notin Bumping /\ Bumping' = Bumping \cup {t}
    BY <1>2 DEF Bumping
  <2>2. Coming' = Coming
    BY <1>2, <1>5, Kinds DEF Coming, ComingPcs
  <2>3. t \notin Publishing(w) /\ Publishing(w)' = Publishing(w) \cup {t}
    BY <1>1, <1>2, <1>5 DEF Publishing
  <2>4. /\ Cardinality(Bumping') = Cardinality(Bumping) + 1
        /\ Cardinality(Publishing(w)') = Cardinality(Publishing(w)) + 1
        /\ Cardinality(Bumping) \in Nat /\ Cardinality(Publishing(w)) \in Nat
        /\ Cardinality(Coming) \in Nat
    BY <2>1, <2>3, CoverSets, Sizes
  <2>5. /\ pc'[w] \in {"mark_idle", "recheck"} /\ epochSeen'[w] = wakeEpoch' =>
             pending <= Cardinality(Bumping)
        /\ pc'[w] = "asleep" /\ w \in idleMask' =>
             pending <= Cardinality(Publishing(w)) + Cardinality(Coming)
    BY <1>2, <1>3, <2>0 DEF UnitsAreCovered
  <2>. QED
    BY <1>1, <1>2, <2>2, <2>4, <2>5
<1>. QED
  BY <1>6, <1>7, <1>8, <1>9, <1>10 DEF WakeInv

\* The announcement outdates the epoch of every worker.
LEMMA WakeBumpWake ==
  ASSUME TypeOK, TypeOK', WakeInv, ShutdownInv, NEW t \in Threads, WakeBump(t)
  PROVE  WakeInv'
<1>1. /\ pc \in [Threads -> Pcs] /\ relaying \subseteq Workers /\ wakeEpoch \in Nat
      /\ idleMask \subseteq Workers
      /\ pending \in Nat /\ epochSeen \in [Workers -> Nat]
  BY DEF TypeOK
<1>2. /\ pc[t] = "bump" /\ pc'[t] = "load_mask" /\ \A u \in Threads : u # t => pc'[u] = pc[u]
      /\ wakeEpoch' = wakeEpoch + 1
      /\ UNCHANGED <<pending, notifyEpoch, token, epochSeen, isActive, idleMask, relaying, mask, target,
                     remaining, budget, refCount>>
  BY <1>1 DEF WakeBump, AdvanceWakeEpoch, Goto, pumpVars, claimVars, shutdownVars
<1>3. ClaimInv /\ TokenInv /\ EnrolledIsReachable /\ EnrolledIsInactive /\ UnitsAreCovered
  BY DEF WakeInv
<1>4. t \notin relaying
  BY <1>2, <1>3 DEF ClaimInv
<1>5. ClaimInv'
  BY <1>1, <1>2, <1>3, <1>4, PcSets, Kinds DEF ClaimInv, Waking
<1>6. TokenInv' /\ \A w \in Workers : epochSeen'[w] # wakeEpoch'
  BY <1>1, <1>2, <1>3 DEF TokenInv
<1>7. EnrolledIsReachable'
  BY <1>2, <1>3, Kinds DEF EnrolledIsReachable
<1>8. EnrolledIsInactive'
  BY <1>1, <1>2, <1>3, Kinds DEF EnrolledIsInactive, EnrolledPcs, ShuttingDown
<1>9. Coming' = Coming /\ \A w : Publishing(w)' = Publishing(w)
  BY <1>2, <1>4, Kinds DEF Coming, ComingPcs, Publishing
<1>10. UnitsAreCovered'
  BY <1>2, <1>3, <1>6, <1>9, Kinds DEF UnitsAreCovered, ShuttingDown
<1>. QED
  BY <1>5, <1>6, <1>7, <1>8, <1>10 DEF WakeInv

\* Nobody finds the list empty while a unit is left.
LEMMA ScanEmptyWake ==
  ASSUME TypeOK, TypeOK', WakeInv, ShutdownInv, NEW v \in Workers, ScanEmpty(v)
  PROVE  WakeInv'
<1>1. pc \in [Threads -> Pcs] /\ relaying \subseteq Workers /\ idleMask \subseteq Workers
  BY DEF TypeOK
<1>2. /\ pc[v] = "scan" /\ pc'[v] \in {"prepare", "mark_idle"}
      /\ \A u \in Threads : u # v => pc'[u] = pc[u]
      /\ pending' = 0
      /\ UNCHANGED <<wakeEpoch, notifyEpoch, token, epochSeen, isActive, idleMask, relaying, mask,
                     target, remaining, budget, refCount>>
  BY <1>1, Kinds DEF ScanEmpty, Goto, wakeVars, pumpVars, claimVars, shutdownVars
<1>3. ClaimInv /\ TokenInv /\ EnrolledIsReachable /\ EnrolledIsInactive
  BY DEF WakeInv
<1>4. ClaimInv' /\ TokenInv'
  BY <1>1, <1>2, <1>3, PcSets, Kinds DEF ClaimInv, Waking, TokenInv
<1>5. EnrolledIsReachable' /\ EnrolledIsInactive'
  BY <1>1, <1>2, <1>3, Kinds
  DEF EnrolledIsReachable, EnrolledIsInactive, EnrolledPcs, ShuttingDown
<1>6. UnitsAreCovered'
  <2>1. /\ Cardinality(Bumping') \in Nat /\ Cardinality(Coming') \in Nat
        /\ \A w : Cardinality(Publishing(w)') \in Nat
    BY CoverSets, Sizes
  <2>2. /\ pending' <= Cardinality(Bumping')
        /\ \A w : pending' <= Cardinality(Publishing(w)') + Cardinality(Coming')
    BY <1>2, <2>1
  <2>. QED
    BY <2>2 DEF UnitsAreCovered
<1>. QED
  BY <1>4, <1>5, <1>6 DEF WakeInv

\* A worker that takes a unit covers one unit less.
LEMMA ScanTakeWake ==
  ASSUME TypeOK, TypeOK', WakeInv, ShutdownInv, NEW v \in Workers, ScanTake(v)
  PROVE  WakeInv'
<1>1. pc \in [Threads -> Pcs] /\ relaying \subseteq Workers /\ idleMask \subseteq Workers /\ pending \in Nat
  BY DEF TypeOK
<1>2. /\ pc[v] = "scan" /\ pc'[v] = "drain" /\ \A u \in Threads : u # v => pc'[u] = pc[u]
      /\ pending > 0 /\ pending' = pending - 1
      /\ UNCHANGED <<wakeEpoch, notifyEpoch, token, epochSeen, isActive, idleMask, relaying, mask,
                     target, remaining, budget, refCount>>
  BY <1>1, Kinds DEF ScanTake, Goto, claimVars, shutdownVars
<1>3. ClaimInv /\ TokenInv /\ EnrolledIsReachable /\ EnrolledIsInactive /\ UnitsAreCovered
  BY DEF WakeInv
<1>4. ClaimInv' /\ TokenInv'
  BY <1>1, <1>2, <1>3, PcSets, Kinds DEF ClaimInv, Waking, TokenInv
<1>5. EnrolledIsReachable' /\ EnrolledIsInactive'
  BY <1>1, <1>2, <1>3, Kinds
  DEF EnrolledIsReachable, EnrolledIsInactive, EnrolledPcs, ShuttingDown
<1>6. Bumping' = Bumping /\ \A w : Publishing(w)' = Publishing(w)
  BY <1>2, Kinds DEF Bumping, Publishing
<1>7. Cardinality(Coming) <= Cardinality(Coming') + 1
  <2>1. Coming \subseteq Coming' \cup {v} /\ v \notin Coming'
    BY <1>2, <1>3, Kinds DEF Coming, ComingPcs, ClaimInv
  <2>2. PICK S : S = Coming' \cup {v}
    OBVIOUS
  <2>3. S \in SUBSET Threads /\ Coming \subseteq S
    BY <2>1, <2>2, CoverSets, Kinds
  <2>4. Cardinality(S) = Cardinality(Coming') + 1
    BY <2>1, <2>2, CoverSets, Kinds, Sizes
  <2>. QED
    BY <2>3, <2>4, CoverSets, Sizes
<1>8. UnitsAreCovered'
  <2>. SUFFICES ASSUME ~ShuttingDown', NEW w \in Workers
                PROVE  /\ pc'[w] \in {"mark_idle", "recheck"} /\ epochSeen'[w] = wakeEpoch' =>
                            pending' <= Cardinality(Bumping')
                       /\ pc'[w] = "asleep" /\ w \in idleMask' =>
                            pending' <= Cardinality(Publishing(w)') + Cardinality(Coming')
    BY DEF UnitsAreCovered
  <2>1. ~ShuttingDown /\ (pc'[w] \in {"mark_idle", "recheck", "asleep"} => pc'[w] = pc[w])
    BY <1>2, Kinds DEF ShuttingDown
  <2>2. /\ Cardinality(Bumping) \in Nat /\ Cardinality(Publishing(w)) \in Nat
        /\ Cardinality(Coming) \in Nat /\ Cardinality(Coming') \in Nat
    BY CoverSets, Sizes
  <2>3. /\ pc'[w] \in {"mark_idle", "recheck"} /\ epochSeen'[w] = wakeEpoch' =>
             pending <= Cardinality(Bumping)
        /\ pc'[w] = "asleep" /\ w \in idleMask' =>
             pending <= Cardinality(Publishing(w)) + Cardinality(Coming)
    BY <1>2, <1>3, <2>1 DEF UnitsAreCovered
  <2>. QED
    BY <1>1, <1>2, <1>6, <1>7, <2>2, <2>3
<1>. QED
  BY <1>4, <1>5, <1>8 DEF WakeInv

\* A worker commits its wait with a current epoch: what it has missed has not
\* been announced.
LEMMA RecheckEpochWake ==
  ASSUME TypeOK, TypeOK', WakeInv, ShutdownInv, NEW v \in Workers, RecheckEpoch(v)
  PROVE  WakeInv'
<1>1. pc \in [Threads -> Pcs] /\ relaying \subseteq Workers /\ idleMask \subseteq Workers /\ pending \in Nat
  BY DEF TypeOK
<1>2. /\ pc[v] = "recheck" /\ pc'[v] \in {"asleep", "prepare"}
      /\ pc'[v] = "asleep" => wakeEpoch = epochSeen[v]
      /\ \A u \in Threads : u # v => pc'[u] = pc[u]
      /\ UNCHANGED <<pending, wakeEpoch, notifyEpoch, token, epochSeen, isActive, idleMask, relaying,
                     mask, target, remaining, budget, refCount>>
  BY <1>1, Kinds DEF RecheckEpoch, MayCommit, Goto, wakeVars, pumpVars, claimVars, shutdownVars
<1>3. ClaimInv /\ TokenInv /\ EnrolledIsReachable /\ EnrolledIsInactive /\ UnitsAreCovered
  BY DEF WakeInv
<1>4. ClaimInv' /\ TokenInv'
  BY <1>1, <1>2, <1>3, PcSets, Kinds DEF ClaimInv, Waking, TokenInv
<1>5. EnrolledIsReachable' /\ EnrolledIsInactive'
  <2>1. \A u \in Threads : pc'[u] = "post" <=> pc[u] = "post"
    BY <1>2, Kinds
  <2>. QED
    BY <1>1, <1>2, <1>3, <2>1, Kinds
    DEF EnrolledIsReachable, EnrolledIsInactive, EnrolledPcs, ShuttingDown
<1>6. Bumping' = Bumping /\ Coming' = Coming /\ \A w : Publishing(w)' = Publishing(w)
  BY <1>2, Kinds DEF Bumping, Coming, ComingPcs, Publishing
<1>7. UnitsAreCovered'
  <2>. SUFFICES ASSUME ~ShuttingDown', NEW w \in Workers
                PROVE  /\ pc'[w] \in {"mark_idle", "recheck"} /\ epochSeen'[w] = wakeEpoch' =>
                            pending' <= Cardinality(Bumping')
                       /\ pc'[w] = "asleep" /\ w \in idleMask' =>
                            pending' <= Cardinality(Publishing(w)') + Cardinality(Coming')
    BY DEF UnitsAreCovered
  <2>0. ~ShuttingDown
    BY <1>2 DEF ShuttingDown
  <2>1. CASE w = v
    <3>1. pc'[v] = "asleep" => pending <= Cardinality(Bumping)
      BY <1>2, <1>3, <2>0 DEF UnitsAreCovered
    <3>2. Bumping \subseteq Publishing(w)
      BY <1>3 DEF Bumping, Publishing, ClaimInv
    <3>3. /\ Cardinality(Bumping) <= Cardinality(Publishing(w))
          /\ Cardinality(Bumping) \in Nat /\ Cardinality(Publishing(w)) \in Nat
          /\ Cardinality(Coming) \in Nat
      BY <3>2, CoverSets, Sizes
    <3>. QED
      BY <1>1, <1>2, <1>6, <2>1, <3>1, <3>3
  <2>2. CASE w # v
    BY <1>2, <1>3, <1>6, <2>0, <2>2, Kinds DEF UnitsAreCovered
  <2>. QED
    BY <2>1, <2>2
<1>. QED
  BY <1>4, <1>5, <1>7 DEF WakeInv

----------------------------------------------------------------------------
(* The theorems.                                                           *)

LEMMA WakeKept == Inv /\ Next => WakeInv'
<1>. SUFFICES ASSUME Inv, Next PROVE WakeInv'
  OBVIOUS
<1>0. TypeOK /\ TypeOK' /\ WakeInv /\ ShutdownInv
  BY TypeKept DEF Inv
<1>1. ASSUME NEW t \in Threads, WakeStep(t) PROVE WakeInv'
  BY <1>0, <1>1, WakeBumpWake, WakeLoadMaskWake, ClaimPostWake, WakeDeliveredWake,
     WakeExhaustedWake, WakeDemandWake, WakeSeedWake, ClaimBitWake, ClaimMissWake
  DEF WakeStep
<1>2. ASSUME NEW w \in Workers, PumpStep(w) PROVE WakeInv'
  BY <1>0, <1>2, WorkerStartWake, PrepareWaitWake, SnapshotEpochWake, MarkActiveWake,
     RelayClaimWake, RelayDoneWake, CheckExitWake, ScanTakeWake, ScanEmptyWake, MarkIdleWake,
     RecheckEpochWake, CommitWaitWake
  DEF PumpStep
<1>3. ASSUME NEW t \in Threads, NEW n \in Budgets, NEW keep \in Keeps, CallSchedule(t, n, keep)
      PROVE  WakeInv'
  BY <1>0, <1>3, CallScheduleWake
<1>4. ASSUME NEW w \in Workers, DrainReturn(w) \/ DrainRelease(w) PROVE WakeInv'
  BY <1>0, <1>4, DrainReturnWake, DrainReleaseWake
<1>5. ASSUME NEW t \in Releasers, ProducerRelease(t) PROVE WakeInv'
  BY <1>0, <1>5, ProducerReleaseWake
<1>6. ASSUME NEW t \in Threads, DestroyStep(t) PROVE WakeInv'
  BY <1>0, <1>6, EndStepsKeepWake
<1>7. ASSUME NEW w \in Workers, ExitStep(w) PROVE WakeInv'
  BY <1>0, <1>7, EndStepsKeepWake
<1>. QED
  BY <1>1, <1>2, <1>3, <1>4, <1>5, <1>6, <1>7 DEF Next

\* iree_task_executor_create establishes the invariant.
LEMMA InitInv == Init => Inv
<1>. SUFFICES ASSUME Init PROVE Inv
  OBVIOUS
<1>. USE DEF Init
<1>1. TypeOK
  <2>1. Cardinality(Producers) \in Nat
    BY BudgetAssumption, FS_CardinalityType
  <2>2. pc \in [Threads -> Pcs]
    <3>1. "start" \in Pcs /\ "ready" \in Pcs
      BY DEF Pcs, PumpPcs
    <3>. QED
      BY <3>1
  <2>3. /\ idleCount \in Int /\ liveWorkers \in Int /\ exitIndex \in 1 .. WorkerCount + 1
        /\ target \in [Threads -> Workers] /\ callsLeft \in [Threads -> Nat]
    BY Kinds, BudgetAssumption
  <2>4. /\ mask \in [Threads -> SUBSET Workers]
        /\ workerState \in [Workers -> {"RUNNING", "EXITING", "ZOMBIE"}]
        /\ \A b \in {isActive, didWork, exitMode} : b \in [Workers -> BOOLEAN]
        /\ \A n \in {notifyEpoch, stateEpoch, epochSeen} : n \in [Workers -> Nat]
        /\ \A n \in {token, remaining, budget} : n \in [Threads -> Nat]
    OBVIOUS
  <2>. QED
    BY <2>1, <2>2, <2>3, <2>4 DEF TypeOK
<1>2. \A t \in Threads : pc[t] = IF t \in Workers THEN "start" ELSE "ready"
  OBVIOUS
<1>3. WakeInv
  <2>1. ClaimInv /\ TokenInv
    BY <1>2, PcSets, Kinds DEF ClaimInv, TokenInv, Waking
  <2>2. EnrolledIsReachable /\ EnrolledIsInactive /\ UnitsAreCovered
    BY <1>2, Kinds DEF EnrolledIsReachable, EnrolledIsInactive, EnrolledPcs, UnitsAreCovered
  <2>. QED
    BY <2>1, <2>2 DEF WakeInv
<1>4. Holders = Producers /\ Present = Workers
  BY <1>2, Kinds DEF Holders, Present
<1>5. RefInv
  BY <1>4, BudgetAssumption, FS_CardinalityType DEF RefInv
<1>6. LiveInv
  <2>1. Cardinality(Workers) = WorkerCount
    BY Kinds, FS_Interval DEF Workers
  <2>. QED
    BY <1>2, <1>4, <2>1, Kinds DEF LiveInv
<1>7. CalmInv
  BY <1>2, PcSets, Kinds DEF CalmInv, Calm
<1>8. DestroyInv
  BY <1>2, PcSets, Kinds DEF DestroyInv, Destroying, ProducerPcs, WorkerPcs, Pcs
<1>9. ZombieInv
  BY <1>2, PcSets, Kinds DEF ZombieInv, Leaving
<1>10. AwaitInv /\ FinalizeInv
  BY <1>2, PcSets, Kinds DEF AwaitInv, FinalizeInv
<1>. QED
  BY <1>1, <1>3, <1>5, <1>6, <1>7, <1>8, <1>9, <1>10 DEF Inv, ShutdownInv

LEMMA StutterKeepsInv == Inv /\ UNCHANGED vars => Inv'
<1>. SUFFICES ASSUME Inv, UNCHANGED vars PROVE Inv'
  OBVIOUS
<1>. USE DEF vars, wakeVars, shutdownVars, pumpVars, claimVars
<1>1. TypeOK'
  BY DEF Inv, TypeOK
<1>2. WakeInv'
  <2>1. Bumping' = Bumping /\ Coming' = Coming /\ \A w : Publishing(w)' = Publishing(w)
    BY DEF Bumping, Coming, Publishing
  <2>2. UnitsAreCovered'
    BY <2>1 DEF Inv, WakeInv, UnitsAreCovered, ShuttingDown
  <2>3. ClaimInv' /\ TokenInv' /\ EnrolledIsReachable' /\ EnrolledIsInactive'
    BY DEF Inv, WakeInv, ClaimInv, Waking, TokenInv, EnrolledIsReachable, EnrolledIsInactive,
           ShuttingDown
  <2>. QED
    BY <2>2, <2>3 DEF WakeInv
<1>3. ShutdownInv'
  <2>1. Holders' = Holders /\ Present' = Present
    BY DEF Holders, Present
  <2>. QED
    BY <2>1
    DEF Inv, ShutdownInv, RefInv, CalmInv, Calm, DestroyInv, Destroying, ZombieInv, Leaving,
                LiveInv, AwaitInv, FinalizeInv, ShuttingDown
<1>. QED
  BY <1>1, <1>2, <1>3 DEF Inv

\* The conjunction is an invariant of sleep, wake and shutdown, for any number
\* of workers and producers.
THEOREM Invariance == Spec => []Inv
<1>1. Init => Inv
  BY InitInv
<1>2. Inv /\ [Next]_vars => Inv'
  BY TypeKept, WakeKept, ShutdownKept, StutterKeepsInv DEF Inv
<1>. QED
  BY <1>1, <1>2, PTL DEF Spec

\* iree_task_worker_pump_until_exit against iree_task_executor_wake_workers:
\* while the executor is referenced, published work waits for a worker only if
\* one is about to scan, one is being woken, or all are inside drains; and a
\* worker that sleeps can be found by the next wake.
THEOREM WorkFindsFreeWorkers == Spec => []FreeWorkerScans
<1>1. Inv => FreeWorkerScans
  <2>. SUFFICES ASSUME Inv PROVE FreeWorkerScans
    OBVIOUS
  <2>1. TypeOK /\ WakeInv /\ ShutdownInv
    BY DEF Inv
  <2>2. SleeperIsReachable
    BY <2>1 DEF SleeperIsReachable, WakeInv, EnrolledIsReachable
  <2>3. ASSUME pending > 0, ~ShuttingDown,
               \A t \in Threads : ~Waking(t), \A w \in Workers : ~WillScan(w)
        PROVE  \A w \in Workers : Draining(w)
    <3>. SUFFICES ASSUME NEW w \in Workers, ~Draining(w) PROVE FALSE
      OBVIOUS
    <3>0. /\ pending \in Nat /\ relaying \subseteq Workers
          /\ UnitsAreCovered /\ EnrolledIsReachable /\ ClaimInv /\ Calm
      BY <2>1, <2>3 DEF TypeOK, WakeInv, ShutdownInv, CalmInv
    <3>1. \A t \in Threads : pc[t] \notin WakePcs
      BY <2>3, <3>0, PcSets, Kinds DEF Waking, WillScan, ClaimInv
    <3>2. Bumping = {} /\ \A v : Publishing(v) = {}
      BY <3>1, PcSets DEF Bumping, Publishing
    <3>3. \A v \in Workers : ~(pc[v] \in {"mark_idle", "recheck"} /\ epochSeen[v] = wakeEpoch)
      BY <2>3, <3>0, <3>2, Sizes DEF UnitsAreCovered
    <3>4. \A v \in Workers : pc[v] = "asleep" \/ pc[v] = "drain"
      BY <2>3, <3>0, <3>1, <3>3, PcSets, Kinds DEF Calm, WillScan
    <3>5. \A v \in Workers : pc[v] = "asleep" => v \in idleMask
      BY <2>3, <3>0, <3>1, PcSets DEF EnrolledIsReachable, WillScan
    <3>6. Coming = {}
      BY <3>0, <3>4, <3>5, Kinds DEF Coming, ComingPcs, ClaimInv
    <3>7. pc[w] = "asleep" /\ w \in idleMask
      BY <3>4, <3>5 DEF Draining
    <3>8. pending <= Cardinality({}) + Cardinality({})
      BY <2>3, <3>0, <3>2, <3>6, <3>7 DEF UnitsAreCovered
    <3>. QED
      BY <2>3, <3>0, <3>8, Sizes
  <2>. QED
    BY <2>1, <2>2, <2>3 DEF FreeWorkerScans
<1>. QED
  BY <1>1, Invariance, PTL

\* iree_task_executor_destroy, _worker_exit and _finalize: a worker is
\* deinitialized once it is a zombie that no thread will touch again, and the
\* storage is freed after the last access of every thread, whether a producer
\* or a worker of the executor drops the last reference.
THEOREM SafeFinalization == Spec => []FinalizeIsSafe
<1>1. Inv => FinalizeIsSafe
  <2>. SUFFICES ASSUME Inv PROVE FinalizeIsSafe
    OBVIOUS
  <2>1. TypeOK /\ ShutdownInv
    BY DEF Inv
  <2>2. freed => deinitialized = Workers /\ \A t \in Threads : pc[t] = "done"
    BY <2>1 DEF ShutdownInv, FinalizeInv
  <2>3. ASSUME NEW w \in deinitialized
        PROVE  workerState[w] = "ZOMBIE" /\ \A t \in Threads : ~Uses(t, w)
    <3>0. w \in Workers
      BY <2>1, <2>3 DEF TypeOK
    <3>1. CASE freed
      <4>1. \A t \in Threads : pc[t] = "done"
        BY <2>2, <3>1
      <4>2. workerState[w] = "ZOMBIE"
        BY <2>1, <3>0, <4>1, PcSets, Kinds DEF ShutdownInv, ZombieInv
      <4>. QED
        BY <4>1, <4>2, PcSets DEF Uses
    <3>2. CASE ~freed
      <4>1. PICK f \in Threads : pc[f] = "finalize"
        BY <2>1, <2>3, <3>2 DEF ShutdownInv, FinalizeInv
      <4>2. \A i \in Workers : pc[i] \in GonePcs
        BY <2>1, <4>1 DEF ShutdownInv, AwaitInv
      <4>3. \A t \in Threads : t # f => pc[t] \notin DestroyPcs \cup {"finalize"}
        BY <2>1, <4>1 DEF ShutdownInv, DestroyInv, Destroying
      <4>4. workerState[w] = "ZOMBIE"
        BY <2>1, <3>0, <4>1, <4>2, <4>3, PcSets DEF ShutdownInv, ZombieInv
      <4>5. w = f \/ pc[w] = "done"
        BY <2>1, <2>3, <4>1 DEF ShutdownInv, FinalizeInv
      <4>6. \A t \in Threads : pc[t] \notin WakePcs
        <5>1. Holders = {}
          <6>1. ShuttingDown
            BY <2>1, <4>1, PcSets, Kinds DEF ShutdownInv, CalmInv, Calm
          <6>2. Holders \in SUBSET Threads
            BY Kinds DEF Holders
          <6>3. refCount = Cardinality(Holders) + givenRefs /\ givenRefs \in Nat /\ refCount = 0
            BY <2>1, <6>1 DEF ShutdownInv, RefInv, TypeOK, ShuttingDown
          <6>4. Cardinality(Holders) = 0
            BY <6>2, <6>3, Sizes
          <6>. QED
            BY <6>2, <6>4, Sizes
        <5>. QED
          BY <4>2, <5>1, PcSets, Kinds DEF Holders
      <4>7. \A t \in Threads : ~Uses(t, w)
        BY <4>1, <4>3, <4>5, <4>6, PcSets DEF Uses
      <4>. QED
        BY <4>4, <4>7
    <3>. QED
      BY <3>1, <3>2
  <2>. QED
    BY <2>2, <2>3 DEF FinalizeIsSafe
<1>. QED
  BY <1>1, Invariance, PTL
=============================================================================
