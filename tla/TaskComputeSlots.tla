-------------------------- MODULE TaskComputeSlots --------------------------
(***************************************************************************)
(* The compute slots of runtime/src/iree/task: how a process that several  *)
(* workers drain together is placed in a slot, drained, kept warm, put to  *)
(* sleep, reclaimed, promoted from the overflow list and finally released. *)
(*                                                                         *)
(*   executor.c   schedule_process (compute branch), place_in_compute_slot *)
(*   process.c    acquire_ and release_compute_placement, report_error     *)
(*   worker.c     drain_compute_slots and all it calls                     *)
(*   process.h    drain_result_t, what a client's drain may return         *)
(*                                                                         *)
(* One action is one atomic operation, except that loads are merged with   *)
(* the operation next to them when no other thread can change what they    *)
(* read: a registered drainer pins the slot's process and epoch, and the   *)
(* holder of the sentinel alone touches the slot's metadata.  Atomics are  *)
(* sequentially consistent.  Falling asleep and being woken are abstracted *)
(* to what module TaskExecutor establishes, see Wake below.                *)
(***************************************************************************)
EXTENDS Integers, FiniteSets

CONSTANTS
  Processes,
  Workers,
  Schedulers,    \* threads that publish work and call schedule_process
  Clients,       \* the executors and the users of them that Init chooses from
  None

(* A client says how large the executor is (slots and workers), which      *)
(* processes and scheduling threads there are, what the processes do, and  *)
(* bounds what is asked for:                                               *)
(*   budget     wake_budget of every process                               *)
(*   retainers  keep_warm_retainer_limit of a drain result                 *)
(*   dependent  process -> the process its completion activates, or None   *)
(*   electing   the processes whose drain elects an active drainer and     *)
(*              sends the others to wait warm                              *)
(*   failing    the processes whose drain may return an error              *)
(*   regions    bound: region transitions inside the drains of a process   *)
(*   calls      bound: schedule calls of a scheduler                       *)
ClientType ==
  [slots : Nat \ {0}, workers : Nat \ {0}, schedulers : Nat \ {0},
   processes : SUBSET Processes, budget : Nat \ {0}, retainers : Nat,
   dependent : [Processes -> Processes \cup {None}], electing : SUBSET Processes,
   failing : SUBSET Processes, regions : Nat, calls : Nat]

EMPTY == "EMPTY"         \* slot->process == 0
RESERVED == "RESERVED"   \* IREE_TASK_COMPUTE_SLOT_RESERVED
Threads == Workers \cup Schedulers

ASSUME ThreadAssumption ==
  /\ Workers \cap Schedulers = {} /\ IsFiniteSet(Threads)
  /\ {EMPTY, RESERVED, None} \cap Processes = {}
\* A process has at most one upstream (suspend counts are TaskProcess's).
ASSUME ClientAssumption ==
  \A c \in Clients :
    /\ c \in ClientType
    /\ \A p, q \in Processes :
         c.dependent[p] = c.dependent[q] => p = q \/ c.dependent[p] = None

VARIABLES
  client,           \* the member of Clients this behaviour is about
  state,            \* process -> SUSPENDED | RUNNABLE | COMPLETED
  scheduleState,    \* process -> IDLE | DRAINING
  needsDrain, retainDrain,
  placementEpoch,
  placements,       \* count of compute_placement_state
  releasePending,   \* high bit of compute_placement_state
  retentionEpoch,
  warmRetainers,
  slotProcess,      \* slot -> EMPTY | RESERVED | process
  slotEpoch,        \* slot->placement_epoch
  slotBudget,       \* slot->wake_budget
  generation, drainers, sentinel,  \* the three parts of slot->active_drainers
  completionClaimed,
  overflow,         \* compute_overflow, as a set
  work,             \* process -> units its drain can take
  regionsLeft,      \* process -> region transitions still to come
  closing,          \* processes whose drain returns completed from now on
  completions,      \* history: process -> completion_fn calls
  releases,         \* history: process -> release_fn calls
  pc,               \* thread -> the operation it performs next
  rescan,           \* worker -> wake_epoch moved since its scan began
  todo,             \* worker -> slots its scan has not visited
  me,               \* worker -> locals of drain_compute_slots
  job,              \* thread -> process it schedules or places
  probe,            \* thread -> slot try_place looks at
  ret,              \* thread -> where placing returns to
  callsLeft         \* scheduler -> remaining schedule calls

Slots == 1 .. client.slots   \* IREE_TASK_EXECUTOR_MAX_COMPUTE_SLOTS of them
Budget == client.budget

processVars == <<state, scheduleState, needsDrain, retainDrain, placementEpoch,
                 placements, releasePending, retentionEpoch, warmRetainers>>
slotVars == <<slotProcess, slotEpoch, slotBudget, generation, drainers, sentinel,
              completionClaimed>>
clientVars == <<client, work, regionsLeft, closing, completions, releases, callsLeft>>
callVars == <<job, probe, ret>>
scanVars == <<rescan, todo>>
vars == <<processVars, slotVars, overflow, clientVars, pc, scanVars, me, callVars>>

Useful == {"work", "region"}       \* result.did_work
KeepActive == {"active", "publish"} \* result.keep_active
Results == Useful \cup KeepActive \cup {"none", "warm", "closed", "fail"}

SchedulePcs == {"sched", "notify", "retention", "acquire", "consume", "place",
                "hold", "fill", "overflow", "wake"}
DrainPcs == {"drain", "drained", "publish", "claim", "complete", "retain",
             "leave", "exit"}
WarmPcs == {"warm", "warm_sleep", "try_rejoin", "rejoin", "drop"}
ReleasePcs == {"release", "clear", "reset", "promote", "rewake", "rewake_post",
               "settle", "idle", "recheck", "reread", "reclaim", "reclaim_wake",
               "unplace"}
Pcs == {"absent", "ready", "asleep", "rest", "scan", "join", "verify", "bail", "owner",
        "decide", "restore", "final", "final_check"}
         \cup SchedulePcs \cup DrainPcs \cup WarmPcs \cup ReleasePcs

\* The locals of drain_compute_slots at the top of its loop.
NoLocals == [slot |-> 1, process |-> None, epoch |-> 0, gen |-> 0,
             result |-> "none", terminal |-> FALSE, entered |-> FALSE,
             rejoin |-> FALSE, keepEpoch |-> 0, didWork |-> FALSE]

TypeOK ==
  /\ client \in Clients
  /\ state \in [Processes -> {"SUSPENDED", "RUNNABLE", "COMPLETED"}]
  /\ scheduleState \in [Processes -> {"IDLE", "DRAINING"}]
  /\ needsDrain \in [Processes -> BOOLEAN] /\ retainDrain \in [Processes -> BOOLEAN]
  /\ placementEpoch \in [Processes -> Nat] /\ placements \in [Processes -> Nat]
  /\ releasePending \in [Processes -> BOOLEAN]
  /\ retentionEpoch \in [Processes -> Nat] /\ warmRetainers \in [Processes -> Nat]
  /\ slotProcess \in [Slots -> Processes \cup {EMPTY, RESERVED}]
  /\ slotEpoch \in [Slots -> Nat] /\ slotBudget \in [Slots -> Nat]
  /\ generation \in [Slots -> Nat] /\ drainers \in [Slots -> Nat]
  /\ sentinel \in [Slots -> BOOLEAN] /\ completionClaimed \in [Slots -> BOOLEAN]
  /\ overflow \subseteq Processes /\ closing \subseteq Processes
  /\ work \in [Processes -> Nat] /\ regionsLeft \in [Processes -> Nat]
  /\ completions \in [Processes -> Nat] /\ releases \in [Processes -> Nat]
  /\ pc \in [Threads -> Pcs] /\ rescan \in [Workers -> BOOLEAN]
  /\ todo \in [Workers -> SUBSET Slots]
  /\ me \in [Workers -> [slot : Slots, process : Processes \cup {None}, epoch : Nat,
                         gen : Nat, result : Results, terminal : BOOLEAN,
                         entered : BOOLEAN, rejoin : BOOLEAN, keepEpoch : Nat,
                         didWork : BOOLEAN]]
  /\ job \in [Threads -> Processes \cup {None}] /\ probe \in [Threads -> Slots]
  /\ ret \in [Threads -> {"wake", "rewake", "reclaim_wake"}]
  /\ callsLeft \in [Schedulers -> Nat]

----------------------------------------------------------------------------
(* A process is initialised runnable, or suspended until the process it    *)
(* depends on completes; a suspended one has its first unit ready.  A      *)
(* worker thread begins with a scan.                                       *)
Upstream(p) == {q \in Processes : client.dependent[q] = p}

Init ==
  /\ client \in Clients
  /\ state = [p \in Processes |-> IF Upstream(p) = {} THEN "RUNNABLE" ELSE "SUSPENDED"]
  /\ scheduleState = [p \in Processes |-> "IDLE"]
  /\ needsDrain = [p \in Processes |-> FALSE] /\ retainDrain = [p \in Processes |-> FALSE]
  /\ placementEpoch = [p \in Processes |-> 0] /\ placements = [p \in Processes |-> 0]
  /\ releasePending = [p \in Processes |-> FALSE]
  /\ retentionEpoch = [p \in Processes |-> 0] /\ warmRetainers = [p \in Processes |-> 0]
  /\ slotProcess = [s \in Slots |-> EMPTY]
  /\ slotEpoch = [s \in Slots |-> 0] /\ slotBudget = [s \in Slots |-> 0]
  /\ generation = [s \in Slots |-> 0] /\ drainers = [s \in Slots |-> 0]
  /\ sentinel = [s \in Slots |-> FALSE] /\ completionClaimed = [s \in Slots |-> FALSE]
  /\ overflow = {} /\ closing = {}
  /\ work = [p \in Processes |-> IF Upstream(p) = {} THEN 0 ELSE 1]
  /\ regionsLeft = [p \in Processes |-> client.regions]
  /\ completions = [p \in Processes |-> 0] /\ releases = [p \in Processes |-> 0]
  /\ \E started \in SUBSET Threads :
       /\ Cardinality(started \cap Workers) = client.workers
       /\ Cardinality(started \cap Schedulers) = client.schedulers
       /\ pc = [t \in Threads |-> IF t \notin started THEN "absent"
                                 ELSE IF t \in Workers THEN "rest" ELSE "ready"]
  /\ rescan = [w \in Workers |-> FALSE] /\ todo = [w \in Workers |-> {}]
  /\ me = [w \in Workers |-> NoLocals]
  /\ job = [t \in Threads |-> None] /\ probe = [t \in Threads |-> 1]
  /\ ret = [t \in Threads |-> "wake"]
  /\ callsLeft = [s \in Schedulers |-> client.calls]

Goto(t, from, to) == pc[t] = from /\ pc' = [pc EXCEPT ![t] = to]

\* iree_task_process_is_terminal
Terminal(p) == state[p] = "COMPLETED"

Asleep == {w \in Workers : pc[w] = "asleep"}

(* iree_task_executor_wake_workers(count) and then pc[t] = to.  As module  *)
(* TaskExecutor shows: every worker that is not asleep scans again before  *)
(* it sleeps, and at least one sleeper is woken, at most count, unless the *)
(* wake went to a worker that was just about to sleep and now scans again. *)
Wake(t, count, to) ==
  /\ \E woken \in SUBSET Asleep :
       /\ Cardinality(woken) <= count
       /\ \/ woken # {} \/ Asleep = {} \/ count = 0
          \/ \E w \in Workers \ {t} : pc[w] = "scan" /\ todo[w] = {}
       /\ pc' = [u \in Threads |-> IF u = t THEN to
                                   ELSE IF u \in woken THEN "rest" ELSE pc[u]]
  /\ rescan' = [w \in Workers |-> IF pc[w] \in {"absent", "asleep", "rest"} \/ count = 0
                                  THEN rescan[w] ELSE TRUE]
  /\ UNCHANGED todo

----------------------------------------------------------------------------
(* schedule_process, compute branch.  A scheduler has published a unit of  *)
(* work, or has asked the process to finish, before it makes the call; a   *)
(* worker makes it for the dependent of a process it has completed.        *)

CallSchedule(s) ==
  /\ Goto(s, "ready", "sched") /\ callsLeft[s] > 0
  /\ \E p \in client.processes :
       /\ state[p] # "SUSPENDED" /\ p \notin closing
       /\ job' = [job EXCEPT ![s] = p]
       /\ \/ work' = [work EXCEPT ![p] = @ + 1] /\ UNCHANGED closing
          \/ closing' = closing \cup {p} /\ UNCHANGED work
  /\ callsLeft' = [callsLeft EXCEPT ![s] = @ - 1]
  /\ UNCHANGED <<processVars, slotVars, overflow, client, regionsLeft, completions,
                 releases, scanVars, me, probe, ret>>

\* schedule_process returns to its caller.
AfterSchedule(t) == IF t \in Workers THEN "leave" ELSE "ready"

ScheduleTerminal(t) ==
  /\ Goto(t, "sched", AfterSchedule(t)) /\ Terminal(job[t])
  /\ job' = [job EXCEPT ![t] = None]
  /\ UNCHANGED <<processVars, slotVars, overflow, clientVars, scanVars, me, probe, ret>>

ScheduleLive(t) ==
  /\ Goto(t, "sched", "notify") /\ ~Terminal(job[t])
  /\ UNCHANGED <<processVars, slotVars, overflow, clientVars, scanVars, me, callVars>>

ScheduleNotify(t) ==
  /\ Goto(t, "notify", "retention")
  /\ needsDrain' = [needsDrain EXCEPT ![job[t]] = TRUE]
  /\ UNCHANGED <<state, scheduleState, retainDrain, placementEpoch, placements,
                 releasePending, retentionEpoch, warmRetainers>>
  /\ UNCHANGED <<slotVars, overflow, clientVars, scanVars, me, callVars>>

ScheduleRetention(t) ==
  /\ Goto(t, "retention", "acquire")
  /\ retentionEpoch' = [retentionEpoch EXCEPT ![job[t]] = @ + 1]
  /\ UNCHANGED <<state, scheduleState, needsDrain, retainDrain, placementEpoch,
                 placements, releasePending, warmRetainers>>
  /\ UNCHANGED <<slotVars, overflow, clientVars, scanVars, me, callVars>>

\* CAS(schedule_state, IDLE, DRAINING)
ScheduleAcquire(t) ==
  /\ \/ /\ Goto(t, "acquire", "consume") /\ scheduleState[job[t]] = "IDLE"
        /\ scheduleState' = [scheduleState EXCEPT ![job[t]] = "DRAINING"]
     \/ /\ Goto(t, "acquire", "wake") /\ scheduleState[job[t]] # "IDLE"
        /\ UNCHANGED scheduleState
  /\ UNCHANGED <<state, needsDrain, retainDrain, placementEpoch, placements,
                 releasePending, retentionEpoch, warmRetainers>>
  /\ UNCHANGED <<slotVars, overflow, clientVars, scanVars, me, callVars>>

ScheduleConsume(t) ==
  /\ Goto(t, "consume", "place")
  /\ needsDrain' = [needsDrain EXCEPT ![job[t]] = FALSE]
  /\ ret' = [ret EXCEPT ![t] = "wake"] /\ probe' = [probe EXCEPT ![t] = 1]
  /\ UNCHANGED <<state, scheduleState, retainDrain, placementEpoch, placements,
                 releasePending, retentionEpoch, warmRetainers>>
  /\ UNCHANGED <<slotVars, overflow, clientVars, scanVars, me, job>>

ScheduleWake(t) ==
  /\ pc[t] = "wake" /\ Wake(t, Budget, AfterSchedule(t))
  /\ job' = [job EXCEPT ![t] = None]
  /\ UNCHANGED <<processVars, slotVars, overflow, clientVars, me, probe, ret>>

----------------------------------------------------------------------------
(* try_place_in_compute_slot, and the push to the overflow list that every *)
(* caller makes when it fails.                                             *)

Free(s) == slotProcess[s] = EMPTY

\* CAS(slot->process, 0, RESERVED) on the slots in order
PlaceReserve(t) ==
  LET s == probe[t] IN
  /\ \/ /\ Goto(t, "place", "hold") /\ Free(s)
        /\ slotProcess' = [slotProcess EXCEPT ![s] = RESERVED]
        /\ UNCHANGED probe
     \/ /\ Goto(t, "place", "place") /\ ~Free(s) /\ s < client.slots
        /\ probe' = [probe EXCEPT ![t] = s + 1]
        /\ UNCHANGED slotProcess
     \/ /\ Goto(t, "place", "overflow") /\ ~Free(s) /\ s = client.slots
        /\ UNCHANGED <<slotProcess, probe>>
  /\ UNCHANGED <<slotEpoch, slotBudget, generation, drainers, sentinel, completionClaimed>>
  /\ UNCHANGED <<processVars, overflow, clientVars, scanVars, me, job, ret>>

\* iree_task_process_acquire_compute_placement, _advance_placement_epoch
PlaceHold(t) ==
  LET p == job[t] IN
  /\ Goto(t, "hold", "fill")
  /\ placements' = [placements EXCEPT ![p] = @ + 1]
  /\ placementEpoch' = [placementEpoch EXCEPT ![p] = @ + 1]
  /\ UNCHANGED <<state, scheduleState, needsDrain, retainDrain, releasePending,
                 retentionEpoch, warmRetainers>>
  /\ UNCHANGED <<slotVars, overflow, clientVars, scanVars, me, callVars>>

\* A worker that was promoting or is back from placing itself has no job left.
DropJob(t) == job' = [job EXCEPT ![t] = IF ret[t] = "wake" THEN @ ELSE None]

\* Stores the metadata and publishes the process.
PlacePublish(t) ==
  LET p == job[t] s == probe[t] IN
  /\ Goto(t, "fill", ret[t])
  /\ slotBudget' = [slotBudget EXCEPT ![s] = Budget]
  /\ slotEpoch' = [slotEpoch EXCEPT ![s] = placementEpoch[p]]
  /\ slotProcess' = [slotProcess EXCEPT ![s] = p]
  /\ probe' = [probe EXCEPT ![t] = 1] /\ DropJob(t)
  /\ UNCHANGED <<generation, drainers, sentinel, completionClaimed>>
  /\ UNCHANGED <<processVars, overflow, clientVars, scanVars, me, ret>>

PlaceOverflow(t) ==
  /\ Goto(t, "overflow", ret[t])
  /\ overflow' = overflow \cup {job[t]}
  /\ probe' = [probe EXCEPT ![t] = 1] /\ DropJob(t)
  /\ UNCHANGED <<processVars, slotVars, clientVars, scanVars, me, ret>>

----------------------------------------------------------------------------
(* The scan of a worker.  compute_slot_scan_start rotates from scan to     *)
(* scan; here the slots are visited in any order.                          *)

\* prepare_wait and the load of wake_epoch in pump_until_exit
ScanStart(w) ==
  /\ Goto(w, "rest", "scan")
  /\ rescan' = [rescan EXCEPT ![w] = FALSE] /\ todo' = [todo EXCEPT ![w] = Slots]
  /\ me' = [me EXCEPT ![w] = NoLocals]
  /\ UNCHANGED <<processVars, slotVars, overflow, clientVars, callVars>>

\* The quick check.
ScanSlot(w) ==
  /\ \E s \in todo[w] :
       /\ todo' = [todo EXCEPT ![w] = @ \ {s}]
       /\ IF slotProcess[s] \in Processes
          THEN Goto(w, "scan", "join") /\ me' = [me EXCEPT ![w] = [NoLocals EXCEPT !.slot = s]]
          ELSE Goto(w, "scan", "scan") /\ UNCHANGED me
  /\ UNCHANGED <<processVars, slotVars, overflow, clientVars, rescan, callVars>>

\* A fruitless scan: mark_idle, then sleep unless wake_epoch has moved.
ScanEnd(w) ==
  /\ todo[w] = {} /\ Goto(w, "scan", IF rescan[w] THEN "rest" ELSE "asleep")
  /\ rescan' = [rescan EXCEPT ![w] = FALSE]
  /\ me' = [me EXCEPT ![w] = NoLocals]
  /\ UNCHANGED <<processVars, slotVars, overflow, clientVars, todo, callVars>>

\* Mutant of TurnsAway: the sign of the count is not looked at.
TurnsAwayNobody(s) == FALSE

TurnsAway(s) == sentinel[s]

\* fetch_add(active_drainers, 1); a negative count is the sentinel
Join(w) ==
  LET s == me[w].slot IN
  /\ Goto(w, "join", IF TurnsAway(s) THEN "bail" ELSE "verify")
  /\ drainers' = [drainers EXCEPT ![s] = @ + 1]
  /\ UNCHANGED <<slotProcess, slotEpoch, slotBudget, generation, sentinel, completionClaimed>>
  /\ UNCHANGED <<processVars, overflow, clientVars, scanVars, me, callVars>>

\* The reload of the process and the placement epochs after registering.
PlacementIsCurrent(s) ==
  /\ slotProcess[s] \in Processes
  /\ slotEpoch[s] # 0 /\ slotEpoch[s] = placementEpoch[slotProcess[s]]

Verify(w) ==
  LET s == me[w].slot IN
  /\ IF PlacementIsCurrent(s)
     THEN /\ Goto(w, "verify", "drain")
          /\ me' = [me EXCEPT ![w].process = slotProcess[s], ![w].epoch = slotEpoch[s]]
     ELSE Goto(w, "verify", "bail") /\ UNCHANGED me
  /\ UNCHANGED <<processVars, slotVars, overflow, clientVars, scanVars, callVars>>

Bail(w) ==
  /\ Goto(w, "bail", "scan")
  /\ drainers' = [drainers EXCEPT ![me[w].slot] = @ - 1]
  /\ me' = [me EXCEPT ![w] = NoLocals]
  /\ UNCHANGED <<slotProcess, slotEpoch, slotBudget, generation, sentinel, completionClaimed>>
  /\ UNCHANGED <<processVars, overflow, clientVars, scanVars, callVars>>

----------------------------------------------------------------------------
(* One drain.  What it returns is the client's choice, within the contract *)
(* of iree_task_process_drain_result_t: it takes a unit when there is one; *)
(* finds none; or finds that peers hold the last ones and then asks to     *)
(* retry, to publish that, to be the one active drainer or to stay warm.   *)
(* The compute process of a task queue elects the active drainer through   *)
(* retain_drain (hal/driver/task/queue/queue.c:2363).                      *)
(* A unit becomes visible to the peers only when the drain that makes it   *)
(* returns, so a peer may find nothing while a region is changing.         *)

InFlight(p) == \E v \in Workers : /\ pc[v] = "drained" /\ me[v].process = p
                                  /\ me[v].result \in Useful

SkipTerminal(w) ==
  /\ Goto(w, "drain", "claim") /\ Terminal(me[w].process)
  /\ me' = [me EXCEPT ![w].terminal = TRUE]
  /\ UNCHANGED <<processVars, slotVars, overflow, clientVars, scanVars, callVars>>

Returning(w, result) ==
  /\ ~Terminal(me[w].process) /\ Goto(w, "drain", "drained")
  /\ me' = [me EXCEPT ![w].result = result,
                      ![w].didWork = result \in Useful \cup KeepActive,
                      ![w].keepEpoch = IF result = "warm"
                                       THEN retentionEpoch[me[w].process] ELSE 0]

\* A unit is taken: done, done with a region to follow, or failing.
DrainWork(w) ==
  LET p == me[w].process IN
  /\ pc[w] = "drain" /\ p \notin closing /\ work[p] > 0
  /\ work' = [work EXCEPT ![p] = @ - 1]
  /\ \/ Returning(w, "work") /\ UNCHANGED regionsLeft
     \/ /\ regionsLeft[p] > 0 /\ Returning(w, "region")
        /\ regionsLeft' = [regionsLeft EXCEPT ![p] = @ - 1]
     \/ p \in client.failing /\ Returning(w, "fail") /\ UNCHANGED regionsLeft
  /\ UNCHANGED <<processVars, slotVars, overflow, client, closing, completions,
                 releases, callsLeft, scanVars, callVars>>

DrainNothing(w) ==
  LET p == me[w].process IN
  /\ pc[w] = "drain" /\ (p \in closing \/ work[p] = 0)
  /\ \/ p \in closing /\ Returning(w, "closed")
     \/ p \notin closing /\ Returning(w, "none")
     \/ p \notin closing /\ InFlight(p) /\ Returning(w, "active")
     \/ p \notin closing /\ InFlight(p) /\ Returning(w, "publish")
  /\ UNCHANGED <<processVars, slotVars, overflow, clientVars, scanVars, callVars>>

\* CAS(retain_drain, 0, 1) inside the drain
DrainElect(w) ==
  LET p == me[w].process IN
  /\ pc[w] = "drain" /\ p \in client.electing \ closing /\ work[p] = 0 /\ InFlight(p)
  /\ Returning(w, IF retainDrain[p] THEN "warm" ELSE "active")
  /\ retainDrain' = [retainDrain EXCEPT ![p] = TRUE]
  /\ UNCHANGED <<state, scheduleState, needsDrain, placementEpoch, placements,
                 releasePending, retentionEpoch, warmRetainers>>
  /\ UNCHANGED <<slotVars, overflow, clientVars, scanVars, callVars>>

\* drain() returns; report_error; is_terminal is read.
DrainReturn(w) ==
  LET p == me[w].process
      result == me[w].result
      failed == result = "fail"
      terminal == result = "closed" \/ failed \/ Terminal(p)
  IN
  /\ Goto(w, "drained",
          IF terminal THEN "claim"
          ELSE IF result \in Useful \cup {"publish"} THEN "publish"
          ELSE IF result = "warm" THEN "retain"
          ELSE IF result = "active" THEN "exit" ELSE "leave")
  /\ state' = [state EXCEPT ![p] = IF failed THEN "COMPLETED" ELSE @]
  /\ me' = [me EXCEPT ![w].terminal = terminal]
  /\ retentionEpoch' = [retentionEpoch EXCEPT ![p] = IF result \in Useful THEN @ + 1 ELSE @]
  /\ work' = [work EXCEPT ![p] = IF result = "region" THEN @ + 1 ELSE @]
  /\ UNCHANGED <<scheduleState, needsDrain, retainDrain, placementEpoch, placements,
                 releasePending, warmRetainers, regionsLeft, closing, completions,
                 releases, client, callsLeft>>
  /\ UNCHANGED <<slotVars, overflow, scanVars, callVars>>

----------------------------------------------------------------------------
(* After the drain: publications, completion and the exit from the slot.   *)

\* Where drain_compute_slots goes on once the slot is left.
Onward(l) == IF l.entered THEN "warm" ELSE IF l.didWork THEN "rest" ELSE "scan"

\* Mutant of AnnounceProgress: useful work is not published to the peers.
AnnounceNothing(w) == UNCHANGED needsDrain

AnnounceProgress(w) ==
  needsDrain' = [needsDrain EXCEPT ![me[w].process] = @ \/ me[w].result \in Useful]

\* needs_drain tells the peers of progress, retain_drain of keep_active.
DrainPublish(w) ==
  /\ Goto(w, "publish", "exit")
  /\ AnnounceProgress(w)
  /\ retainDrain' = [retainDrain EXCEPT ![me[w].process] = @ \/ me[w].result = "publish"]
  /\ UNCHANGED <<state, scheduleState, placementEpoch, placements, releasePending,
                 retentionEpoch, warmRetainers>>
  /\ UNCHANGED <<slotVars, overflow, clientVars, scanVars, me, callVars>>

\* Mutant of WinsCompletion: every worker that sees the end completes.
WinsCompletionAlways(s) == TRUE

WinsCompletion(s) == ~completionClaimed[s]

\* CAS(completion_claimed, 0, 1)
ClaimCompletion(w) ==
  LET s == me[w].slot IN
  /\ Goto(w, "claim", IF WinsCompletion(s) THEN "complete" ELSE "leave")
  /\ completionClaimed' = [completionClaimed EXCEPT ![s] = TRUE]
  /\ UNCHANGED <<slotProcess, slotEpoch, slotBudget, generation, drainers, sentinel>>
  /\ UNCHANGED <<processVars, overflow, clientVars, scanVars, me, callVars>>

AfterComplete(d) == IF d = None THEN "leave" ELSE "sched"

\* eager_complete_compute_process: completion_fn, then the dependent is woken
\* and scheduled by this worker.
EagerComplete(w) ==
  LET p == me[w].process
      d == client.dependent[p]
  IN
  /\ Goto(w, "complete", AfterComplete(d))
  /\ state' = [q \in Processes |-> IF q = p THEN "COMPLETED"
                                   ELSE IF q = d THEN "RUNNABLE" ELSE state[q]]
  /\ completions' = [completions EXCEPT ![p] = @ + 1]
  /\ job' = [job EXCEPT ![w] = d]
  /\ UNCHANGED <<scheduleState, needsDrain, retainDrain, placementEpoch, placements,
                 releasePending, retentionEpoch, warmRetainers>>
  /\ UNCHANGED <<slotVars, overflow, client, work, regionsLeft, closing, releases, callsLeft,
                 scanVars, me, probe, ret>>

\* iree_task_process_try_retain_warm, before the drainer claim is dropped
TryRetainWarm(w) ==
  LET p == me[w].process
      limit == IF client.retainers > 0 THEN client.retainers ELSE Budget
      enters == warmRetainers[p] < limit
  IN
  /\ Goto(w, "retain", "leave")
  /\ warmRetainers' = [warmRetainers EXCEPT ![p] = IF enters THEN @ + 1 ELSE @]
  /\ me' = [me EXCEPT ![w].entered = enters, ![w].didWork = @ \/ enters]
  /\ UNCHANGED <<state, scheduleState, needsDrain, retainDrain, placementEpoch,
                 placements, releasePending, retentionEpoch>>
  /\ UNCHANGED <<slotVars, overflow, clientVars, scanVars, callVars>>

\* leave_and_try_claim: the last drainer turns its claim into the sentinel.
LeaveAndTryClaim(w) ==
  LET s == me[w].slot
      last == drainers[s] = 1
  IN
  /\ Goto(w, "leave", IF last THEN "owner" ELSE Onward(me[w]))
  /\ drainers' = [drainers EXCEPT ![s] = @ - 1]
  /\ sentinel' = [sentinel EXCEPT ![s] = @ \/ last]
  /\ me' = [me EXCEPT ![w].gen = generation[s]]
  /\ UNCHANGED <<slotProcess, slotEpoch, slotBudget, generation, completionClaimed>>
  /\ UNCHANGED <<processVars, overflow, clientVars, scanVars, callVars>>

\* The plain fetch_sub after useful work or keep_active.
ExitDraining(w) ==
  /\ Goto(w, "exit", Onward(me[w]))
  /\ drainers' = [drainers EXCEPT ![me[w].slot] = @ - 1]
  /\ UNCHANGED <<slotProcess, slotEpoch, slotBudget, generation, sentinel, completionClaimed>>
  /\ UNCHANGED <<processVars, overflow, clientVars, scanVars, me, callVars>>

----------------------------------------------------------------------------
(* The holder of the sentinel decides whether the process leaves the slot. *)

\* Refreshes is_terminal and consumes needs_drain.
OwnerConsume(w) ==
  LET p == me[w].process
      terminal == me[w].terminal \/ Terminal(p)
      again == ~terminal /\ needsDrain[p]
  IN
  /\ Goto(w, "owner", IF again THEN "restore" ELSE "decide")
  /\ needsDrain' = [needsDrain EXCEPT ![p] = IF terminal THEN @ ELSE FALSE]
  /\ me' = [me EXCEPT ![w].terminal = terminal, ![w].didWork = @ \/ again,
                      ![w].rejoin = again /\ me[w].entered]
  /\ UNCHANGED <<state, scheduleState, retainDrain, placementEpoch, placements,
                 releasePending, retentionEpoch, warmRetainers>>
  /\ UNCHANGED <<slotVars, overflow, clientVars, scanVars, callVars>>

\* Mutant of HasRetainers: the slot is released beside warm workers.
HasRetainersIgnored(p) == FALSE

HasRetainers(p) == warmRetainers[p] # 0

\* Consumes retain_drain and reads the count of warm retainers.
OwnerDecide(w) ==
  LET p == me[w].process
      again == ~me[w].terminal /\ retainDrain[p]
  IN
  /\ Goto(w, "decide", IF again \/ HasRetainers(p) THEN "restore" ELSE "release")
  /\ retainDrain' = [retainDrain EXCEPT ![p] = IF me[w].terminal THEN @ ELSE FALSE]
  /\ me' = [me EXCEPT ![w].didWork = @ \/ again, ![w].rejoin = again /\ me[w].entered]
  /\ UNCHANGED <<state, scheduleState, needsDrain, placementEpoch, placements,
                 releasePending, retentionEpoch, warmRetainers>>
  /\ UNCHANGED <<slotVars, overflow, clientVars, scanVars, callVars>>

\* The count is exactly the sentinel: no worker is between Join and Bail.
Undisturbed(s) == sentinel[s] /\ drainers[s] = 0

\* restore_compute_process_release
Restore(w) ==
  LET s == me[w].slot IN
  /\ Undisturbed(s) /\ Goto(w, "restore", Onward(me[w]))
  /\ sentinel' = [sentinel EXCEPT ![s] = FALSE]
  /\ UNCHANGED <<slotProcess, slotEpoch, slotBudget, generation, drainers, completionClaimed>>
  /\ UNCHANGED <<processVars, overflow, clientVars, scanVars, me, callVars>>

----------------------------------------------------------------------------
(* Warm retention.  wait_warm_compute_process tests for a terminal process *)
(* and then for a new retention epoch, and spins or sleeps; a sleep ends   *)
(* with the epoch test, and its deadline leads back to the first test.     *)

WarmTest(w) ==
  LET p == me[w].process IN
  /\ pc[w] = "warm"
  /\ \/ me[w].rejoin /\ Goto(w, "warm", "try_rejoin")
     \/ ~me[w].rejoin /\ Terminal(p) /\ Goto(w, "warm", "drop")
     \/ ~me[w].rejoin /\ ~Terminal(p) /\ Goto(w, "warm", "warm_sleep")
  /\ me' = [me EXCEPT ![w].rejoin = FALSE, ![w].entered = FALSE]
  /\ UNCHANGED <<processVars, slotVars, overflow, clientVars, scanVars, callVars>>

WarmSleep(w) ==
  LET p == me[w].process IN
  /\ pc[w] = "warm_sleep"
  /\ \/ retentionEpoch[p] # me[w].keepEpoch /\ Goto(w, "warm_sleep", "try_rejoin")
     \/ retentionEpoch[p] = me[w].keepEpoch /\ Terminal(p) /\ Goto(w, "warm_sleep", "warm")
  /\ UNCHANGED <<processVars, slotVars, overflow, clientVars, scanVars, me, callVars>>

\* try_rejoin_warm_compute_process: a surplus retainer is dismissed.
TryRejoin(w) ==
  LET p == me[w].process
      surplus == warmRetainers[p] > Budget
  IN
  /\ Goto(w, "try_rejoin", IF surplus THEN "rest" ELSE "rejoin")
  /\ warmRetainers' = [warmRetainers EXCEPT ![p] = IF surplus THEN @ - 1 ELSE @]
  /\ UNCHANGED <<state, scheduleState, needsDrain, retainDrain, placementEpoch,
                 placements, releasePending, retentionEpoch>>
  /\ UNCHANGED <<slotVars, overflow, clientVars, scanVars, me, callVars>>

PublishRejoin(w) ==
  /\ Goto(w, "rejoin", "drop")
  /\ needsDrain' = [needsDrain EXCEPT ![me[w].process] = TRUE]
  /\ me' = [me EXCEPT ![w].rejoin = TRUE]
  /\ UNCHANGED <<state, scheduleState, retainDrain, placementEpoch, placements,
                 releasePending, retentionEpoch, warmRetainers>>
  /\ UNCHANGED <<slotVars, overflow, clientVars, scanVars, callVars>>

DropWarm(w) ==
  LET p == me[w].process
      final == ~me[w].rejoin /\ warmRetainers[p] = 1
  IN
  /\ Goto(w, "drop", IF final THEN "final" ELSE "rest")
  /\ warmRetainers' = [warmRetainers EXCEPT ![p] = @ - 1]
  /\ UNCHANGED <<state, scheduleState, needsDrain, retainDrain, placementEpoch,
                 placements, releasePending, retentionEpoch>>
  /\ UNCHANGED <<slotVars, overflow, clientVars, scanVars, me, callVars>>

\* release_final_warm: claim the empty slot of our generation and placement,
\* or leave it to whoever has it; spins while another worker arbitrates.
FinalClaim(w) ==
  LET s == me[w].slot
      ours == generation[s] = me[w].gen
  IN
  /\ \/ /\ ours /\ ~sentinel[s] /\ drainers[s] = 0 /\ slotEpoch[s] = me[w].epoch
        /\ Goto(w, "final", "final_check")
        /\ sentinel' = [sentinel EXCEPT ![s] = TRUE]
     \/ /\ ~ours \/ (~sentinel[s] /\ drainers[s] > 0)
        /\ Goto(w, "final", "rest")
        /\ UNCHANGED sentinel
  /\ UNCHANGED <<slotProcess, slotEpoch, slotBudget, generation, drainers, completionClaimed>>
  /\ UNCHANGED <<processVars, overflow, clientVars, scanVars, me, callVars>>

FinalCheck(w) ==
  /\ Goto(w, "final_check",
          IF HasRetainers(me[w].process) THEN "restore" ELSE "release")
  /\ me' = [me EXCEPT ![w].terminal = FALSE]
  /\ UNCHANGED <<processVars, slotVars, overflow, clientVars, scanVars, callVars>>

----------------------------------------------------------------------------
(* release_compute_process, by the holder of the sentinel.                 *)

\* Snapshots the epoch, refreshes is_terminal, clears the slot's metadata.
ReleaseStart(w) ==
  LET s == me[w].slot IN
  /\ Goto(w, "release", "clear")
  /\ me' = [me EXCEPT ![w].epoch = slotEpoch[s],
                      ![w].terminal = @ \/ Terminal(me[w].process)]
  /\ slotEpoch' = [slotEpoch EXCEPT ![s] = 0]
  /\ slotBudget' = [slotBudget EXCEPT ![s] = 0]
  /\ UNCHANGED <<slotProcess, generation, drainers, sentinel, completionClaimed>>
  /\ UNCHANGED <<processVars, overflow, clientVars, scanVars, callVars>>

ReleaseClear(w) ==
  /\ Goto(w, "clear", "reset")
  /\ slotProcess' = [slotProcess EXCEPT ![me[w].slot] = EMPTY]
  /\ UNCHANGED <<slotEpoch, slotBudget, generation, drainers, sentinel, completionClaimed>>
  /\ UNCHANGED <<processVars, overflow, clientVars, scanVars, me, callVars>>

\* CAS(active_drainers, gen|SENTINEL, (gen+1)|0)
ReleaseReset(w) ==
  LET s == me[w].slot IN
  /\ Undisturbed(s) /\ Goto(w, "reset", "promote")
  /\ completionClaimed' = [completionClaimed EXCEPT ![s] = FALSE]
  /\ sentinel' = [sentinel EXCEPT ![s] = FALSE]
  /\ generation' = [generation EXCEPT ![s] = @ + 1]
  /\ UNCHANGED <<slotProcess, slotEpoch, slotBudget, drainers>>
  /\ UNCHANGED <<processVars, overflow, clientVars, scanVars, me, callVars>>

Popped(p) == overflow \ {p}

\* Pops one process of the overflow list and places it.
Promote(w) ==
  /\ \/ /\ overflow = {} /\ Goto(w, "promote", "rewake")
        /\ UNCHANGED <<overflow, job, ret>>
     \/ /\ Goto(w, "promote", "place")
        /\ \E p \in overflow : /\ overflow' = Popped(p)
                               /\ job' = [job EXCEPT ![w] = p]
        /\ ret' = [ret EXCEPT ![w] = "rewake"]
  /\ UNCHANGED <<processVars, slotVars, clientVars, scanVars, me, probe>>

\* Only the slot just released is looked at.
Rewake(w) ==
  /\ Goto(w, "rewake", IF slotProcess[me[w].slot] \in Processes
                       THEN "rewake_post" ELSE "settle")
  /\ ret' = [ret EXCEPT ![w] = "wake"]
  /\ UNCHANGED <<processVars, slotVars, overflow, clientVars, scanVars, me, job, probe>>

RewakePost(w) ==
  /\ pc[w] = "rewake_post" /\ Wake(w, slotBudget[me[w].slot], "settle")
  /\ UNCHANGED <<processVars, slotVars, overflow, clientVars, me, callVars>>

\* Does this release still speak for the process?  A newer placement does
\* its own sleeping and releasing; a terminal process never becomes idle.
StillOurs(w) == me[w].epoch = placementEpoch[me[w].process]

MaySleep(w) == StillOurs(w) /\ ~me[w].terminal

ReleaseSettle(w) ==
  /\ Goto(w, "settle", IF MaySleep(w) THEN "idle" ELSE "unplace")
  /\ UNCHANGED <<processVars, slotVars, overflow, clientVars, scanVars, me, callVars>>

ReleaseIdle(w) ==
  /\ Goto(w, "idle", "recheck")
  /\ scheduleState' = [scheduleState EXCEPT ![me[w].process] = "IDLE"]
  /\ UNCHANGED <<state, needsDrain, retainDrain, placementEpoch, placements,
                 releasePending, retentionEpoch, warmRetainers>>
  /\ UNCHANGED <<slotVars, overflow, clientVars, scanVars, me, callVars>>

ReleaseRecheck(w) ==
  /\ Goto(w, "recheck", IF StillOurs(w) THEN "reread" ELSE "unplace")
  /\ UNCHANGED <<processVars, slotVars, overflow, clientVars, scanVars, me, callVars>>

WorkArrived(p) == needsDrain[p]

\* The final load of needs_drain.
ReleaseReread(w) ==
  /\ Goto(w, "reread", IF WorkArrived(me[w].process) THEN "reclaim" ELSE "unplace")
  /\ UNCHANGED <<processVars, slotVars, overflow, clientVars, scanVars, me, callVars>>

\* CAS(schedule_state, IDLE, DRAINING), then placed again by this worker
Reclaim(w) ==
  LET p == me[w].process IN
  /\ \/ /\ Goto(w, "reclaim", "place") /\ scheduleState[p] = "IDLE"
        /\ scheduleState' = [scheduleState EXCEPT ![p] = "DRAINING"]
        /\ job' = [job EXCEPT ![w] = p]
        /\ ret' = [ret EXCEPT ![w] = "reclaim_wake"]
     \/ /\ Goto(w, "reclaim", "unplace") /\ scheduleState[p] # "IDLE"
        /\ UNCHANGED <<scheduleState, job, ret>>
  /\ UNCHANGED <<state, needsDrain, retainDrain, placementEpoch, placements,
                 releasePending, retentionEpoch, warmRetainers>>
  /\ UNCHANGED <<slotVars, overflow, clientVars, scanVars, me, probe>>

ReclaimWake(w) ==
  /\ pc[w] = "reclaim_wake" /\ Wake(w, Budget, "unplace")
  /\ ret' = [ret EXCEPT ![w] = "wake"]
  /\ UNCHANGED <<processVars, slotVars, overflow, clientVars, me, job, probe>>

Pending(p, terminal) == releasePending[p] \/ terminal

\* iree_task_process_release_compute_placement: the last claim on a process
\* whose release is pending calls release_fn.
Unplace(w) ==
  LET p == me[w].process
      pending == Pending(p, me[w].terminal)
  IN
  /\ Goto(w, "unplace", IF me[w].didWork THEN "rest" ELSE "scan")
  /\ placements' = [placements EXCEPT ![p] = @ - 1]
  /\ releasePending' = [releasePending EXCEPT ![p] = pending]
  /\ releases' = [releases EXCEPT ![p] = IF pending /\ placements[p] = 1 THEN @ + 1 ELSE @]
  /\ me' = [me EXCEPT ![w] = NoLocals]
  /\ UNCHANGED <<state, scheduleState, needsDrain, retainDrain, placementEpoch,
                 retentionEpoch, warmRetainers, work, regionsLeft, closing,
                 client, completions, callsLeft>>
  /\ UNCHANGED <<slotVars, overflow, scanVars, callVars>>

----------------------------------------------------------------------------
Schedule(t) ==
  \/ ScheduleTerminal(t) \/ ScheduleLive(t) \/ ScheduleNotify(t) \/ ScheduleRetention(t)
  \/ ScheduleAcquire(t) \/ ScheduleConsume(t) \/ ScheduleWake(t)
  \/ PlaceReserve(t) \/ PlaceHold(t) \/ PlacePublish(t) \/ PlaceOverflow(t)

Scan(w) == ScanStart(w) \/ ScanSlot(w) \/ ScanEnd(w) \/ Join(w) \/ Verify(w) \/ Bail(w)

Drain(w) ==
  \/ SkipTerminal(w) \/ DrainWork(w) \/ DrainNothing(w) \/ DrainElect(w) \/ DrainReturn(w)
  \/ DrainPublish(w) \/ ClaimCompletion(w) \/ EagerComplete(w) \/ TryRetainWarm(w)
  \/ LeaveAndTryClaim(w) \/ ExitDraining(w) \/ OwnerConsume(w) \/ OwnerDecide(w) \/ Restore(w)

Warm(w) ==
  \/ WarmTest(w) \/ WarmSleep(w) \/ TryRejoin(w) \/ PublishRejoin(w) \/ DropWarm(w)
  \/ FinalClaim(w) \/ FinalCheck(w)

Release(w) ==
  \/ ReleaseStart(w) \/ ReleaseClear(w) \/ ReleaseReset(w) \/ Promote(w)
  \/ Rewake(w) \/ RewakePost(w) \/ ReleaseSettle(w) \/ ReleaseIdle(w)
  \/ ReleaseRecheck(w) \/ ReleaseReread(w) \/ Reclaim(w) \/ ReclaimWake(w) \/ Unplace(w)

WorkerStep(w) == Schedule(w) \/ Scan(w) \/ Drain(w) \/ Warm(w) \/ Release(w)

Next ==
  \/ \E s \in Schedulers : CallSchedule(s) \/ Schedule(s)
  \/ \E w \in Workers : WorkerStep(w)

Spec == Init /\ [][Next]_vars

----------------------------------------------------------------------------
(* Properties.                                                             *)

Released(p) == releases[p] > 0

\* The workers that touch process p's storage without owning its slot's
\* sentinel, and those that do.
Drainers(p) == {w \in Workers : me[w].process = p /\ pc[w] \in DrainPcs \cup SchedulePcs
                                /\ ret[w] = "wake"}
Retainers(p) == {w \in Workers : me[w].process = p /\ pc[w] \in WarmPcs}
Releasers(p) == {w \in Workers :
  /\ me[w].process = p
  /\ \/ pc[w] \in ReleasePcs \cup {"owner", "decide", "final_check"}
     \/ pc[w] \in SchedulePcs /\ ret[w] # "wake"}

\* Threads that have taken p off every list and are about to place it.
Placing(p) == {t \in Threads : job[t] = p /\ pc[t] \in {"consume", "place", "hold", "fill", "overflow"}}

(* A process is in at most one place: one slot, the overflow list, or the  *)
(* hands of one thread that places it; and whoever drains it or waits warm *)
(* beside it does so in that one slot, in its current placement.  This is  *)
(* what the epochs, the generation tag and the sentinel are for.           *)
OnePlacement ==
  \A p \in Processes :
    /\ Cardinality({s \in Slots : slotProcess[s] = p}) + Cardinality(Placing(p))
         + (IF p \in overflow THEN 1 ELSE 0) <= 1
    /\ \A w \in Drainers(p) \cup Retainers(p) :
         slotProcess[me[w].slot] = p /\ slotEpoch[me[w].slot] = placementEpoch[p]

(* release_fn may free the process: it runs at most once, after the        *)
(* completion callback, and when it has run no worker, slot or list holds  *)
(* the process any more, although releases of older placements may overlap *)
(* the terminal one.                                                       *)
ReleaseIsFinal ==
  \A p \in Processes :
    /\ releases[p] <= 1 /\ completions[p] <= 1
    /\ Released(p) =>
         /\ completions[p] = 1
         /\ Drainers(p) \cup Retainers(p) \cup Releasers(p) \cup Placing(p) = {}
         /\ p \notin overflow /\ \A s \in Slots : slotProcess[s] # p

(* The assertions in the code: no warm retainer when a slot is released,   *)
(* no placement after a terminal release, and no count that runs below     *)
(* zero.  Whoever arbitrates a slot holds its sentinel.                    *)
AssertionsHold ==
  /\ TypeOK
  /\ \A w \in Workers :
       /\ pc[w] = "release" => warmRetainers[me[w].process] = 0
       /\ pc[w] = "unplace" => placements[me[w].process] > 0
       /\ pc[w] \in {"try_rejoin", "drop"} => warmRetainers[me[w].process] > 0
  /\ \A t \in Threads : pc[t] = "hold" => ~releasePending[job[t]]
  /\ \A s \in Slots : sentinel[s] \/ \A w \in Workers :
       me[w].slot = s => pc[w] \notin {"owner", "decide", "restore", "release", "clear", "reset"}

\* A worker that does nothing until somebody calls schedule_process.
Quiet(w) == \/ pc[w] \in {"absent", "asleep"}
            \/ pc[w] = "warm_sleep" /\ ~Terminal(me[w].process)
                 /\ retentionEpoch[me[w].process] = me[w].keepEpoch

AllQuiet == /\ \A w \in Workers : Quiet(w)
            /\ \A s \in Schedulers : pc[s] \in {"absent", "ready"}

(* When everybody rests nothing is left to do: a process that is in a slot *)
(* or idle has no work and was not asked to finish, and a finished one has *)
(* been released.  A lost wake, a needs_drain consumed by the wrong worker *)
(* or a release left to somebody who does not come would leave some.  Two  *)
(* cases are properties of their own, below: a process on the overflow     *)
(* list, and the release of one whose workers wait warm.                   *)
SettledWhenQuiet ==
  AllQuiet => \A p \in Processes \ overflow :
    /\ state[p] = "RUNNABLE" => work[p] = 0 /\ p \notin closing
    /\ Terminal(p) => Released(p) \/ p \in client.electing

(* process.h: release_fn "fires when the last active drainer exits after   *)
(* completion_fn": when everybody rests, every terminal process has been   *)
(* released, also one with warm retainers.                                 *)
TerminalIsReleased ==
  AllQuiet => \A p \in Processes : Terminal(p) => Released(p)

(* executor_impl.h: "The releasing worker promotes from this list into the *)
(* newly freed slot": a process does not stay in the overflow list while   *)
(* a slot is free and everybody rests.                                     *)
OverflowIsPromoted ==
  AllQuiet => overflow = {} \/ \A s \in Slots : slotProcess[s] # EMPTY
=============================================================================
