-------------------------- MODULE TaskQueueCompute --------------------------
(***************************************************************************)
(* The compute process of a task queue, runtime/src/iree/hal/driver/task/  *)
(* queue/queue.c: recordings flow through items of a pool, one published   *)
(* at a time in compute_current, and any number of workers drain it.       *)
(*                                                                         *)
(* The word item->drainers holds a generation, CLOSED, RELEASE_CLAIMED and *)
(* the number of workers with a claim on the item.  Items are recycled     *)
(* while a worker may still hold a stale pointer to one; the generation    *)
(* and compute_current_revision, odd during a publication, tell.  The      *)
(* revision only grows and is only compared for equality, so a snapshot is *)
(* modelled by whether the revision still has that value.                  *)
(*                                                                         *)
(* A worker is at the pc of its next atomic operation.  The block          *)
(* processor is reduced to the tiles of a recording: external code.  The   *)
(* compute slot is what TaskComputeSlots shows of it: workers enter while  *)
(* the process is placed; the last to leave without work consumes          *)
(* needs_drain or makes the process IDLE.  Warm retention and retain_drain *)
(* only keep it placed longer and are left out.  The control process, the  *)
(* only producer, is one thread; TaskQueueOps models the rest of it.       *)
(***************************************************************************)
EXTENDS Naturals, Sequences, FiniteSets, SequencesExt

CONSTANTS
  Workers, Items, None,
  Control,    \* the thread that drains the control process
  Ready,      \* the recordings of ready_list, in the order they are issued
  Pooled,     \* the items of the initial free pool, as the slist holds them
  Tiles,      \* recording -> its number of tiles
  Faulty,     \* the recordings whose tiles fail
  Rejectable  \* the recordings whose processor context may not be allocated

Recordings == ToSet(Ready)
Outcomes == {"complete", "failed", "rejected", "cancelled"}

ASSUME ComputeAssumption ==
  /\ Pooled \in Seq(Items) /\ IsInjective(Pooled)
  /\ Ready \in Seq(Recordings) /\ IsInjective(Ready)
  /\ Tiles \in [Recordings -> Nat]
  /\ Faulty \cup Rejectable \subseteq Recordings
  /\ IsFiniteSet(Workers) /\ Control \notin Workers
  /\ None \notin Items \cup Recordings \cup Outcomes

VARIABLES
  revision,    \* compute_current_revision: is it odd, and who has seen its value
  current,     \* compute_current
  ready,       \* recordings of ready_list the control process has not issued
  pending,     \* compute_pending, a LIFO slist
  free,        \* compute_free_pool, a LIFO slist
  allocated,   \* the items of compute_item_head's list
  drainers,    \* item -> its drainers word
  operation,   \* item -> the recording and operation it carries, or None
  tiles,       \* recording -> tiles not yet claimed
  error,       \* the recordings whose processor context holds an error
  outcome,     \* recording -> how its operation ended, or None
  phase,       \* shutdown_phase, as far as the compute process reads it
  slot,        \* the compute process: "idle", "placed" or "released"
  needs,       \* compute_process.needs_drain
  terminal,    \* a drain of the compute process has returned completed
  pc, local,   \* worker -> next operation, and what the drain call holds
  producer     \* the control process's call of drain_recording

listVars == <<current, ready, pending, free, allocated>>
queueVars == <<revision, listVars>>
itemVars == <<drainers, operation, tiles, error, outcome>>
slotVars == <<slot, needs, terminal>>
vars == <<queueVars, itemVars, slotVars, phase, pc, local, producer>>

Tag == [gen : Nat, closed : BOOLEAN, claimed : BOOLEAN, count : Nat]
NewTag(g) == [gen |-> g, closed |-> FALSE, claimed |-> FALSE, count |-> 0]

\* The revision is odd during a publication; a publication outdates what
\* threads have seen.
Even == [updating |-> FALSE, seen |-> {}]
Odd == [updating |-> TRUE, seen |-> {}]
Updating == revision.updating
Seen(t) == t \in revision.seen
Sees(t) == revision' = [revision EXCEPT !.seen = @ \cup {t}]
Forgets(t) == revision' = [revision EXCEPT !.seen = @ \ {t}]

\* What a drain call holds: the item it saw, the generation it registered with,
\* the item or operation it hands on, and its result.
NoLocal == [item |-> None, gen |-> 0, next |-> None, result |-> "none"]
NoProduct == [at |-> "idle", item |-> None]

Inside == {w \in Workers : pc[w] # "out"}
Go(w, at, l) == pc' = [pc EXCEPT ![w] = at] /\ local' = [local EXCEPT ![w] = l]
Held(w) == local[w].item
WithResult(w, result) == [local[w] EXCEPT !.result = result]
Popped(list) == IF list = <<>> THEN None ELSE Head(list)
Rest(list) == IF list = <<>> THEN <<>> ELSE Tail(list)
Push(list, x) == <<x>> \o list

\* iree_task_executor_schedule_process on the compute process, as
\* TaskComputeSlots shows it.
Schedule ==
  /\ needs' = (slot = "placed")
  /\ slot' = IF slot = "idle" THEN "placed" ELSE slot
  /\ UNCHANGED terminal

(***************************************************************************)
(* iree_hal_task_queue_compute_process_drain                               *)
(***************************************************************************)

\* The shutdown check and the load of the revision.
Enter(w) ==
  /\ pc[w] = "out" /\ slot = "placed" /\ ~terminal
  /\ \/ /\ phase = "compute"
        /\ Go(w, "return", [NoLocal EXCEPT !.result = "completed"])
        /\ UNCHANGED revision
     \/ /\ phase # "compute" /\ Updating
        /\ Go(w, "return", NoLocal)
        /\ UNCHANGED revision
     \/ /\ phase # "compute" /\ ~Updating
        /\ Go(w, "load", NoLocal)
        /\ Sees(w)
  /\ UNCHANGED <<listVars, itemVars, slotVars, phase, producer>>

LoadCurrent(w) ==
  /\ pc[w] = "load"
  /\ IF current = None THEN Go(w, "promote", local[w])
     ELSE Go(w, "generation", [local[w] EXCEPT !.item = current])
  /\ UNCHANGED <<queueVars, itemVars, slotVars, phase, producer>>

ReadGeneration(w) ==
  /\ pc[w] = "generation"
  /\ Go(w, "register", [local[w] EXCEPT !.gen = drainers[Held(w)].gen])
  /\ UNCHANGED <<queueVars, itemVars, slotVars, phase, producer>>

\* The claim observed a recycled or a closing item.
Bails(tag, gen) == tag.gen # gen \/ tag.closed

Register(w) ==
  LET prev == drainers[Held(w)]
      bails == Bails(prev, local[w].gen)
  IN  /\ pc[w] = "register"
      /\ drainers' = [drainers EXCEPT ![Held(w)].count = @ + 1]
      /\ Go(w, IF bails THEN "leave" ELSE "recheck",
            [local[w] EXCEPT !.gen = prev.gen, !.result = IF bails THEN "active" ELSE "none"])
      /\ UNCHANGED <<queueVars, operation, tiles, error, outcome, slotVars, phase, producer>>

\* Mutant: the claim is not checked against the snapshot.
RecheckSkipped(w) == TRUE

\* compute_current is still the publication that was snapshotted.  (The code
\* loads the revision and then the pointer; a publication between the two makes
\* it bail, as one before both does.)
SamePublication(w) == Seen(w) /\ current = Held(w)

Recheck(w) ==
  /\ pc[w] = "recheck"
  /\ IF SamePublication(w) THEN Go(w, "processor", local[w])
     ELSE Go(w, "leave", WithResult(w, "active"))
  /\ Forgets(w)
  /\ UNCHANGED <<listVars, itemVars, slotVars, phase, producer>>

\* A tile of recording r is left to claim.
TileLeft(r) == tiles[r] > 0

\* Workers executing a tile of item i.
Executing(i) == {w \in Workers : pc[w] = "tile" /\ Held(w) = i}

\* iree_hal_cmd_block_processor_drain: claims a tile, reports completion when all
\* have been executed, or finds them all claimed by peers (CmdBlockProcessor).
ProcessorDrain(w) ==
  LET i == Held(w)
      r == operation[i]
  IN  /\ pc[w] = "processor"
      /\ \/ /\ TileLeft(r)
            /\ tiles' = [tiles EXCEPT ![r] = @ - 1]
            /\ Go(w, "tile", local[w])
         \/ /\ ~TileLeft(r) /\ Executing(i) = {}
            /\ Go(w, "close", WithResult(w, "work"))
            /\ UNCHANGED tiles
         \/ /\ ~TileLeft(r) /\ Executing(i) # {}
            /\ \E result \in {"active", "none"} : Go(w, "leave", WithResult(w, result))
            /\ UNCHANGED tiles
      /\ UNCHANGED <<queueVars, drainers, operation, error, outcome, slotVars, phase, producer>>

\* The end of a tile, which ends the drain call.
FinishTile(w) ==
  LET i == Held(w)
      r == operation[i]
  IN  /\ pc[w] = "tile"
      /\ error' = IF r \in Faulty THEN error \cup {r} ELSE error
      /\ Go(w, IF tiles[r] = 0 /\ Executing(i) = {w} THEN "close" ELSE "leave",
            WithResult(w, "work"))
      /\ UNCHANGED <<queueVars, drainers, operation, tiles, outcome, slotVars, phase, producer>>

\* Only the worker that sets CLOSED publishes the next recording.
Close(w) ==
  /\ pc[w] = "close"
  /\ drainers' = [drainers EXCEPT ![Held(w)].closed = TRUE]
  /\ Go(w, IF ~drainers[Held(w)].closed THEN "pop" ELSE "leave", local[w])
  /\ UNCHANGED <<queueVars, operation, tiles, error, outcome, slotVars, phase, producer>>

(***************************************************************************)
(* iree_hal_task_queue_compute_item_publish_next                           *)
(***************************************************************************)

PopNext(w) ==
  /\ pc[w] = "pop"
  /\ pending' = Rest(pending)
  /\ Go(w, "begin", [local[w] EXCEPT !.next = Popped(pending)])
  /\ UNCHANGED <<revision, current, ready, free, allocated, itemVars, slotVars, phase, producer>>

\* begin_compute_current_update spins until it takes the odd revision.
BeginUpdate(w) ==
  /\ pc[w] = "begin" /\ ~Updating
  /\ revision' = Odd
  /\ Go(w, "store", local[w])
  /\ UNCHANGED <<listVars, itemVars, slotVars, phase, producer>>

StoreNext(w) ==
  /\ pc[w] = "store"
  /\ current' = local[w].next
  /\ Go(w, "end", local[w])
  /\ UNCHANGED <<revision, ready, pending, free, allocated, itemVars, slotVars, phase, producer>>

\* The process is scheduled when a recording was published.
EndUpdate(w) ==
  /\ pc[w] = "end"
  /\ revision' = Even
  /\ Go(w, IF local[w].next # None THEN "schedule" ELSE "leave",
        [local[w] EXCEPT !.next = None])
  /\ UNCHANGED <<listVars, itemVars, slotVars, phase, producer>>

ScheduleNext(w) ==
  /\ pc[w] = "schedule"
  /\ Schedule
  /\ Go(w, "leave", local[w])
  /\ UNCHANGED <<queueVars, itemVars, phase, producer>>

(***************************************************************************)
(* iree_hal_task_queue_compute_item_leave and compute_item_release         *)
(***************************************************************************)

\* Mutant: a worker that registered too late leaves without looking.
LastOutUnlessBailing(tag, result) ==
  tag.closed /\ ~tag.claimed /\ tag.count = 1 /\ result # "active"

\* The drainer that takes the count of a closed item to zero may release it.
LastOut(tag, result) == tag.closed /\ ~tag.claimed /\ tag.count = 1

Leave(w) ==
  LET prev == drainers[Held(w)]
  IN  /\ pc[w] = "leave"
      /\ drainers' = [drainers EXCEPT ![Held(w)].count = @ - 1]
      /\ IF LastOut(prev, local[w].result) THEN Go(w, "claim", local[w])
         ELSE Go(w, "return", [NoLocal EXCEPT !.result = local[w].result])
      /\ UNCHANGED <<queueVars, operation, tiles, error, outcome, slotVars, phase, producer>>

\* The CAS from gen|CLOSED to gen|CLOSED|RELEASE_CLAIMED.
Claimable(tag, gen) == tag = [NewTag(gen) EXCEPT !.closed = TRUE]

Claim(w) ==
  LET tag == drainers[Held(w)]
      wins == Claimable(tag, local[w].gen)
  IN  /\ pc[w] = "claim"
      /\ drainers' = IF wins THEN [drainers EXCEPT ![Held(w)].claimed = TRUE] ELSE drainers
      /\ IF wins THEN Go(w, "clear", local[w])
         ELSE Go(w, "return", [NoLocal EXCEPT !.result = local[w].result])
      /\ UNCHANGED <<queueVars, operation, tiles, error, outcome, slotVars, phase, producer>>

\* Captures and clears the item's operation, context and recording.
ClearItem(w) ==
  /\ pc[w] = "clear"
  /\ operation' = [operation EXCEPT ![Held(w)] = None]
  /\ Go(w, "reset", [local[w] EXCEPT !.next = operation[Held(w)]])
  /\ UNCHANGED <<queueVars, drainers, tiles, error, outcome, slotVars, phase, producer>>

\* The CAS to the next generation waits for late CLOSED bailers to leave.
Resettable(tag, gen) == tag = [NewTag(gen) EXCEPT !.closed = TRUE, !.claimed = TRUE]

ResetItem(w) ==
  /\ pc[w] = "reset" /\ Resettable(drainers[Held(w)], local[w].gen)
  /\ drainers' = [drainers EXCEPT ![Held(w)] = NewTag(local[w].gen + 1)]
  /\ free' = Push(free, Held(w))
  /\ Go(w, "finish", [local[w] EXCEPT !.item = None, !.gen = 0])
  /\ UNCHANGED <<revision, current, ready, pending, allocated, operation, tiles, error, outcome,
                 slotVars, phase, producer>>

\* Mutant: the error in the processor context is not consumed.
ProcessorStatusLost(r) == "complete"

\* op_complete or op_fail with the processor's result, after the item is free.
ProcessorStatus(r) == IF r \in error THEN "failed" ELSE "complete"

FinishOperation(w) ==
  /\ pc[w] = "finish"
  /\ outcome' = [outcome EXCEPT ![local[w].next] = ProcessorStatus(local[w].next)]
  /\ Go(w, "return", [local[w] EXCEPT !.next = None])
  /\ UNCHANGED <<queueVars, drainers, operation, tiles, error, slotVars, phase, producer>>

(***************************************************************************)
(* iree_hal_task_queue_promote_pending_to_compute_current                  *)
(***************************************************************************)

TryBegin(w) ==
  /\ pc[w] = "promote"
  /\ IF Updating THEN Go(w, "return", NoLocal)
     ELSE Go(w, "promote_cas", NoLocal)
  /\ Sees(w)
  /\ UNCHANGED <<listVars, itemVars, slotVars, phase, producer>>

TryBeginCas(w) ==
  /\ pc[w] = "promote_cas"
  /\ revision' = IF Seen(w) THEN Odd ELSE revision
  /\ Go(w, IF Seen(w) THEN "promote_store" ELSE "return", NoLocal)
  /\ UNCHANGED <<listVars, itemVars, slotVars, phase, producer>>

PromotePending(w) ==
  /\ pc[w] = "promote_store"
  /\ IF current = None
       THEN current' = Popped(pending) /\ pending' = Rest(pending)
       ELSE UNCHANGED <<current, pending>>
  /\ Go(w, "promote_end", WithResult(w, IF current' = None THEN "none" ELSE "work"))
  /\ UNCHANGED <<revision, ready, free, allocated, itemVars, slotVars, phase, producer>>

PromoteEnd(w) ==
  /\ pc[w] = "promote_end"
  /\ revision' = Even
  /\ Go(w, IF local[w].result = "work" THEN "promote_schedule" ELSE "return", local[w])
  /\ UNCHANGED <<listVars, itemVars, slotVars, phase, producer>>

PromoteSchedule(w) ==
  /\ pc[w] = "promote_schedule"
  /\ Schedule
  /\ Go(w, "return", local[w])
  /\ UNCHANGED <<queueVars, itemVars, phase, producer>>

(***************************************************************************)
(* The worker's side of a drain, as TaskComputeSlots shows it, and         *)
(* iree_hal_task_queue_compute_process_release                             *)
(***************************************************************************)

Return(w) ==
  LET result == local[w].result
      last == Inside = {w}
      ends == terminal \/ result = "completed"
  IN  /\ pc[w] = "return"
      /\ terminal' = ends
      /\ CASE ends /\ last -> Go(w, "release", NoLocal) /\ slot' = "released" /\ UNCHANGED needs
           [] ~ends /\ last /\ result = "none" ->
                /\ Go(w, "out", NoLocal)
                /\ slot' = IF needs THEN slot ELSE "idle"
                /\ needs' = FALSE
           [] OTHER ->
                /\ Go(w, "out", NoLocal)
                /\ needs' = (needs \/ result = "work")
                /\ UNCHANGED slot
      /\ Forgets(w)
      /\ UNCHANGED <<listVars, itemVars, phase, producer>>

\* The scan of the pool destroys every operation still attached to an item.
Attached == {operation[i] : i \in {i \in allocated : operation[i] # None}}

ProcessRelease(w) ==
  /\ pc[w] = "release"
  /\ outcome' = [r \in Recordings |-> IF r \in Attached THEN "cancelled" ELSE outcome[r]]
  /\ operation' = [i \in Items |-> None]
  /\ current' = None /\ revision' = Even /\ pending' = <<>>
  /\ phase' = "done"
  /\ Go(w, "out", NoLocal)
  /\ UNCHANGED <<ready, free, allocated, drainers, tiles, error, slotVars, producer>>

(***************************************************************************)
(* iree_hal_task_queue_drain_recording, on the control process             *)
(***************************************************************************)

Produce(at, p) == producer' = [p EXCEPT !.at = at]

\* Pops an item of the free pool or grows the pool.
Acquirable == IF free # <<>> THEN {Head(free)} ELSE Items \ allocated

\* Fills an item for the next recording; when the processor context cannot be
\* allocated the item goes back and the caller destroys the operation.
Acquire(i) ==
  LET r == Head(ready) IN
  /\ producer.at = "idle" /\ phase = "running"
  /\ ready # <<>> /\ i \in Acquirable
  /\ ready' = Tail(ready)
  /\ allocated' = allocated \cup {i}
  /\ \/ /\ free' = Rest(free)
        /\ operation' = [operation EXCEPT ![i] = r]
        /\ Produce("check", [NoProduct EXCEPT !.item = i])
        /\ UNCHANGED outcome
     \/ /\ r \in Rejectable
        /\ free' = Push(Rest(free), i)
        /\ outcome' = [outcome EXCEPT ![r] = "rejected"]
        /\ UNCHANGED <<operation, producer>>
  /\ UNCHANGED <<revision, current, pending, drainers, tiles, error, slotVars, phase, pc, local>>

\* try_store_compute_current_if_empty looks before it takes the lock ...
CheckEmpty ==
  /\ producer.at = "check"
  /\ Produce(IF current # None THEN "push" ELSE "try", producer)
  /\ UNCHANGED <<queueVars, itemVars, slotVars, phase, pc, local>>

TryPublish ==
  /\ producer.at = "try"
  /\ Produce(IF Updating THEN "push" ELSE "cas", producer)
  /\ Sees(Control)
  /\ UNCHANGED <<listVars, itemVars, slotVars, phase, pc, local>>

TryPublishCas ==
  /\ producer.at = "cas"
  /\ revision' = IF Seen(Control) THEN Odd ELSE revision
  /\ Produce(IF Seen(Control) THEN "publish" ELSE "push", producer)
  /\ UNCHANGED <<listVars, itemVars, slotVars, phase, pc, local>>

\* ... and again under it.
MayPublish == current = None

PublishDirect ==
  /\ producer.at = "publish"
  /\ IF MayPublish THEN current' = producer.item /\ Produce("needs", NoProduct)
     ELSE Produce("end_busy", producer) /\ UNCHANGED current
  /\ UNCHANGED <<revision, ready, pending, free, allocated, itemVars, slotVars, phase, pc, local>>

LeaveWakeObligation ==
  /\ producer.at = "needs"
  /\ needs' = TRUE
  /\ Produce("end_stored", producer)
  /\ UNCHANGED <<queueVars, itemVars, slot, terminal, phase, pc, local>>

EndPublish ==
  /\ producer.at \in {"end_stored", "end_busy"}
  /\ revision' = Even
  /\ Produce(IF producer.at = "end_stored" THEN "schedule" ELSE "push", producer)
  /\ UNCHANGED <<listVars, itemVars, slotVars, phase, pc, local>>

\* Mutant: the completer of the current recording is trusted to promote it.
AfterPushTrusting == "idle"

\* The process is scheduled whether or not a completer is there to promote.
AfterPush == "schedule"

PushPending ==
  /\ producer.at = "push"
  /\ pending' = Push(pending, producer.item)
  /\ producer' = [NoProduct EXCEPT !.at = AfterPush]
  /\ UNCHANGED <<revision, current, ready, free, allocated, itemVars, slotVars, phase, pc, local>>

ScheduleRecording ==
  /\ producer.at = "schedule"
  /\ Schedule
  /\ producer' = NoProduct
  /\ UNCHANGED <<queueVars, itemVars, phase, pc, local>>

\* The control process was released: no operation is left and none can come
\* (TaskQueueOps).  iree_hal_task_queue_process_release.
OperationsEnded == \A r \in Recordings : outcome[r] # None

BeginComputeShutdown ==
  /\ phase = "running" /\ producer.at = "idle"
  /\ OperationsEnded
  /\ phase' = "compute"
  /\ Schedule
  /\ UNCHANGED <<queueVars, itemVars, pc, local, producer>>

Init ==
  /\ revision = Even /\ current = None /\ pending = <<>> /\ free = Pooled
  /\ ready = Ready /\ allocated = ToSet(Pooled)
  /\ drainers = [i \in Items |-> NewTag(0)]
  /\ operation = [i \in Items |-> None]
  /\ tiles = Tiles /\ error = {}
  /\ outcome = [r \in Recordings |-> None]
  /\ phase = "running" /\ slot = "idle" /\ needs = FALSE /\ terminal = FALSE
  /\ pc = [w \in Workers |-> "out"]
  /\ local = [w \in Workers |-> NoLocal]
  /\ producer = NoProduct

Claiming(w) ==
  \/ ReadGeneration(w) \/ Register(w) \/ Recheck(w) \/ ProcessorDrain(w) \/ FinishTile(w)
  \/ Close(w)
Publishing(w) ==
  PopNext(w) \/ BeginUpdate(w) \/ StoreNext(w) \/ EndUpdate(w) \/ ScheduleNext(w)
Releasing(w) ==
  Leave(w) \/ Claim(w) \/ ClearItem(w) \/ ResetItem(w) \/ FinishOperation(w)
Promoting(w) ==
  TryBegin(w) \/ TryBeginCas(w) \/ PromotePending(w) \/ PromoteEnd(w) \/ PromoteSchedule(w)

\* The steps of a worker that is draining.
DrainStep(w) ==
  \/ LoadCurrent(w) \/ Claiming(w) \/ Publishing(w) \/ Releasing(w) \/ Promoting(w)
  \/ Return(w) \/ ProcessRelease(w)

ProducerStep ==
  \/ \E i \in Items : Acquire(i)
  \/ CheckEmpty \/ TryPublish \/ TryPublishCas \/ PublishDirect \/ LeaveWakeObligation
  \/ EndPublish \/ PushPending \/ ScheduleRecording

Next ==
  \/ \E w \in Workers : Enter(w) \/ DrainStep(w)
  \/ ProducerStep \/ BeginComputeShutdown

Spec == Init /\ [][Next]_vars

\* Threads that are in the code run on; a placed process is entered by some
\* worker; the control process issues what is ready.
FairSpec ==
  /\ Spec
  /\ \A w \in Workers : WF_vars(DrainStep(w))
  /\ WF_vars(\E w \in Workers : Enter(w))
  /\ WF_vars(ProducerStep) /\ WF_vars(BeginComputeShutdown)

(***************************************************************************)
(* Properties                                                              *)
(***************************************************************************)

Pcs ==
  {"out", "load", "generation", "register", "recheck", "processor", "tile", "close", "pop",
   "begin", "store", "end", "schedule", "leave", "claim", "clear", "reset", "finish",
   "promote", "promote_cas", "promote_store", "promote_end", "promote_schedule", "return",
   "release"}
ProducerPcs ==
  {"idle", "check", "try", "cas", "publish", "needs", "end_stored", "end_busy", "push",
   "schedule"}

TypeOK ==
  /\ revision \in [updating : BOOLEAN, seen : SUBSET (Workers \cup {Control})]
  /\ current \in Items \cup {None}
  /\ pending \in Seq(Items) /\ free \in Seq(Items)
  /\ ready \in Seq(Recordings) /\ allocated \subseteq Items
  /\ drainers \in [Items -> Tag]
  /\ operation \in [Items -> Recordings \cup {None}]
  /\ tiles \in [Recordings -> Nat] /\ error \subseteq Recordings
  /\ outcome \in [Recordings -> Outcomes \cup {None}]
  /\ phase \in {"running", "compute", "done"}
  /\ slot \in {"idle", "placed", "released"} /\ needs \in BOOLEAN /\ terminal \in BOOLEAN
  /\ local \in [Workers -> [item : Items \cup {None}, gen : Nat,
                            next : Items \cup Recordings \cup {None},
                            result : {"none", "active", "work", "completed"}]]
  /\ pc \in [Workers -> Pcs]
  /\ producer \in [at : ProducerPcs, item : Items \cup {None}]

\* The pcs at which a worker has added itself to the count of its item.
Registered == {"recheck", "processor", "tile", "close", "pop", "begin", "store", "end",
               "schedule", "leave"}
ClaimsOn(i) == {w \in Workers : pc[w] \in Registered /\ Held(w) = i}

\* The drainers word counts exactly the workers with a claim, and the generation
\* they registered with is still the item's: the assertion of
\* compute_item_leave, and the count never goes below zero into the flags.
ClaimsAreCounted ==
  \A i \in Items :
    /\ drainers[i].count = Cardinality(ClaimsOn(i))
    /\ \A w \in ClaimsOn(i) : drainers[i].gen = local[w].gen

\* A worker inside the block processor executes the recording it registered for:
\* the item still carries it, nobody has begun to release it, and it is neither in
\* the free pool nor waiting in the pending list.
DrainsPublishedItem ==
  \A w \in Workers : pc[w] \in {"processor", "tile", "close"} =>
    /\ operation[Held(w)] # None
    /\ ~drainers[Held(w)].claimed
    /\ Held(w) \notin ToSet(free) \cup ToSet(pending)

\* An item has one owner: the free pool, the producer filling it, the pending
\* list, compute_current, a worker about to publish it, or, once it is closed, the
\* workers that leave it.  An item held twice would be filled while it is drained.
Owners(i) ==
  Cardinality({k \in 1..Len(free) : free[k] = i})
  + Cardinality({k \in 1..Len(pending) : pending[k] = i})
  + Cardinality({w \in Workers : local[w].next = i /\ pc[w] \in {"begin", "store"}})
  + (IF producer.item = i THEN 1 ELSE 0)
  + (IF current = i /\ ~drainers[i].closed THEN 1 ELSE 0)
  + (IF drainers[i].closed THEN 1 ELSE 0)
OneOwner ==
  phase # "done" => \A i \in Items : Owners(i) = IF i \in allocated THEN 1 ELSE 0

\* The items of the pool are reused safely: claims are counted, an item has one
\* owner, and a worker that executes tiles executes those of its recording.
ItemsAreOwned == TypeOK /\ ClaimsAreCounted /\ DrainsPublishedItem /\ OneOwner

\* Nobody is about to drain, to publish or to schedule: the compute process is
\* IDLE and every thread that could wake it has returned.  Then no recording is
\* left behind, published or pending.  And shutdown finds a clean pool: the
\* process is released only after every recording has gone through the normal
\* release path, so no operation is cancelled and no item is unfinished.
NoRecordingIsStranded ==
  /\ slot = "idle" /\ Inside = {} /\ producer.at = "idle" =>
       current = None /\ pending = <<>>
  /\ slot = "released" => Attached \subseteq {None} /\ pending = <<>> /\ current = None

\* An operation ends as its processor did, after all its tiles have been
\* executed; an error that one worker recorded reaches the operation although
\* another worker releases the item.
OutcomeIsTrue ==
  \A r \in Recordings :
    /\ outcome[r] = "complete" => tiles[r] = 0 /\ r \notin error
    /\ outcome[r] = "failed" => r \in error

\* Every recording that is issued ends, and the compute process is released.
EveryRecordingEnds ==
  <>[](slot = "released" /\ phase = "done" /\ \A r \in Recordings : outcome[r] # None)
=============================================================================
