------------------------- MODULE CmdBlockProcessor -------------------------
(***************************************************************************)
(* The multi-worker drain of the block processor                           *)
(* (hal/driver/task/command/block_processor.c): the workers of one         *)
(* recording claim tiles from the commands of the active region, count     *)
(* what they executed down to zero, and the worker that reaches zero       *)
(* publishes the next region, the next block or the end of the recording.  *)
(*                                                                         *)
(* A recording is a sequence of blocks joined by BRANCH and ended by       *)
(* RETURN; a block is a sequence of regions; a region is a sequence of     *)
(* commands with no barrier between them.  A command runs `tiles' tiles,   *)
(* or, when it is indirect, as many as the parameter buffer `param' holds  *)
(* at the moment it is read; its kernel may store `value' into the buffer  *)
(* `store' and may fail if `fails'; a `starved' dispatch needs more local   *)
(* memory than the workers have.                                           *)
(*                                                                         *)
(* Atomic accesses are separate steps and are sequentially consistent.     *)
(* The slot of block b is slot[b]: context_allocate makes one per block,   *)
(* and the chains block_builder.c builds visit every block once, so the    *)
(* "state storage exhausted" and "chain ends with NULL" errors cannot      *)
(* happen.  Wake budgets, spin deadlines, profiling and tracing are left   *)
(* out; the warm wait itself is modelled in TaskComputeSlots.              *)
(***************************************************************************)
EXTENDS Integers, Sequences, FiniteSets, FiniteSetsExt

CONSTANTS Workers,        \* the workers draining the recording
          Recordings,     \* the recordings to execute, one of them per behaviour
          Params,         \* parameter buffers of indirect commands
          InitialParams,  \* their contents when the recording is issued
          NoParam,        \* not a parameter buffer
          MaxDispatch,    \* max_region_dispatch_count of the recording
          TileCapacity,   \* UINT32_MAX: the most tiles a region can count
          Issuer,         \* the thread that allocates the context
          NoError         \* error_status == 0

ASSUME BlockAssumption ==
    /\ TileCapacity \in Nat \ {0}
    /\ MaxDispatch \in Nat \ {0}
    /\ NoParam \notin Params
    /\ Issuer \notin Workers /\ NoError \notin Workers \cup {Issuer}
    /\ InitialParams \in [Params -> Nat]

VARIABLES rec,        \* the recording (immutable)
          completed,  \* context->completed
          error,      \* context->error_status: whose error was recorded
          seq,        \* context->block_sequence
          block,      \* context->current_block
          current,    \* context->current_state, as the index of its slot
          slot,       \* the block states: region_state, remaining_tiles, tile_indices
          nextEpoch,  \* context->next_epoch (a plain field)
          retention,  \* the retention epoch of the compute process
          mem,        \* contents of the parameter buffers
          pc,         \* where each worker is
          loc,        \* each worker's locals
          ran         \* how often each tile has been executed (history)

vars == <<rec, completed, error, seq, block, current, slot, nextEpoch,
          retention, mem, pc, loc, ran>>

(***************************************************************************)
(* The recording.                                                          *)
(***************************************************************************)
\* Arithmetic on uint32_t.
Wrap(n) == n % (TileCapacity + 1)

\* iree_hal_cmd_dispatch_read_workgroup_count, and its fill and copy
\* counterparts: the tiles of a command when the buffers hold m.
ReadCount(c, m) == IF c.param = NoParam THEN c.tiles ELSE m[c.param]

\* iree_hal_cmd_region_tile_count.
RegionTileCount(region, m) ==
    LET Count(d) == ReadCount(region[d], m)
    IN  MapThenSumSet(Count, 1 .. Len(region))

\* What a tile of command c does to the parameter buffers.
Effect(c, m) == IF c.store = NoParam THEN m ELSE [m EXCEPT ![c.store] = c.value]

\* Mutant: the region after a completed one is passed over.
FindActiveRegionSkips(b, start, m) ==
    Min({r \in start .. Len(rec[b]) :
             RegionTileCount(rec[b][r], m) # 0 /\ (start = 1 \/ r > start)}
            \cup {Len(rec[b]) + 1})

\* iree_hal_cmd_block_processor_find_active_region: the first region at or
\* after `start' with tiles; one past the last if there is none.
FindActiveRegion(b, start, m) ==
    Min({r \in start .. Len(rec[b]) : RegionTileCount(rec[b][r], m) # 0}
            \cup {Len(rec[b]) + 1})

\* The region found, and whether its tiles fit the counter.
Oversized(b, r, m) ==
    r <= Len(rec[b]) /\ RegionTileCount(rec[b][r], m) > TileCapacity

Tagged(e, n) == [epoch |-> e, n |-> n]

NoSlot == [region |-> Tagged(0, 0), remaining |-> Tagged(0, 0),
           tile   |-> [d \in 1 .. MaxDispatch |-> Tagged(0, 0)]]

\* iree_hal_cmd_block_processor_init_block: a fresh slot for block b whose
\* first active region has epoch e.  A region too large to count ends it before
\* remaining_tiles and region_state are written.
InitBlock(b, e, m) ==
    LET r == FindActiveRegion(b, 1, m)
        reset == [NoSlot EXCEPT !.tile = [d \in 1 .. MaxDispatch |-> Tagged(e, 0)]]
    IN  IF Oversized(b, r, m) THEN reset
        ELSE [reset EXCEPT
                 !.region    = Tagged(e, r),
                 !.remaining = Tagged(e, IF r > Len(rec[b]) THEN 0
                                         ELSE RegionTileCount(rec[b][r], m))]

\* The first block at or after b that has work when the buffers hold m; one
\* past the last block if the chain runs into RETURN.
FirstBlock(b, m) ==
    Min({k \in b .. Len(rec) : FindActiveRegion(k, 1, m) <= Len(rec[k])}
            \cup {Len(rec) + 1})

Tiles == {<<b, r, d, t>> : b \in 1 .. Len(rec),
                           r \in 1 .. Max({Len(rec[b]) : b \in 1 .. Len(rec)}),
                           d \in 1 .. MaxDispatch, t \in 0 .. TileCapacity}

Idle == [seq |-> 0, block |-> 0, slot |-> 0, epoch |-> 0, region |-> 0,
         cmd |-> 0, count |-> 0, lo |-> 0, hi |-> 0, part |-> 0, tiles |-> 0,
         keep |-> 0, next |-> 0, left |-> 0]

\* context_allocate and setup_first_block, before any worker drains.
Init ==
    /\ rec \in Recordings
    /\ mem = InitialParams
    /\ LET b == FirstBlock(1, mem)
           empty == b > Len(rec)
           fails == ~empty /\ Oversized(b, FindActiveRegion(b, 1, mem), mem)
       IN  /\ error = IF fails THEN Issuer ELSE NoError
           /\ completed = (empty \/ fails)
           /\ seq = IF completed THEN 0 ELSE 1
           /\ block = IF completed THEN 0 ELSE b
           /\ current = IF completed THEN 0 ELSE b
           /\ slot = [k \in 1 .. Len(rec) |->
                         IF k <= b THEN InitBlock(k, k, mem) ELSE NoSlot]
           /\ nextEpoch = Min({b, Len(rec)}) + 1
    /\ retention = 0
    /\ pc = [w \in Workers |-> "drain"]
    /\ loc = [w \in Workers |-> Idle]
    /\ ran = [t \in Tiles |-> 0]

(***************************************************************************)
(* iree_hal_cmd_block_processor_drain_multi_worker: sampling the state.    *)
(***************************************************************************)
Context == <<rec, completed, error, seq, block, current, slot, nextEpoch,
             retention, mem, ran>>

Goto(w, label) == pc' = [pc EXCEPT ![w] = label]
Set(w, l) == loc' = [loc EXCEPT ![w] = l]

\* Every exit of drain that executed nothing: the caller samples the retention
\* epoch next.  A drain that executed tiles is simply repeated.
NoWork == "nowork"

\* The acquire load of completed that drain starts with.
DrainEnter(w) ==
    /\ pc[w] = "drain"
    /\ Goto(w, IF completed THEN "out" ELSE "sequence")
    /\ Set(w, Idle)
    /\ UNCHANGED Context

\* The first load of block_sequence; an even value ends the drain.
LoadSequence(w) ==
    /\ pc[w] = "sequence"
    /\ Set(w, [loc[w] EXCEPT !.seq = seq])
    /\ Goto(w, IF seq % 2 = 0 THEN NoWork ELSE "block")
    /\ UNCHANGED Context

LoadBlock(w) ==
    /\ pc[w] = "block"
    /\ Set(w, [loc[w] EXCEPT !.block = block])
    /\ Goto(w, "slot")
    /\ UNCHANGED Context

LoadSlot(w) ==
    /\ pc[w] = "slot"
    /\ Set(w, [loc[w] EXCEPT !.slot = current])
    /\ Goto(w, "recheck")
    /\ UNCHANGED Context

\* The seqlock recheck: the sampled pointers belong to one publication.
SequenceHeld(s) == seq = s

Recheck(w) ==
    /\ pc[w] = "recheck"
    /\ Goto(w, IF SequenceHeld(loc[w].seq) THEN "region" ELSE NoWork)
    /\ UNCHANGED <<Context, loc>>

\* The acquire load of region_state: epoch and index as one value.
LoadRegion(w) ==
    /\ pc[w] = "region"
    /\ LET s == slot[loc[w].slot].region
       IN  /\ Set(w, [loc[w] EXCEPT !.epoch = s.epoch, !.region = s.n])
           /\ Goto(w, IF s.n <= Len(rec[loc[w].block]) THEN "validate"
                      ELSE IF completed THEN "out" ELSE NoWork)
    /\ UNCHANGED Context

\* The second recheck of block_sequence.
Validate(w) ==
    /\ pc[w] = "validate"
    /\ Goto(w, IF SequenceHeld(loc[w].seq) THEN "errors" ELSE NoWork)
    /\ UNCHANGED <<Context, loc>>

\* The check for errors before starting work: out_result->completed.
CheckErrors(w) ==
    /\ pc[w] = "errors"
    /\ IF error # NoError
       THEN Goto(w, "out") /\ UNCHANGED loc
       ELSE Goto(w, "command") /\ Set(w, [loc[w] EXCEPT !.cmd = 1])
    /\ UNCHANGED Context

(***************************************************************************)
(* process_region: the commands of the region, one after the other.        *)
(***************************************************************************)
Region(w) == rec[loc[w].block][loc[w].region]
Command(w) == Region(w)[loc[w].cmd]

\* tile_count of a worker: the product of the counts it reads is not checked
\* again, the region's was when it was published.
TileCount(w) == Wrap(ReadCount(Command(w), mem))

Starved(w) == Command(w).starved /\ TileCount(w) > 0

\* Mutant: a worker without tiles takes part in the election.
LeaveAlways(l) == "elect"

\* The end of process_region: workers with tiles go on to the election.
Leave(l) == IF l.tiles > 0 THEN "elect" ELSE NoWork

\* Mutant: the tiles of the commands before are forgotten.
StartCommandForgets(l, n) == [l EXCEPT !.count = n, !.part = 0, !.tiles = 0]

\* A command starts with its tile count and nothing executed.
StartCommand(l, n) == [l EXCEPT !.count = n, !.part = 0]

\* Taking the next command: no more of them, or an error was reported, ends
\* process_region; otherwise the tile count of the command is read.
NextCommand(w) ==
    /\ pc[w] = "command"
    /\ \/ /\ loc[w].cmd > Len(Region(w)) \/ error # NoError
          /\ Goto(w, Leave(loc[w]))
          /\ UNCHANGED loc
       \/ /\ loc[w].cmd <= Len(Region(w))
          /\ error = NoError
          /\ ~Starved(w)
          /\ Set(w, StartCommand(loc[w], TileCount(w)))
          /\ Goto(w, "claim")
    /\ UNCHANGED Context

\* A dispatch that needs more local memory than the worker has fails before it
\* claims anything; all workers are taken to have the same amount.
FailCommand(w) ==
    /\ pc[w] = "command"
    /\ loc[w].cmd <= Len(Region(w))
    /\ error = NoError
    /\ Starved(w)
    /\ Goto(w, "report")
    /\ UNCHANGED <<Context, loc>>

\* Mutant: the epoch of the counter is not compared.
ClaimableUntagged(t, e, count) == t.n < count

\* The conditions of the claim loop: the counter still belongs to the region
\* the worker sampled and tiles are left.
Claimable(t, e, count) == t.epoch = e /\ t.n < count

\* The counter after a reservation of k tiles: the sum is a uint32_t and is
\* compared with the count after it may have wrapped around.
Reserve(t, k, count) ==
    LET n == Wrap(t.n + k) IN IF n > count THEN count ELSE n

\* The compare-exchange on tile_index, or the end of the command.  A counter
\* that wrapped around leaves the worker with an empty range of tiles.
Claim(w) ==
    /\ pc[w] = "claim"
    /\ LET l == loc[w]
           t == slot[l.slot].tile[l.cmd]
       IN  \/ /\ Claimable(t, l.epoch, l.count)
              /\ LET n == Reserve(t, Command(w).chunk, l.count)
                 IN  /\ slot' = [slot EXCEPT ![l.slot].tile[l.cmd] = Tagged(l.epoch, n)]
                     /\ Set(w, [l EXCEPT !.lo = t.n, !.hi = n])
                     /\ Goto(w, IF t.n < n THEN "run" ELSE "claim")
           \/ /\ ~Claimable(t, l.epoch, l.count)
              /\ Set(w, [l EXCEPT !.cmd = @ + 1, !.tiles = Wrap(@ + l.part)])
              /\ Goto(w, "command")
              /\ UNCHANGED slot
    /\ UNCHANGED <<rec, completed, error, seq, block, current, nextEpoch,
                   retention, mem, ran>>

\* The kernel of one tile.
RunTile(w) ==
    /\ pc[w] = "run"
    /\ LET l == loc[w]
           id == <<l.block, l.region, l.cmd, l.lo>>
       IN  /\ ran' = [ran EXCEPT ![id] = @ + 1]
           /\ mem' = Effect(Command(w), mem)
           /\ Set(w, [l EXCEPT !.lo = @ + 1, !.part = Wrap(@ + 1)])
           /\ Goto(w, IF l.lo + 1 < l.hi THEN "run" ELSE "claim")
    /\ UNCHANGED <<rec, completed, error, seq, block, current, slot, nextEpoch, retention>>

\* A failing kernel: process_region returns the tiles of the commands before it.
FailTile(w) ==
    /\ pc[w] = "run"
    /\ Command(w).fails
    /\ Goto(w, "report")
    /\ UNCHANGED <<Context, loc>>

(***************************************************************************)
(* report_error and mark_completed.                                        *)
(***************************************************************************)
\* The compare-exchange that keeps the first error.
ReportError(w) ==
    /\ pc[w] = "report"
    /\ error' = IF error = NoError THEN w ELSE error
    /\ Goto(w, "finish")
    /\ UNCHANGED <<rec, completed, seq, block, current, slot, nextEpoch,
                   retention, mem, loc, ran>>

\* mark_completed's store, at the end of the recording or after an error.
MarkCompleted(w) ==
    /\ pc[w] = "finish"
    /\ completed' = TRUE
    /\ Goto(w, "release")
    /\ UNCHANGED <<rec, error, seq, block, current, slot, nextEpoch,
                   retention, mem, loc, ran>>

\* Where a worker continues after advancing the retention epoch: a completer
\* returns, a worker whose kernel failed goes on to the election.
AfterRelease(l) == IF l.next # 0 THEN "drain" ELSE Leave(l)

\* advance_retention_epoch: the last step of every transition.
AdvanceRetention(w) ==
    /\ pc[w] = "release"
    /\ retention' = retention + 1
    /\ Goto(w, AfterRelease(loc[w]))
    /\ UNCHANGED <<rec, completed, error, seq, block, current, slot, nextEpoch,
                   mem, loc, ran>>

(***************************************************************************)
(* The election and the transition to the next region.                     *)
(***************************************************************************)
\* The compare-exchange on remaining_tiles.
Elect(w) ==
    /\ pc[w] = "elect"
    /\ LET l == loc[w]
           r == slot[l.slot].remaining
           n == Wrap(r.n - l.tiles)
       IN  \/ /\ r.epoch = l.epoch
              /\ slot' = [slot EXCEPT ![l.slot].remaining = Tagged(l.epoch, n)]
              /\ Goto(w, IF n = 0 THEN "complete" ELSE "drain")
           \/ /\ r.epoch # l.epoch
              /\ Goto(w, "drain")
              /\ UNCHANGED slot
    /\ UNCHANGED <<rec, completed, error, seq, block, current, nextEpoch,
                   retention, mem, loc, ran>>

\* handle_region_completion finds what comes next: a region of this block, a
\* region too large to count, RETURN, or BRANCH, which turns the sequence even.
Complete(w) ==
    /\ pc[w] = "complete"
    /\ LET l == loc[w]
           r == FindActiveRegion(l.block, l.region + 1, mem)
       IN  /\ Set(w, [l EXCEPT !.next = r, !.left =
                               IF r > Len(rec[l.block]) THEN 0
                               ELSE RegionTileCount(rec[l.block][r], mem)])
           /\ \/ /\ Oversized(l.block, r, mem)
                 /\ Goto(w, "report")
                 /\ UNCHANGED <<seq, nextEpoch>>
              \/ /\ r <= Len(rec[l.block])
                 /\ ~Oversized(l.block, r, mem)
                 /\ nextEpoch' = nextEpoch + 1
                 /\ Goto(w, "reset")
                 /\ UNCHANGED seq
              \/ /\ r > Len(rec[l.block])
                 /\ l.block = Len(rec)
                 /\ Goto(w, "finish")
                 /\ UNCHANGED <<seq, nextEpoch>>
              \/ /\ r > Len(rec[l.block])
                 /\ l.block < Len(rec)
                 /\ seq' = seq + 1
                 /\ Goto(w, "branch")
                 /\ UNCHANGED nextEpoch
    /\ UNCHANGED <<rec, completed, error, block, current, slot, retention, mem, ran>>

\* init_region: the tile counters, then the remaining tiles, then region_state.
ResetTiles(w) ==
    /\ pc[w] = "reset"
    /\ slot' = [slot EXCEPT ![loc[w].slot].tile =
                    [d \in 1 .. MaxDispatch |-> Tagged(nextEpoch - 1, 0)]]
    /\ Goto(w, "remaining")
    /\ UNCHANGED <<rec, completed, error, seq, block, current, nextEpoch,
                   retention, mem, loc, ran>>

ResetRemaining(w) ==
    /\ pc[w] = "remaining"
    /\ LET l == loc[w]
       IN  slot' = [slot EXCEPT ![l.slot].remaining =
                        Tagged(nextEpoch - 1, l.left)]
    /\ Goto(w, "publish")
    /\ UNCHANGED <<rec, completed, error, seq, block, current, nextEpoch,
                   retention, mem, loc, ran>>

PublishRegion(w) ==
    /\ pc[w] = "publish"
    /\ slot' = [slot EXCEPT ![loc[w].slot].region = Tagged(nextEpoch - 1, loc[w].next)]
    /\ Goto(w, "release")
    /\ UNCHANGED <<rec, completed, error, seq, block, current, nextEpoch,
                   retention, mem, loc, ran>>

(***************************************************************************)
(* BRANCH: the next block with work is initialised in its own slot.        *)
(***************************************************************************)
\* One turn of the loop over the chain: init_block on block b, then its first
\* active region decides between an error, the publication, the end of the
\* recording and the next turn.
Branch(w) ==
    /\ pc[w] = "branch"
    /\ LET b == loc[w].block + 1
           r == FindActiveRegion(b, 1, mem)
       IN  /\ nextEpoch' = nextEpoch + 1
           /\ slot' = [slot EXCEPT ![b] = InitBlock(b, nextEpoch, mem)]
           /\ Set(w, [loc[w] EXCEPT !.block = b])
           /\ Goto(w, IF Oversized(b, r, mem) THEN "report"
                      ELSE IF r <= Len(rec[b]) THEN "install"
                      ELSE IF b = Len(rec) THEN "finish" ELSE "branch")
    /\ UNCHANGED <<rec, completed, error, seq, block, current, retention, mem, ran>>

InstallBlock(w) ==
    /\ pc[w] = "install"
    /\ block' = loc[w].block
    /\ Goto(w, "state")
    /\ UNCHANGED <<rec, completed, error, seq, current, slot, nextEpoch,
                   retention, mem, loc, ran>>

InstallSlot(w) ==
    /\ pc[w] = "state"
    /\ current' = loc[w].block
    /\ Goto(w, "ready")
    /\ UNCHANGED <<rec, completed, error, seq, block, slot, nextEpoch,
                   retention, mem, loc, ran>>

\* The increment that makes block_sequence odd again.
Ready(w) ==
    /\ pc[w] = "ready"
    /\ seq' = seq + 1
    /\ Goto(w, "release")
    /\ UNCHANGED <<rec, completed, error, block, current, slot, nextEpoch,
                   retention, mem, loc, ran>>

(***************************************************************************)
(* The caller's side of a drain without work                               *)
(* (iree_hal_task_queue_compute_process_drain).                            *)
(***************************************************************************)
SampleRetention(w) ==
    /\ pc[w] = NoWork
    /\ Set(w, [loc[w] EXCEPT !.keep = retention])
    /\ Goto(w, "advanced")
    /\ UNCHANGED Context

\* Mutant: a region published within the block is not noticed.
DidAdvanceBlocks(l) == completed \/ (l.seq # 0 /\ seq # l.seq)

\* iree_hal_cmd_block_processor_context_did_advance.
DidAdvance(l) ==
    \/ completed
    \/ l.seq # 0 /\ seq # l.seq
    \/ l.epoch # 0 /\ slot[current].region.epoch # l.epoch

\* The worker drains again if the processor advanced, and may do so as the
\* elected drainer if it did not; otherwise it waits warm.
Validated(w) ==
    /\ pc[w] = "advanced"
    /\ \/ Goto(w, "drain")
       \/ ~DidAdvance(loc[w]) /\ Goto(w, "warm")
    /\ UNCHANGED <<Context, loc>>

\* A warm waiter leaves when the retention epoch moves.
WarmWake(w) ==
    /\ pc[w] = "warm"
    /\ retention # loc[w].keep
    /\ Goto(w, "drain")
    /\ UNCHANGED <<Context, loc>>

Step(w) ==
    \/ DrainEnter(w) \/ LoadSequence(w) \/ LoadBlock(w) \/ LoadSlot(w)
    \/ Recheck(w) \/ LoadRegion(w) \/ Validate(w) \/ CheckErrors(w)
    \/ NextCommand(w) \/ Claim(w) \/ RunTile(w) \/ FailTile(w) \/ FailCommand(w)
    \/ ReportError(w) \/ MarkCompleted(w) \/ AdvanceRetention(w)
    \/ Elect(w) \/ Complete(w) \/ ResetTiles(w) \/ ResetRemaining(w)
    \/ PublishRegion(w) \/ Branch(w) \/ InstallBlock(w) \/ InstallSlot(w)
    \/ Ready(w) \/ SampleRetention(w) \/ Validated(w) \/ WarmWake(w)

Next == \E w \in Workers : Step(w)

Spec == Init /\ [][Next]_vars

\* A worker thread that can take a step takes one.
FairSpec == Spec /\ \A w \in Workers : WF_vars(Step(w))

(***************************************************************************)
(* Properties.                                                             *)
(***************************************************************************)
Labels == {"drain", "sequence", "block", "slot", "recheck", "region", "validate",
           "errors", "command", "claim", "run", "report", "finish", "release",
           "elect", "complete", "reset", "remaining", "publish", "branch",
           "install", "state", "ready", NoWork, "advanced", "warm", "out"}

TaggedCount == [epoch : Nat, n : 0 .. TileCapacity]

\* The type invariant; the tile counters and the counts are uint32_t.
TypeOK ==
    /\ rec \in Recordings
    /\ completed \in BOOLEAN
    /\ error \in Workers \cup {NoError, Issuer}
    /\ seq \in Nat /\ nextEpoch \in Nat /\ retention \in Nat
    /\ block \in 0 .. Len(rec) /\ current \in 0 .. Len(rec)
    /\ slot \in [1 .. Len(rec) ->
                    [region : [epoch : Nat, n : Nat], remaining : TaggedCount,
                     tile : [1 .. MaxDispatch -> TaggedCount]]]
    /\ mem \in [Params -> Nat]
    /\ pc \in [Workers -> Labels]
    /\ DOMAIN loc = Workers

\* The regions of the recording in program order, and the parameter buffers as
\* they are before a region when the commands run one after the other, the way
\* execute_single_worker interprets the recording.
Positions == UNION {{<<b, r>> : r \in 1 .. Len(rec[b])} : b \in 1 .. Len(rec)}

AfterRegion(region, m) ==
    LET Stores(x) == {d \in 1 .. Len(region) :
                          region[d].store = x /\ ReadCount(region[d], m) > 0}
    IN  [x \in Params |-> IF Stores(x) = {} THEN m[x] ELSE region[Max(Stores(x))].value]

SequentialTiles ==
    LET Before(p) == IF p[2] > 1 THEN <<p[1], p[2] - 1>>
                     ELSE <<p[1] - 1, Len(rec[p[1] - 1])>>
        memory[p \in Positions] ==
            IF p = <<1, 1>> THEN InitialParams
            ELSE LET q == Before(p) IN AfterRegion(rec[q[1]][q[2]], memory[q])
    IN  {t \in Tiles : /\ <<t[1], t[2]>> \in Positions
                       /\ t[3] <= Len(rec[t[1]][t[2]])
                       /\ t[4] < ReadCount(rec[t[1]][t[2]][t[3]], memory[<<t[1], t[2]>>])}

\* The workers together execute the tiles the single-worker interpreter
\* executes: never a tile it would not, never one twice, and, when the recording
\* completes without an error, every one of them.  This is claimed for commands
\* whose last reservation ends at or below UINT32_MAX: beyond it the counter
\* wraps around (Reserve), tiles repeat and the last ones never run.
ExecutesEachTileOnce ==
    LET expected == SequentialTiles
    IN  /\ \A t \in Tiles : ran[t] <= IF t \in expected THEN 1 ELSE 0
        /\ completed /\ error = NoError => \A t \in expected : ran[t] = 1

Transition == {"complete", "reset", "remaining", "publish", "branch",
               "install", "state", "ready"}

\* "Epoch tags so stale workers from an earlier region fail their next claim"
\* (block_processor.h): a worker that is about to execute a tile claimed it from
\* the region that is active now and that nobody has completed, so tiles of two
\* regions never overlap and the barrier between them holds.
ClaimIsCurrent ==
    \A w \in Workers :
        pc[w] = "run" => /\ block = loc[w].block /\ current = loc[w].slot
                         /\ slot[current].region = Tagged(loc[w].epoch, loc[w].region)
                         /\ \A u \in Workers : pc[u] \notin Transition

\* IREE_ASSERT(count >= my_tiles) in the election: the tiles a worker reports
\* are among those the region still misses.
ElectionAssertHolds ==
    \A w \in Workers :
        LET r == slot[loc[w].slot].remaining
        IN  pc[w] = "elect" /\ r.epoch = loc[w].epoch => r.n >= loc[w].tiles

\* At most one worker is the completer: next_epoch is a plain field and the
\* slot of the next block is written without synchronisation.
OneCompleter == Cardinality({w \in Workers : pc[w] \in Transition}) <= 1

\* A failed command never lets the recording finish as a success: while its
\* error is on the way to error_status nobody reaches the end of the recording.
FailureIsNotLost ==
    (\E w \in Workers : pc[w] = "report") => ~(completed /\ error = NoError)

\* A region, and with it the recording, is completed by one worker, that has
\* all its tiles accounted for, and a failure is known before the end is.
CompletionIsSound == TypeOK /\ OneCompleter /\ ElectionAssertHolds /\ FailureIsNotLost

\* No transition is half done: its retention epoch is still to be advanced.
Settled == \A u \in Workers : pc[u] \notin Transition \cup {"report", "finish", "release"}

\* A worker waits warm only for something that will come: with no transition in
\* progress, a waiter whose epoch is current has missed neither the end of the
\* recording nor a tile that is still unclaimed.
WarmWaiterMissesNothing ==
    \A w \in Workers :
        pc[w] = "warm" /\ loc[w].keep = retention /\ Settled =>
            /\ ~completed
            /\ LET region == rec[block][slot[current].region.n]
               IN  \A d \in 1 .. Len(region) :
                       slot[current].tile[d].n >= ReadCount(region[d], mem)

\* Every worker eventually learns that the recording completed, whatever waits
\* warm, fails or stalls in between.  As for ExecutesEachTileOnce, no reservation
\* of the recording ends beyond UINT32_MAX: with the automatic reservation of
\* eight tiles the counter would wrap to zero and the claims would never end.
RecordingCompletes == <>(\A w \in Workers : pc[w] = "out")
=============================================================================
