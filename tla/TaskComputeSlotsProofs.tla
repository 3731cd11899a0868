----------------------- MODULE TaskComputeSlotsProofs -----------------------
(***************************************************************************)
(* TLAPS proofs about module TaskComputeSlots, for any finite set of       *)
(* threads and any clients: any number of slots, processes and workers.    *)
(***************************************************************************)
EXTENDS TaskComputeSlots, FiniteSetTheorems, TLAPS

----------------------------------------------------------------------------
(* The inductive invariant.                                                *)

\* The classes of workers by what they hold.  Registered: counted in
\* active_drainers.  Draining: registered, with the slot's process.  Owning: holds
\* the sentinel of a slot whose process it has not cleared.  Departed: has taken
\* the process out of the slot and still has its placement claim.  Leaving: may
\* still put the process to sleep.  Warming: counted in warm_retainers.
Draining(w) == pc[w] \in DrainPcs \/ (pc[w] \in SchedulePcs /\ ret[w] = "wake")
Registered(w) == pc[w] \in {"verify", "bail"} \/ Draining(w)
OwnerPcs == {"owner", "decide", "restore", "final_check", "release", "clear"}
Owning(w) == pc[w] \in OwnerPcs
Holding(w) == pc[w] \in OwnerPcs \cup {"reset"}
Departed(w) ==
  \/ pc[w] \in {"reset", "promote", "rewake", "rewake_post", "settle", "idle", "recheck",
                "reread", "reclaim", "reclaim_wake", "unplace"}
  \/ pc[w] \in SchedulePcs /\ ret[w] # "wake"
Leaving(w) ==
  /\ \/ pc[w] \in {"reset", "promote", "rewake", "rewake_post", "settle", "idle"}
     \/ pc[w] \in SchedulePcs /\ ret[w] = "rewake"
  /\ StillOurs(w)
Warming(w) == pc[w] \in WarmPcs \/ (me[w].entered /\ pc[w] \in {"leave"} \cup OwnerPcs)

PlacePcs == {"place", "hold", "fill", "overflow"}
LocalOK(w) ==
  /\ Draining(w) \/ Owning(w) \/ Departed(w) \/ pc[w] \in WarmPcs \cup {"final"} =>
       me[w].process \in Processes
  /\ me[w].process \in Processes => state[me[w].process] # "SUSPENDED"
  /\ me[w].entered => pc[w] \in {"leave", "owner", "decide", "restore", "warm"}
  /\ me[w].terminal =>
       /\ pc[w] \notin {"join", "verify", "bail", "drain", "drained", "retain", "publish", "exit"}
       /\ ~(pc[w] = "leave" /\ me[w].entered)
JobOK(t) ==
  /\ pc[t] \in SchedulePcs => job[t] \in Processes /\ state[job[t]] # "SUSPENDED"
  /\ ret[t] # "wake" => pc[t] \in PlacePcs \cup {ret[t]}
  /\ t \in Schedulers => pc[t] \in SchedulePcs \cup {"absent", "ready"} /\ ret[t] = "wake"
LocalInv == (\A w \in Workers : LocalOK(w)) /\ (\A t \in Threads : JobOK(t))

\* A thread that has reserved a slot fills it.
ReserveInv ==
  \A t \in Threads : pc[t] \in {"hold", "fill"} =>
    /\ slotProcess[probe[t]] = RESERVED
    /\ \A u \in Threads : pc[u] \in {"hold", "fill"} /\ probe[u] = probe[t] => u = t

\* active_drainers: the count, the sentinel and its holder.
DrainersOn(s) == {w \in Workers : Registered(w) /\ me[w].slot = s}
CountInv == \A s \in Slots : drainers[s] = Cardinality(DrainersOn(s))
\* One worker holds the sentinel, beside workers that are turned away.
HolderInv ==
  \A w \in Workers :
    /\ Holding(w) =>
         /\ sentinel[me[w].slot]
         /\ \A v \in Workers : Holding(v) /\ me[v].slot = me[w].slot => v = w
    /\ pc[w] = "verify" \/ Draining(w) => ~sentinel[me[w].slot]
    /\ pc[w] \in WarmPcs =>
         \A v \in Workers : pc[v] = "reset" => me[v].slot # me[w].slot
SentinelInv ==
  \A s \in Slots : sentinel[s] => \E w \in Workers : Holding(w) /\ me[w].slot = s

\* Whoever drains, owns or waits warm finds its process in its slot.
Resetting(s) == \E w \in Workers : pc[w] = "reset" /\ me[w].slot = s
Clearing(s) == \E w \in Workers : pc[w] = "clear" /\ me[w].slot = s
PinInv ==
  /\ \A w \in Workers :
       /\ Draining(w) \/ Owning(w) \/ pc[w] \in WarmPcs => slotProcess[me[w].slot] = me[w].process
       /\ pc[w] \in WarmPcs \/ (Owning(w) /\ me[w].entered) => me[w].gen = generation[me[w].slot]
       /\ pc[w] = "final" =>
            /\ me[w].gen <= generation[me[w].slot]
            /\ me[w].gen = generation[me[w].slot] =>
                 slotProcess[me[w].slot] = me[w].process \/ Resetting(me[w].slot)
  /\ \A s \in Slots : slotProcess[s] \in Processes =>
       slotEpoch[s] = placementEpoch[slotProcess[s]] \/ Clearing(s)
EpochInv ==
  \A w \in Workers :
    /\ pc[w] = "clear" => me[w].epoch = placementEpoch[me[w].process]
    /\ Departed(w) => me[w].epoch <= placementEpoch[me[w].process]

\* A process is in one place at a time.
InSlot(p) == \E s \in Slots : slotProcess[s] = p
Places(t, p) == job[t] = p /\ pc[t] \in {"consume"} \cup PlacePcs
Leaves(w, p) == Leaving(w) /\ me[w].process = p
InHand(p) == \E t \in Threads : Places(t, p)
OnItsWay(p) == \E w \in Workers : Leaves(w, p)
LocOK(p) ==
  /\ \A s, r \in Slots : slotProcess[s] = p /\ slotProcess[r] = p => s = r
  /\ \A t, u \in Threads : Places(t, p) /\ Places(u, p) => t = u
  /\ \A w, v \in Workers : Leaves(w, p) /\ Leaves(v, p) => w = v
  /\ InSlot(p) => ~InHand(p) /\ p \notin overflow /\ ~OnItsWay(p)
  /\ InHand(p) => p \notin overflow /\ ~OnItsWay(p)
  /\ p \in overflow => ~OnItsWay(p)
  /\ scheduleState[p] = "IDLE" => ~InSlot(p) /\ ~InHand(p) /\ p \notin overflow /\ ~OnItsWay(p)
  /\ state[p] = "SUSPENDED" => scheduleState[p] = "IDLE"
  /\ Terminal(p) => scheduleState[p] # "IDLE" /\ ~InHand(p) /\ p \notin overflow
LocInv ==
  /\ \A p \in Processes : LocOK(p)
  /\ \A w \in Workers :
       /\ pc[w] = "clear" \/ Leaving(w) => (Terminal(me[w].process) => me[w].terminal)
       /\ pc[w] = "idle" => StillOurs(w) /\ ~me[w].terminal

\* The claims of compute_placement_state.
DepartedFrom(p) == {w \in Workers : Departed(w) /\ me[w].process = p}
Filling(p) == \E t \in Threads : pc[t] = "fill" /\ job[t] = p
Done(p) == Terminal(p) /\ ~InSlot(p) /\ completions[p] = 1
ClaimOK(p) ==
  /\ placements[p] = (IF InSlot(p) THEN 1 ELSE 0) + (IF Filling(p) THEN 1 ELSE 0)
                       + Cardinality(DepartedFrom(p))
  /\ releasePending[p] => Done(p)
  /\ releases[p] <= 1 /\ (releases[p] = 1 => placements[p] = 0 /\ Done(p))
ClaimInv ==
  /\ \A p \in Processes : ClaimOK(p)
  /\ \A w \in Workers : Departed(w) /\ me[w].terminal => Done(me[w].process)

\* warm_retainers.
WarmOf(p) == {w \in Workers : Warming(w) /\ me[w].process = p}
WarmInv ==
  /\ \A p \in Processes : warmRetainers[p] = Cardinality(WarmOf(p))
  /\ \A w \in Workers : pc[w] \in {"release", "clear"} => warmRetainers[me[w].process] = 0

\* completion_claimed.
Completing(s) == \E w \in Workers : pc[w] = "complete" /\ me[w].slot = s
Resolving(p) == \E w \in Workers : pc[w] \in {"claim", "complete"} /\ me[w].process = p
CompletionInv ==
  /\ \A p \in Processes :
       /\ completions[p] \in {0, 1} /\ (completions[p] = 1 => Terminal(p))
       /\ Terminal(p) /\ completions[p] = 0 => Resolving(p)
       /\ completions[p] = 0 /\ client.dependent[p] # None =>
            state[client.dependent[p]] = "SUSPENDED"
  /\ \A w \in Workers :
       /\ pc[w] = "complete" =>
            /\ completions[me[w].process] = 0
            /\ \A v \in Workers : pc[v] = "complete" /\ me[v].slot = me[w].slot => v = w
       /\ Draining(w) /\ me[w].terminal /\ pc[w] # "claim" => completionClaimed[me[w].slot]
       /\ (Owning(w) \/ pc[w] \in WarmPcs \cup {"final"}) /\ me[w].terminal =>
            completions[me[w].process] = 1
  /\ \A s \in Slots :
       /\ completionClaimed[s] /\ ~Resetting(s) =>
            slotProcess[s] \in Processes /\ (completions[slotProcess[s]] = 1 \/ Completing(s))
       /\ slotProcess[s] \in Processes =>
            /\ completions[slotProcess[s]] = 1 \/ Completing(s) => completionClaimed[s]
            /\ Resetting(s) => ~Terminal(slotProcess[s])

Inv ==
  /\ TypeOK /\ LocalInv /\ ReserveInv /\ CountInv /\ HolderInv /\ SentinelInv /\ PinInv
  /\ EpochInv /\ LocInv /\ ClaimInv /\ WarmInv /\ CompletionInv

----------------------------------------------------------------------------
(* Steps that leave a part of the invariant as it is.                      *)

Locals == [slot : Slots, process : Processes \cup {None}, epoch : Nat, gen : Nat,
           result : Results, terminal : BOOLEAN, entered : BOOLEAN, rejoin : BOOLEAN,
           keepEpoch : Nat, didWork : BOOLEAN]

LEMMA Constants ==
  /\ EMPTY \notin Processes /\ RESERVED \notin Processes /\ None \notin Processes
  /\ EMPTY # RESERVED
  /\ Workers \cap Schedulers = {} /\ IsFiniteSet(Workers)
  /\ \A w \in Workers : w \in Threads /\ w \notin Schedulers
  /\ \A s \in Schedulers : s \in Threads
<1>1. IsFiniteSet(Workers)
  BY ThreadAssumption, FS_Subset DEF Threads
<1>. QED
  BY <1>1, ThreadAssumption DEF EMPTY, RESERVED, Threads

\* What a client is.
LEMMA ClientFacts ==
  ASSUME TypeOK
  PROVE  /\ client.slots \in Nat \ {0} /\ 1 \in Slots /\ Slots \subseteq Nat
         /\ client.processes \subseteq Processes
         /\ client.dependent \in [Processes -> Processes \cup {None}]
         /\ \A p, q \in Processes :
              client.dependent[p] = client.dependent[q] => p = q \/ client.dependent[p] = None
         /\ client.budget \in Nat
BY ClientAssumption DEF TypeOK, ClientType, Slots

\* Sets of workers that gain or lose one.
LEMMA Gains ==
  ASSUME NEW S \in SUBSET Workers, NEW w \in Workers, w \notin S
  PROVE  Cardinality(S \cup {w}) = Cardinality(S) + 1 /\ Cardinality(S) \in Nat
BY Constants, FS_Subset, FS_AddElement, FS_CardinalityType

LEMMA Loses ==
  ASSUME NEW S \in SUBSET Workers, NEW w \in S
  PROVE  /\ Cardinality(S \ {w}) = Cardinality(S) - 1 /\ Cardinality(S) \in Nat
         /\ Cardinality(S) > 0
<1>1. IsFiniteSet(S) /\ Cardinality(S) \in Nat
  BY Constants, FS_Subset, FS_CardinalityType
<1>2. Cardinality(S \ {w}) = Cardinality(S) - 1
  BY <1>1, FS_RemoveElement
<1>3. Cardinality(S) # 0
  BY <1>1, FS_EmptySet
<1>. QED
  BY <1>1, <1>2, <1>3

LEMMA Counts ==
  ASSUME NEW S \in SUBSET Workers
  PROVE  /\ Cardinality(S) \in Nat
         /\ Cardinality(S) = 0 <=> S = {}
         /\ Cardinality(S) = 1 => \A v, w \in S : v = w
<1>1. IsFiniteSet(S) /\ Cardinality(S) \in Nat
  BY Constants, FS_Subset, FS_CardinalityType
<1>2. Cardinality(S) = 0 <=> S = {}
  BY <1>1, FS_EmptySet
<1>3. ASSUME Cardinality(S) = 1, NEW v \in S, NEW w \in S PROVE v = w
  <2>1. PICK x : S = {x}
    BY <1>1, <1>3, FS_Singleton
  <2>. QED
    BY <2>1
<1>. QED
  BY <1>1, <1>2, <1>3

ReserveFrame ==
  /\ UNCHANGED slotProcess
  /\ \A t \in Threads : pc'[t] \in {"hold", "fill"} =>
       pc[t] \in {"hold", "fill"} /\ probe'[t] = probe[t]
LEMMA ReserveFramed ==
  ASSUME ReserveInv, ReserveFrame PROVE ReserveInv'
BY DEF ReserveInv, ReserveFrame

CountFrame ==
  /\ UNCHANGED <<client, drainers>>
  /\ \A v \in Workers : /\ Registered(v)' <=> Registered(v)
                        /\ Registered(v) => me'[v].slot = me[v].slot
LEMMA CountFramed ==
  ASSUME CountInv, CountFrame PROVE CountInv'
<1>1. Slots' = Slots
  BY DEF CountFrame, Slots
<1>2. ASSUME NEW s \in Slots PROVE DrainersOn(s)' = DrainersOn(s)
  BY DEF DrainersOn, CountFrame
<1>. QED
  BY <1>1, <1>2 DEF CountInv, CountFrame

HolderFrame ==
  /\ UNCHANGED <<client, sentinel>>
  /\ \A v \in Workers :
       /\ Holding(v)' <=> Holding(v)
       /\ Holding(v) => me'[v].slot = me[v].slot
       /\ pc'[v] = "verify" \/ Draining(v)' =>
            (pc[v] = "verify" \/ Draining(v)) /\ me'[v].slot = me[v].slot
       /\ pc'[v] \in WarmPcs => pc[v] \in WarmPcs /\ me'[v].slot = me[v].slot
       /\ pc'[v] = "reset" => pc[v] = "reset"
LEMMA HolderFramed ==
  ASSUME HolderInv, SentinelInv, HolderFrame PROVE HolderInv' /\ SentinelInv'
<1>1. Slots' = Slots
  BY DEF HolderFrame, Slots
<1>2. \A v \in Workers : pc'[v] = "reset" => pc[v] = "reset" /\ me'[v].slot = me[v].slot
  BY DEF HolderFrame, Holding
<1>3. HolderInv'
  BY <1>2 DEF HolderInv, HolderFrame
<1>4. SentinelInv'
  BY <1>1 DEF SentinelInv, HolderFrame
<1>. QED
  BY <1>3, <1>4

PinFrame ==
  /\ UNCHANGED <<client, slotProcess, slotEpoch, generation, placementEpoch>>
  /\ \A v \in Workers :
       /\ Draining(v)' \/ Owning(v)' \/ pc'[v] \in WarmPcs =>
            /\ Draining(v) \/ Owning(v) \/ pc[v] \in WarmPcs
            /\ me'[v].slot = me[v].slot /\ me'[v].process = me[v].process
       /\ pc'[v] \in WarmPcs \/ (Owning(v)' /\ me'[v].entered) =>
            /\ pc[v] \in WarmPcs \/ (Owning(v) /\ me[v].entered)
            /\ me'[v].slot = me[v].slot /\ me'[v].gen = me[v].gen
       /\ pc'[v] = "final" => pc[v] = "final" /\ me'[v] = me[v]
       /\ pc[v] \in {"reset", "clear"} => pc'[v] = pc[v] /\ me'[v].slot = me[v].slot
LEMMA PinFramed ==
  ASSUME PinInv, PinFrame PROVE PinInv'
<1>1. Slots' = Slots
  BY DEF PinFrame, Slots
<1>2. \A s \in Slots : Clearing(s) => Clearing(s)'
  BY DEF PinFrame, Clearing
<1>3. \A v \in Workers : Resetting(me[v].slot) /\ me'[v] = me[v] => Resetting(me[v].slot)'
  BY DEF PinFrame, Resetting
<1>4. ASSUME NEW v \in Workers
      PROVE  /\ Draining(v)' \/ Owning(v)' \/ pc'[v] \in WarmPcs =>
                  slotProcess'[me'[v].slot] = me'[v].process
             /\ pc'[v] \in WarmPcs \/ (Owning(v)' /\ me'[v].entered) =>
                  me'[v].gen = generation'[me'[v].slot]
  BY DEF PinInv, PinFrame
<1>5. ASSUME NEW v \in Workers, pc'[v] = "final"
      PROVE  (/\ me[v].gen <= generation[me[v].slot]
              /\ me[v].gen = generation[me[v].slot] =>
                   slotProcess[me[v].slot] = me[v].process \/ Resetting(me[v].slot))'
  BY <1>3, <1>5 DEF PinInv, PinFrame
<1>. QED
  BY <1>1, <1>2, <1>4, <1>5 DEF PinInv, PinFrame

EpochFrame ==
  /\ UNCHANGED placementEpoch
  /\ \A v \in Workers :
       /\ pc'[v] = "clear" => pc[v] = "clear"
       /\ Departed(v)' => Departed(v)
       /\ pc'[v] = "clear" \/ Departed(v)' =>
            me'[v].epoch = me[v].epoch /\ me'[v].process = me[v].process
LEMMA EpochFramed ==
  ASSUME EpochInv, EpochFrame PROVE EpochInv'
BY DEF EpochInv, EpochFrame

LocFrame ==
  /\ UNCHANGED <<client, slotProcess, overflow, scheduleState>>
  /\ \A p \in Processes :
       /\ state'[p] = "SUSPENDED" => state[p] = "SUSPENDED"
       /\ state'[p] = "COMPLETED" => state[p] = "COMPLETED" \/ InSlot(p)
  /\ \A t \in Threads : pc'[t] \in {"consume"} \cup PlacePcs =>
                          pc[t] \in {"consume"} \cup PlacePcs /\ job'[t] = job[t]
  /\ \A v \in Workers :
       /\ Leaving(v)' => Leaving(v)
       /\ pc'[v] = "clear" => pc[v] = "clear"
       /\ pc'[v] = "clear" \/ Leaving(v)' =>
            /\ me'[v].process = me[v].process /\ me'[v].terminal = me[v].terminal
            /\ state'[me[v].process] = state[me[v].process]
       /\ pc'[v] = "idle" => (StillOurs(v) /\ ~me[v].terminal)'
LEMMA LocFramed ==
  ASSUME LocInv, LocFrame PROVE LocInv'
<1>1. Slots' = Slots
  BY DEF LocFrame, Slots
<1>2. ASSUME NEW p \in Processes
      PROVE  /\ \A t \in Threads : Places(t, p)' => Places(t, p)
             /\ \A v \in Workers : Leaves(v, p)' => Leaves(v, p)
             /\ InSlot(p)' <=> InSlot(p)
             /\ Terminal(p)' => Terminal(p) \/ InSlot(p)
  BY <1>1 DEF LocFrame, Places, Leaves, InSlot, Terminal
<1>3. ASSUME NEW p \in Processes PROVE LocOK(p)'
  <2>1. LocOK(p)
    BY DEF LocInv
  <2>2. (InHand(p)' => InHand(p)) /\ (OnItsWay(p)' => OnItsWay(p))
    BY <1>2 DEF InHand, OnItsWay
  <2>. QED
    BY <1>1, <1>2, <2>1, <2>2 DEF LocOK, LocFrame
<1>4. ASSUME NEW v \in Workers
      PROVE  (/\ pc[v] = "clear" \/ Leaving(v) => (Terminal(me[v].process) => me[v].terminal)
              /\ pc[v] = "idle" => StillOurs(v) /\ ~me[v].terminal)'
  BY DEF LocInv, LocFrame, Terminal
<1>. QED
  BY <1>3, <1>4 DEF LocInv

ClaimFrame ==
  /\ UNCHANGED <<client, placements, releasePending, releases, slotProcess>>
  /\ \A p \in Processes : /\ state[p] = "COMPLETED" => state'[p] = "COMPLETED"
                          /\ completions[p] = 1 => completions'[p] = 1
  /\ \A t \in Threads : /\ pc'[t] = "fill" <=> pc[t] = "fill"
                        /\ pc[t] = "fill" => job'[t] = job[t]
  /\ \A v \in Workers :
       /\ Departed(v)' <=> Departed(v)
       /\ Departed(v) => me'[v].process = me[v].process /\ me'[v].terminal = me[v].terminal
LEMMA ClaimFramed ==
  ASSUME LocalInv, ClaimInv, ClaimFrame PROVE ClaimInv'
<1>1. Slots' = Slots
  BY DEF ClaimFrame, Slots
<1>2. ASSUME NEW p \in Processes
      PROVE  /\ (Filling(p)' <=> Filling(p)) /\ (InSlot(p)' <=> InSlot(p))
             /\ DepartedFrom(p)' = DepartedFrom(p)
             /\ Done(p) => Done(p)'
  BY <1>1 DEF ClaimFrame, Filling, InSlot, DepartedFrom, Done, Terminal
<1>3. ASSUME NEW p \in Processes PROVE ClaimOK(p)'
  BY <1>2 DEF ClaimInv, ClaimOK, ClaimFrame
<1>4. ASSUME NEW v \in Workers, Departed(v)', me'[v].terminal PROVE Done(me[v].process)'
  <2>1. /\ Done(me[v].process) /\ me'[v].process = me[v].process
        /\ me[v].process \in Processes
    BY <1>4 DEF ClaimInv, ClaimFrame, LocalInv, LocalOK
  <2>. QED
    BY <1>1, <2>1 DEF ClaimFrame, Done, InSlot, Terminal
<1>. QED
  BY <1>3, <1>4 DEF ClaimInv

WarmFrame ==
  /\ UNCHANGED warmRetainers
  /\ \A v \in Workers :
       /\ Warming(v)' <=> Warming(v)
       /\ Warming(v) => me'[v].process = me[v].process
       /\ pc'[v] \in {"release", "clear"} => warmRetainers[me'[v].process] = 0
LEMMA WarmFramed ==
  ASSUME WarmInv, WarmFrame PROVE WarmInv'
<1>1. ASSUME NEW p \in Processes PROVE WarmOf(p)' = WarmOf(p)
  BY DEF WarmFrame, WarmOf
<1>. QED
  BY <1>1 DEF WarmInv, WarmFrame

CompletionFrame ==
  /\ UNCHANGED <<client, completions, state, completionClaimed, slotProcess>>
  /\ \A v \in Workers :
       /\ pc'[v] = "complete" <=> pc[v] = "complete"
       /\ pc[v] \in {"claim", "complete", "reset"} =>
            pc'[v] = pc[v] /\ me'[v].slot = me[v].slot /\ me'[v].process = me[v].process
       /\ pc'[v] = "reset" => pc[v] = "reset"
       /\ Draining(v)' /\ me'[v].terminal /\ pc'[v] # "claim" => completionClaimed[me'[v].slot]
       /\ (Owning(v)' \/ pc'[v] \in WarmPcs \cup {"final"}) /\ me'[v].terminal =>
            completions[me'[v].process] = 1
LEMMA CompletionFramed ==
  ASSUME CompletionInv, CompletionFrame PROVE CompletionInv'
<1>1. Slots' = Slots
  BY DEF CompletionFrame, Slots
<1>2. ASSUME NEW p \in Processes
      PROVE  /\ Resolving(p) => Resolving(p)'
             /\ Terminal(p)' <=> Terminal(p)
  BY DEF CompletionFrame, Resolving, Terminal
<1>3. ASSUME NEW s \in Slots
      PROVE  (Completing(s)' <=> Completing(s)) /\ (Resetting(s)' <=> Resetting(s))
  BY DEF CompletionFrame, Completing, Resetting
<1>4. ASSUME NEW p \in Processes
      PROVE  (/\ completions[p] \in {0, 1} /\ (completions[p] = 1 => Terminal(p))
              /\ Terminal(p) /\ completions[p] = 0 => Resolving(p)
              /\ completions[p] = 0 /\ client.dependent[p] # None =>
                   state[client.dependent[p]] = "SUSPENDED")'
  BY <1>2 DEF CompletionInv, CompletionFrame
<1>5. ASSUME NEW w \in Workers
      PROVE  (/\ pc[w] = "complete" =>
                   /\ completions[me[w].process] = 0
                   /\ \A v \in Workers : pc[v] = "complete" /\ me[v].slot = me[w].slot => v = w
              /\ Draining(w) /\ me[w].terminal /\ pc[w] # "claim" => completionClaimed[me[w].slot]
              /\ (Owning(w) \/ pc[w] \in WarmPcs \cup {"final"}) /\ me[w].terminal =>
                   completions[me[w].process] = 1)'
  BY DEF CompletionInv, CompletionFrame
<1>6. ASSUME NEW s \in Slots
      PROVE  (/\ completionClaimed[s] /\ ~Resetting(s) =>
                   /\ slotProcess[s] \in Processes
                   /\ completions[slotProcess[s]] = 1 \/ Completing(s)
              /\ slotProcess[s] \in Processes =>
                   /\ completions[slotProcess[s]] = 1 \/ Completing(s) => completionClaimed[s]
                   /\ Resetting(s) => ~Terminal(slotProcess[s]))'
  <2>1. Terminal(slotProcess[s])' <=> Terminal(slotProcess[s])
    BY DEF CompletionFrame, Terminal
  <2>. QED
    BY <1>3, <2>1 DEF CompletionInv, CompletionFrame
<1>. QED
  BY <1>1, <1>4, <1>5, <1>6 DEF CompletionInv

----------------------------------------------------------------------------
(* What the invariant says of one worker or thread.                        *)

\* Beside the holder of a sentinel nobody drains the slot or holds it.
LEMMA Apart ==
  ASSUME Inv, NEW v \in Workers, NEW w \in Workers, Holding(w),
         Draining(v) \/ (Holding(v) /\ v # w)
  PROVE  /\ me[v].slot # me[w].slot
         /\ Owning(w) /\ (Draining(v) \/ Owning(v)) => me[v].process # me[w].process
<1>1. me[v].slot # me[w].slot
  BY DEF Inv, HolderInv
<1>2. ASSUME Owning(w), Draining(v) \/ Owning(v) PROVE me[v].process # me[w].process
  <2>1. /\ slotProcess[me[v].slot] = me[v].process /\ slotProcess[me[w].slot] = me[w].process
        /\ me[w].process \in Processes /\ me[v].slot \in Slots /\ me[w].slot \in Slots
    BY <1>2 DEF Inv, PinInv, LocalInv, LocalOK, TypeOK
  <2>2. LocOK(me[w].process)
    BY <2>1 DEF Inv, LocInv
  <2>. QED
    BY <1>1, <2>1, <2>2 DEF LocOK
<1>. QED
  BY <1>1, <1>2

\* The process of a worker that drains, owns or waits warm is in its slot.
LEMMA Housed ==
  ASSUME Inv, NEW w \in Workers, Draining(w) \/ Owning(w) \/ pc[w] \in WarmPcs
  PROVE  /\ me[w].process \in Processes /\ me[w].slot \in Slots
         /\ slotProcess[me[w].slot] = me[w].process
         /\ \A s \in Slots : slotProcess[s] = me[w].process => s = me[w].slot
         /\ InSlot(me[w].process) /\ ~InHand(me[w].process) /\ ~OnItsWay(me[w].process)
         /\ me[w].process \notin overflow /\ scheduleState[me[w].process] # "IDLE"
         /\ state[me[w].process] # "SUSPENDED"
<1>1. /\ me[w].process \in Processes /\ me[w].slot \in Slots
      /\ slotProcess[me[w].slot] = me[w].process
      /\ state[me[w].process] # "SUSPENDED"
  BY DEF Inv, PinInv, LocalInv, LocalOK, TypeOK
<1>2. LocOK(me[w].process)
  BY <1>1 DEF Inv, LocInv
<1>3. InSlot(me[w].process)
  BY <1>1 DEF InSlot
<1>. QED
  BY <1>1, <1>2, <1>3 DEF LocOK

\* A process that a thread places is nowhere else.
LEMMA Carried ==
  ASSUME Inv, NEW t \in Threads, NEW p \in Processes, Places(t, p)
  PROVE  /\ ~InSlot(p) /\ ~OnItsWay(p) /\ p \notin overflow /\ ~Terminal(p)
         /\ scheduleState[p] # "IDLE" /\ \A u \in Threads : Places(u, p) => u = t
         /\ \A s \in Slots : slotProcess[s] # p
<1>1. LocOK(p) /\ InHand(p)
  BY DEF Inv, LocInv, InHand
<1>2. ~InSlot(p)
  BY <1>1 DEF LocOK
<1>. QED
  BY <1>1, <1>2 DEF LocOK, InSlot

\* A warm worker is counted.
LEMMA WarmCounted ==
  ASSUME Inv, NEW w \in Workers, Warming(w), me[w].process \in Processes
  PROVE  warmRetainers[me[w].process] > 0
<1>1. w \in WarmOf(me[w].process) /\ WarmOf(me[w].process) \subseteq Workers
  BY DEF WarmOf
<1>2. Cardinality(WarmOf(me[w].process)) > 0
  BY <1>1, Loses
<1>. QED
  BY <1>2 DEF Inv, WarmInv

\* A worker enters the warm retainers of its process, or leaves them.
WarmFrameBut(w) ==
  /\ \A v \in Workers : v # w =>
       /\ Warming(v)' <=> Warming(v)
       /\ Warming(v) => me'[v].process = me[v].process
  /\ \A v \in Workers : pc'[v] \in {"release", "clear"} => warmRetainers'[me'[v].process] = 0
LEMMA WarmEnters ==
  ASSUME TypeOK, WarmInv, NEW w \in Workers, NEW p \in Processes, me'[w].process = p,
         ~Warming(w), Warming(w)', WarmFrameBut(w),
         warmRetainers' = [warmRetainers EXCEPT ![p] = @ + 1]
  PROVE  WarmInv'
<1>1. ASSUME NEW q \in Processes PROVE warmRetainers'[q] = Cardinality(WarmOf(q)')
  <2>1. WarmOf(q) \subseteq Workers /\ warmRetainers[q] = Cardinality(WarmOf(q))
    BY DEF WarmOf, WarmInv
  <2>2. CASE q = p
    <3>1. WarmOf(q)' = WarmOf(q) \cup {w} /\ w \notin WarmOf(q)
      BY <2>2 DEF WarmOf, WarmFrameBut
    <3>2. warmRetainers'[q] = warmRetainers[q] + 1
      BY <2>2 DEF TypeOK
    <3>. QED
      BY <2>1, <3>1, <3>2, Gains
  <2>3. CASE q # p
    <3>1. WarmOf(q)' = WarmOf(q)
      BY <2>3 DEF WarmOf, WarmFrameBut
    <3>2. warmRetainers'[q] = warmRetainers[q]
      BY <2>3 DEF TypeOK
    <3>. QED
      BY <2>1, <3>1, <3>2
  <2>. QED
    BY <2>2, <2>3
<1>. QED
  BY <1>1 DEF WarmInv, WarmFrameBut

LEMMA WarmLeaves ==
  ASSUME TypeOK, WarmInv, NEW w \in Workers, NEW p \in Processes, me[w].process = p,
         Warming(w), ~Warming(w)', WarmFrameBut(w),
         warmRetainers' = [warmRetainers EXCEPT ![p] = @ - 1]
  PROVE  WarmInv'
<1>1. ASSUME NEW q \in Processes PROVE warmRetainers'[q] = Cardinality(WarmOf(q)')
  <2>1. WarmOf(q) \subseteq Workers /\ warmRetainers[q] = Cardinality(WarmOf(q))
    BY DEF WarmOf, WarmInv
  <2>2. CASE q = p
    <3>1. WarmOf(q)' = WarmOf(q) \ {w} /\ w \in WarmOf(q)
      BY <2>2 DEF WarmOf, WarmFrameBut
    <3>2. warmRetainers'[q] = warmRetainers[q] - 1
      BY <2>2 DEF TypeOK
    <3>. QED
      BY <2>1, <3>1, <3>2, Loses
  <2>3. CASE q # p
    <3>1. WarmOf(q)' = WarmOf(q)
      BY <2>3 DEF WarmOf, WarmFrameBut
    <3>2. warmRetainers'[q] = warmRetainers[q]
      BY <2>3 DEF TypeOK
    <3>. QED
      BY <2>1, <3>1, <3>2
  <2>. QED
    BY <2>2, <2>3
<1>. QED
  BY <1>1 DEF WarmInv, WarmFrameBut

----------------------------------------------------------------------------
(* Scheduling.  From here on, one lemma per action: a step of it keeps the *)
(* invariant, part by part.                                                *)

LEMMA ScheduleTerminalKeeps ==
  ASSUME Inv, NEW t \in Threads, ScheduleTerminal(t) PROVE Inv'
<1>0. /\ TypeOK /\ LocalInv /\ ReserveInv /\ CountInv /\ HolderInv /\ SentinelInv /\ PinInv
      /\ EpochInv /\ LocInv /\ ClaimInv /\ WarmInv /\ CompletionInv
  BY DEF Inv
<1>c. /\ t \in Threads /\ Workers \cap Schedulers = {} /\ Workers \subseteq Threads /\ None \notin Processes
      /\ EMPTY \notin Processes /\ RESERVED \notin Processes /\ EMPTY # RESERVED
  BY Constants DEF Threads
<1>k. ret[t] = "wake" /\ job[t] \in Processes /\ (t \in Workers => ~me[t].entered)
  <2>1. /\ JobOK(t) /\ (t \in Workers => LocalOK(t))
        /\ ret[t] \in {"wake", "rewake", "reclaim_wake"}
    BY <1>0, <1>c DEF LocalInv, TypeOK
  <2>. QED
    BY <2>1, <1>c
    DEF ScheduleTerminal, Goto, JobOK, PlacePcs, SchedulePcs, LocalOK, Draining, Owning,
       OwnerPcs, Departed, DrainPcs, WarmPcs
<1>1. /\ t \in Threads /\ pc[t] = "sched" /\ pc'[t] \in {"leave", "ready"}
      /\ pc' \in [Threads -> Pcs]
      /\ \A u \in Threads : u # t => pc'[u] = pc[u]
      /\ me' = me
      /\ (t \in Workers => pc'[t] = "leave") /\ (t \notin Workers => pc'[t] = "ready")
      /\ job' \in [Threads -> Processes \cup {None}] /\ \A u \in Threads : u # t => job'[u] = job[u]
      /\ UNCHANGED <<client, state, scheduleState, needsDrain, retainDrain, placementEpoch,
                     placements, releasePending, retentionEpoch, warmRetainers, slotProcess,
                     slotEpoch, slotBudget, generation, drainers, sentinel, completionClaimed,
                     overflow, work, regionsLeft, closing, completions, releases, callsLeft,
                     rescan, todo, probe, ret>>
  BY <1>0, <1>c, <1>k
  DEF ScheduleTerminal, Goto, TypeOK, Pcs, SchedulePcs, DrainPcs, WarmPcs, ReleasePcs,
     processVars, slotVars, clientVars, callVars, scanVars, AfterSchedule
<1>2. Slots' = Slots /\ Locals' = Locals
  BY <1>1 DEF Slots, Locals
<1>3. TypeOK'
  BY <1>0, <1>c, <1>1, <1>2, <1>k, ClientFacts DEF TypeOK, Locals
<1>4. LocalInv'
  <2>1. ASSUME NEW v \in Workers PROVE LocalOK(v)'
    <3>1. LocalOK(v)
      BY <1>0 DEF LocalInv
    <3>. QED
      BY <1>0, <1>c, <1>1, <1>2, <1>k, <3>1
      DEF LocalOK, Draining, Owning, OwnerPcs, Departed, DrainPcs, SchedulePcs, WarmPcs
  <2>2. ASSUME NEW u \in Threads PROVE JobOK(u)'
    <3>1. JobOK(u) /\ ret[u] \in {"wake", "rewake", "reclaim_wake"}
      BY <1>0 DEF LocalInv, TypeOK
    <3>. QED
      BY <1>0, <1>c, <1>1, <1>2, <1>k, <3>1 DEF JobOK, PlacePcs, SchedulePcs
  <2>. QED
    BY <2>1, <2>2 DEF LocalInv
<1>5. ReserveInv'
  BY <1>0, <1>c, <1>1, <1>2, <1>k, ReserveFramed DEF ReserveFrame
<1>6. CountInv'
  BY <1>0, <1>c, <1>1, <1>2, <1>k, CountFramed
  DEF CountFrame, Registered, Draining, DrainPcs, SchedulePcs
<1>7. HolderInv' /\ SentinelInv'
  BY <1>0, <1>c, <1>1, <1>2, <1>k, HolderFramed
  DEF HolderFrame, Holding, OwnerPcs, WarmPcs, Draining, DrainPcs, SchedulePcs
<1>8. PinInv'
  BY <1>0, <1>c, <1>1, <1>2, <1>k, PinFramed
  DEF PinFrame, Owning, OwnerPcs, WarmPcs, Draining, DrainPcs, SchedulePcs
<1>9. EpochInv'
  BY <1>0, <1>c, <1>1, <1>2, <1>k, EpochFramed DEF EpochFrame, Departed, SchedulePcs
<1>10. LocInv'
  BY <1>0, <1>c, <1>1, <1>2, <1>k, LocFramed
  DEF LocInv, LocFrame, Leaving, StillOurs, PlacePcs, SchedulePcs
<1>11. ClaimInv'
  BY <1>0, <1>c, <1>1, <1>2, <1>k, ClaimFramed DEF ClaimFrame, Departed, SchedulePcs
<1>12. WarmInv'
  BY <1>0, <1>c, <1>1, <1>2, <1>k, WarmFramed DEF WarmInv, WarmFrame, Warming, OwnerPcs, WarmPcs
<1>13. CompletionInv'
  BY <1>0, <1>c, <1>1, <1>2, <1>k, CompletionFramed
  DEF CompletionInv, CompletionFrame, Owning, OwnerPcs, WarmPcs, Draining, DrainPcs, SchedulePcs
<1>. QED
  BY <1>3, <1>4, <1>5, <1>6, <1>7, <1>8, <1>9, <1>10, <1>11, <1>12, <1>13 DEF Inv

LEMMA ScheduleLiveKeeps ==
  ASSUME Inv, NEW t \in Threads, ScheduleLive(t) PROVE Inv'
<1>0. /\ TypeOK /\ LocalInv /\ ReserveInv /\ CountInv /\ HolderInv /\ SentinelInv /\ PinInv
      /\ EpochInv /\ LocInv /\ ClaimInv /\ WarmInv /\ CompletionInv
  BY DEF Inv
<1>c. /\ t \in Threads /\ Workers \cap Schedulers = {} /\ Workers \subseteq Threads /\ None \notin Processes
      /\ EMPTY \notin Processes /\ RESERVED \notin Processes /\ EMPTY # RESERVED
  BY Constants DEF Threads
<1>k. ret[t] = "wake" /\ job[t] \in Processes /\ (t \in Workers => ~me[t].entered)
  <2>1. /\ JobOK(t) /\ (t \in Workers => LocalOK(t))
        /\ ret[t] \in {"wake", "rewake", "reclaim_wake"}
    BY <1>0, <1>c DEF LocalInv, TypeOK
  <2>. QED
    BY <2>1, <1>c
    DEF ScheduleLive, Goto, JobOK, PlacePcs, SchedulePcs, LocalOK, Draining, Owning, OwnerPcs,
       Departed, DrainPcs, WarmPcs
<1>1. /\ t \in Threads /\ pc[t] = "sched" /\ pc'[t] = "notify"
      /\ pc' \in [Threads -> Pcs]
      /\ \A u \in Threads : u # t => pc'[u] = pc[u]
      /\ me' = me
      /\ UNCHANGED <<client, state, scheduleState, needsDrain, retainDrain, placementEpoch,
                     placements, releasePending, retentionEpoch, warmRetainers, slotProcess,
                     slotEpoch, slotBudget, generation, drainers, sentinel, completionClaimed,
                     overflow, work, regionsLeft, closing, completions, releases, callsLeft,
                     rescan, todo, job, probe, ret>>
  BY <1>0, <1>c, <1>k
  DEF ScheduleLive, Goto, TypeOK, Pcs, SchedulePcs, DrainPcs, WarmPcs, ReleasePcs, processVars,
     slotVars, clientVars, callVars, scanVars
<1>2. Slots' = Slots /\ Locals' = Locals
  BY <1>1 DEF Slots, Locals
<1>3. TypeOK'
  BY <1>0, <1>c, <1>1, <1>2, <1>k, ClientFacts DEF TypeOK, Locals
<1>4. LocalInv'
  <2>1. ASSUME NEW v \in Workers PROVE LocalOK(v)'
    <3>1. LocalOK(v)
      BY <1>0 DEF LocalInv
    <3>. QED
      BY <1>0, <1>c, <1>1, <1>2, <1>k, <3>1
      DEF LocalOK, Draining, Owning, OwnerPcs, Departed, DrainPcs, SchedulePcs, WarmPcs
  <2>2. ASSUME NEW u \in Threads PROVE JobOK(u)'
    <3>1. JobOK(u) /\ ret[u] \in {"wake", "rewake", "reclaim_wake"}
      BY <1>0 DEF LocalInv, TypeOK
    <3>. QED
      BY <1>0, <1>c, <1>1, <1>2, <1>k, <3>1 DEF JobOK, PlacePcs, SchedulePcs
  <2>. QED
    BY <2>1, <2>2 DEF LocalInv
<1>5. ReserveInv'
  BY <1>0, <1>c, <1>1, <1>2, <1>k, ReserveFramed DEF ReserveFrame
<1>6. CountInv'
  BY <1>0, <1>c, <1>1, <1>2, <1>k, CountFramed
  DEF CountFrame, Registered, Draining, DrainPcs, SchedulePcs
<1>7. HolderInv' /\ SentinelInv'
  BY <1>0, <1>c, <1>1, <1>2, <1>k, HolderFramed
  DEF HolderFrame, Holding, OwnerPcs, WarmPcs, Draining, DrainPcs, SchedulePcs
<1>8. PinInv'
  BY <1>0, <1>c, <1>1, <1>2, <1>k, PinFramed
  DEF PinFrame, Owning, OwnerPcs, WarmPcs, Draining, DrainPcs, SchedulePcs
<1>9. EpochInv'
  BY <1>0, <1>c, <1>1, <1>2, <1>k, EpochFramed DEF EpochFrame, Departed, SchedulePcs
<1>10. LocInv'
  BY <1>0, <1>c, <1>1, <1>2, <1>k, LocFramed
  DEF LocInv, LocFrame, Leaving, StillOurs, PlacePcs, SchedulePcs
<1>11. ClaimInv'
  BY <1>0, <1>c, <1>1, <1>2, <1>k, ClaimFramed DEF ClaimFrame, Departed, SchedulePcs
<1>12. WarmInv'
  BY <1>0, <1>c, <1>1, <1>2, <1>k, WarmFramed DEF WarmInv, WarmFrame, Warming, OwnerPcs, WarmPcs
<1>13. CompletionInv'
  BY <1>0, <1>c, <1>1, <1>2, <1>k, CompletionFramed
  DEF CompletionInv, CompletionFrame, Owning, OwnerPcs, WarmPcs, Draining, DrainPcs, SchedulePcs
<1>. QED
  BY <1>3, <1>4, <1>5, <1>6, <1>7, <1>8, <1>9, <1>10, <1>11, <1>12, <1>13 DEF Inv

LEMMA ScheduleNotifyKeeps ==
  ASSUME Inv, NEW t \in Threads, ScheduleNotify(t) PROVE Inv'
<1>0. /\ TypeOK /\ LocalInv /\ ReserveInv /\ CountInv /\ HolderInv /\ SentinelInv /\ PinInv
      /\ EpochInv /\ LocInv /\ ClaimInv /\ WarmInv /\ CompletionInv
  BY DEF Inv
<1>c. /\ t \in Threads /\ Workers \cap Schedulers = {} /\ Workers \subseteq Threads /\ None \notin Processes
      /\ EMPTY \notin Processes /\ RESERVED \notin Processes /\ EMPTY # RESERVED
  BY Constants DEF Threads
<1>k. ret[t] = "wake" /\ job[t] \in Processes /\ (t \in Workers => ~me[t].entered)
  <2>1. /\ JobOK(t) /\ (t \in Workers => LocalOK(t))
        /\ ret[t] \in {"wake", "rewake", "reclaim_wake"}
    BY <1>0, <1>c DEF LocalInv, TypeOK
  <2>. QED
    BY <2>1, <1>c
    DEF ScheduleNotify, Goto, JobOK, PlacePcs, SchedulePcs, LocalOK, Draining, Owning, OwnerPcs,
       Departed, DrainPcs, WarmPcs
<1>1. /\ t \in Threads /\ pc[t] = "notify" /\ pc'[t] = "retention"
      /\ pc' \in [Threads -> Pcs]
      /\ \A u \in Threads : u # t => pc'[u] = pc[u]
      /\ me' = me
      /\ needsDrain' \in [Processes -> BOOLEAN]
      /\ UNCHANGED <<client, state, scheduleState, retainDrain, placementEpoch, placements,
                     releasePending, retentionEpoch, warmRetainers, slotProcess, slotEpoch,
                     slotBudget, generation, drainers, sentinel, completionClaimed, overflow,
                     work, regionsLeft, closing, completions, releases, callsLeft, rescan,
                     todo, job, probe, ret>>
  BY <1>0, <1>c, <1>k
  DEF ScheduleNotify, Goto, TypeOK, Pcs, SchedulePcs, DrainPcs, WarmPcs, ReleasePcs, processVars,
     slotVars, clientVars, callVars, scanVars
<1>2. Slots' = Slots /\ Locals' = Locals
  BY <1>1 DEF Slots, Locals
<1>3. TypeOK'
  BY <1>0, <1>c, <1>1, <1>2, <1>k, ClientFacts DEF TypeOK, Locals
<1>4. LocalInv'
  <2>1. ASSUME NEW v \in Workers PROVE LocalOK(v)'
    <3>1. LocalOK(v)
      BY <1>0 DEF LocalInv
    <3>. QED
      BY <1>0, <1>c, <1>1, <1>2, <1>k, <3>1
      DEF LocalOK, Draining, Owning, OwnerPcs, Departed, DrainPcs, SchedulePcs, WarmPcs
  <2>2. ASSUME NEW u \in Threads PROVE JobOK(u)'
    <3>1. JobOK(u) /\ ret[u] \in {"wake", "rewake", "reclaim_wake"}
      BY <1>0 DEF LocalInv, TypeOK
    <3>. QED
      BY <1>0, <1>c, <1>1, <1>2, <1>k, <3>1 DEF JobOK, PlacePcs, SchedulePcs
  <2>. QED
    BY <2>1, <2>2 DEF LocalInv
<1>5. ReserveInv'
  BY <1>0, <1>c, <1>1, <1>2, <1>k, ReserveFramed DEF ReserveFrame
<1>6. CountInv'
  BY <1>0, <1>c, <1>1, <1>2, <1>k, CountFramed
  DEF CountFrame, Registered, Draining, DrainPcs, SchedulePcs
<1>7. HolderInv' /\ SentinelInv'
  BY <1>0, <1>c, <1>1, <1>2, <1>k, HolderFramed
  DEF HolderFrame, Holding, OwnerPcs, WarmPcs, Draining, DrainPcs, SchedulePcs
<1>8. PinInv'
  BY <1>0, <1>c, <1>1, <1>2, <1>k, PinFramed
  DEF PinFrame, Owning, OwnerPcs, WarmPcs, Draining, DrainPcs, SchedulePcs
<1>9. EpochInv'
  BY <1>0, <1>c, <1>1, <1>2, <1>k, EpochFramed DEF EpochFrame, Departed, SchedulePcs
<1>10. LocInv'
  BY <1>0, <1>c, <1>1, <1>2, <1>k, LocFramed
  DEF LocInv, LocFrame, Leaving, StillOurs, PlacePcs, SchedulePcs
<1>11. ClaimInv'
  BY <1>0, <1>c, <1>1, <1>2, <1>k, ClaimFramed DEF ClaimFrame, Departed, SchedulePcs
<1>12. WarmInv'
  BY <1>0, <1>c, <1>1, <1>2, <1>k, WarmFramed DEF WarmInv, WarmFrame, Warming, OwnerPcs, WarmPcs
<1>13. CompletionInv'
  BY <1>0, <1>c, <1>1, <1>2, <1>k, CompletionFramed
  DEF CompletionInv, CompletionFrame, Owning, OwnerPcs, WarmPcs, Draining, DrainPcs, SchedulePcs
<1>. QED
  BY <1>3, <1>4, <1>5, <1>6, <1>7, <1>8, <1>9, <1>10, <1>11, <1>12, <1>13 DEF Inv

LEMMA ScheduleRetentionKeeps ==
  ASSUME Inv, NEW t \in Threads, ScheduleRetention(t) PROVE Inv'
<1>0. /\ TypeOK /\ LocalInv /\ ReserveInv /\ CountInv /\ HolderInv /\ SentinelInv /\ PinInv
      /\ EpochInv /\ LocInv /\ ClaimInv /\ WarmInv /\ CompletionInv
  BY DEF Inv
<1>c. /\ t \in Threads /\ Workers \cap Schedulers = {} /\ Workers \subseteq Threads /\ None \notin Processes
      /\ EMPTY \notin Processes /\ RESERVED \notin Processes /\ EMPTY # RESERVED
  BY Constants DEF Threads
<1>k. ret[t] = "wake" /\ job[t] \in Processes /\ (t \in Workers => ~me[t].entered)
  <2>1. /\ JobOK(t) /\ (t \in Workers => LocalOK(t))
        /\ ret[t] \in {"wake", "rewake", "reclaim_wake"}
    BY <1>0, <1>c DEF LocalInv, TypeOK
  <2>. QED
    BY <2>1, <1>c
    DEF ScheduleRetention, Goto, JobOK, PlacePcs, SchedulePcs, LocalOK, Draining, Owning,
       OwnerPcs, Departed, DrainPcs, WarmPcs
<1>1. /\ t \in Threads /\ pc[t] = "retention" /\ pc'[t] = "acquire"
      /\ pc' \in [Threads -> Pcs]
      /\ \A u \in Threads : u # t => pc'[u] = pc[u]
      /\ me' = me
      /\ retentionEpoch' \in [Processes -> Nat]
      /\ UNCHANGED <<client, state, scheduleState, needsDrain, retainDrain, placementEpoch,
                     placements, releasePending, warmRetainers, slotProcess, slotEpoch,
                     slotBudget, generation, drainers, sentinel, completionClaimed, overflow,
                     work, regionsLeft, closing, completions, releases, callsLeft, rescan,
                     todo, job, probe, ret>>
  BY <1>0, <1>c, <1>k
  DEF ScheduleRetention, Goto, TypeOK, Pcs, SchedulePcs, DrainPcs, WarmPcs, ReleasePcs,
     processVars, slotVars, clientVars, callVars, scanVars
<1>2. Slots' = Slots /\ Locals' = Locals
  BY <1>1 DEF Slots, Locals
<1>3. TypeOK'
  BY <1>0, <1>c, <1>1, <1>2, <1>k, ClientFacts DEF TypeOK, Locals
<1>4. LocalInv'
  <2>1. ASSUME NEW v \in Workers PROVE LocalOK(v)'
    <3>1. LocalOK(v)
      BY <1>0 DEF LocalInv
    <3>. QED
      BY <1>0, <1>c, <1>1, <1>2, <1>k, <3>1
      DEF LocalOK, Draining, Owning, OwnerPcs, Departed, DrainPcs, SchedulePcs, WarmPcs
  <2>2. ASSUME NEW u \in Threads PROVE JobOK(u)'
    <3>1. JobOK(u) /\ ret[u] \in {"wake", "rewake", "reclaim_wake"}
      BY <1>0 DEF LocalInv, TypeOK
    <3>. QED
      BY <1>0, <1>c, <1>1, <1>2, <1>k, <3>1 DEF JobOK, PlacePcs, SchedulePcs
  <2>. QED
    BY <2>1, <2>2 DEF LocalInv
<1>5. ReserveInv'
  BY <1>0, <1>c, <1>1, <1>2, <1>k, ReserveFramed DEF ReserveFrame
<1>6. CountInv'
  BY <1>0, <1>c, <1>1, <1>2, <1>k, CountFramed
  DEF CountFrame, Registered, Draining, DrainPcs, SchedulePcs
<1>7. HolderInv' /\ SentinelInv'
  BY <1>0, <1>c, <1>1, <1>2, <1>k, HolderFramed
  DEF HolderFrame, Holding, OwnerPcs, WarmPcs, Draining, DrainPcs, SchedulePcs
<1>8. PinInv'
  BY <1>0, <1>c, <1>1, <1>2, <1>k, PinFramed
  DEF PinFrame, Owning, OwnerPcs, WarmPcs, Draining, DrainPcs, SchedulePcs
<1>9. EpochInv'
  BY <1>0, <1>c, <1>1, <1>2, <1>k, EpochFramed DEF EpochFrame, Departed, SchedulePcs
<1>10. LocInv'
  BY <1>0, <1>c, <1>1, <1>2, <1>k, LocFramed
  DEF LocInv, LocFrame, Leaving, StillOurs, PlacePcs, SchedulePcs
<1>11. ClaimInv'
  BY <1>0, <1>c, <1>1, <1>2, <1>k, ClaimFramed DEF ClaimFrame, Departed, SchedulePcs
<1>12. WarmInv'
  BY <1>0, <1>c, <1>1, <1>2, <1>k, WarmFramed DEF WarmInv, WarmFrame, Warming, OwnerPcs, WarmPcs
<1>13. CompletionInv'
  BY <1>0, <1>c, <1>1, <1>2, <1>k, CompletionFramed
  DEF CompletionInv, CompletionFrame, Owning, OwnerPcs, WarmPcs, Draining, DrainPcs, SchedulePcs
<1>. QED
  BY <1>3, <1>4, <1>5, <1>6, <1>7, <1>8, <1>9, <1>10, <1>11, <1>12, <1>13 DEF Inv

LEMMA ScheduleConsumeKeeps ==
  ASSUME Inv, NEW t \in Threads, ScheduleConsume(t) PROVE Inv'
<1>0. /\ TypeOK /\ LocalInv /\ ReserveInv /\ CountInv /\ HolderInv /\ SentinelInv /\ PinInv
      /\ EpochInv /\ LocInv /\ ClaimInv /\ WarmInv /\ CompletionInv
  BY DEF Inv
<1>c. /\ t \in Threads /\ Workers \cap Schedulers = {} /\ Workers \subseteq Threads /\ None \notin Processes
      /\ EMPTY \notin Processes /\ RESERVED \notin Processes /\ EMPTY # RESERVED
  BY Constants DEF Threads
<1>k. ret[t] = "wake" /\ job[t] \in Processes /\ (t \in Workers => ~me[t].entered)
  <2>1. /\ JobOK(t) /\ (t \in Workers => LocalOK(t))
        /\ ret[t] \in {"wake", "rewake", "reclaim_wake"}
    BY <1>0, <1>c DEF LocalInv, TypeOK
  <2>. QED
    BY <2>1, <1>c
    DEF ScheduleConsume, Goto, JobOK, PlacePcs, SchedulePcs, LocalOK, Draining, Owning, OwnerPcs,
       Departed, DrainPcs, WarmPcs
<1>1. /\ t \in Threads /\ pc[t] = "consume" /\ pc'[t] = "place"
      /\ pc' \in [Threads -> Pcs]
      /\ \A u \in Threads : u # t => pc'[u] = pc[u]
      /\ me' = me
      /\ needsDrain' \in [Processes -> BOOLEAN] /\ ret' = ret /\ probe' \in [Threads -> Slots]
      /\ \A u \in Threads : u # t => probe'[u] = probe[u]
      /\ UNCHANGED <<client, state, scheduleState, retainDrain, placementEpoch, placements,
                     releasePending, retentionEpoch, warmRetainers, slotProcess, slotEpoch,
                     slotBudget, generation, drainers, sentinel, completionClaimed, overflow,
                     work, regionsLeft, closing, completions, releases, callsLeft, rescan,
                     todo, job>>
  <2>1. ret' = ret
    BY <1>0, <1>c, <1>k DEF ScheduleConsume, TypeOK
  <2>2. probe' \in [Threads -> Slots] /\ \A u \in Threads : u # t => probe'[u] = probe[u]
    BY <1>0, <1>c, ClientFacts DEF ScheduleConsume, TypeOK
  <2>. QED
    BY <1>0, <1>c, <1>k, <2>1, <2>2
    DEF ScheduleConsume, Goto, TypeOK, Pcs, SchedulePcs, processVars, slotVars, clientVars,
       callVars, scanVars
<1>2. Slots' = Slots /\ Locals' = Locals
  BY <1>1 DEF Slots, Locals
<1>3. TypeOK'
  BY <1>0, <1>c, <1>1, <1>2, <1>k, ClientFacts DEF TypeOK, Locals
<1>4. LocalInv'
  <2>1. ASSUME NEW v \in Workers PROVE LocalOK(v)'
    <3>1. LocalOK(v)
      BY <1>0 DEF LocalInv
    <3>. QED
      BY <1>0, <1>c, <1>1, <1>2, <1>k, <3>1
      DEF LocalOK, Draining, Owning, OwnerPcs, Departed, DrainPcs, SchedulePcs, WarmPcs
  <2>2. ASSUME NEW u \in Threads PROVE JobOK(u)'
    <3>1. JobOK(u) /\ ret[u] \in {"wake", "rewake", "reclaim_wake"}
      BY <1>0 DEF LocalInv, TypeOK
    <3>. QED
      BY <1>0, <1>c, <1>1, <1>2, <1>k, <3>1 DEF JobOK, PlacePcs, SchedulePcs
  <2>. QED
    BY <2>1, <2>2 DEF LocalInv
<1>5. ReserveInv'
  BY <1>0, <1>c, <1>1, <1>2, <1>k, ReserveFramed DEF ReserveFrame
<1>6. CountInv'
  BY <1>0, <1>c, <1>1, <1>2, <1>k, CountFramed
  DEF CountFrame, Registered, Draining, DrainPcs, SchedulePcs
<1>7. HolderInv' /\ SentinelInv'
  BY <1>0, <1>c, <1>1, <1>2, <1>k, HolderFramed
  DEF HolderFrame, Holding, OwnerPcs, WarmPcs, Draining, DrainPcs, SchedulePcs
<1>8. PinInv'
  BY <1>0, <1>c, <1>1, <1>2, <1>k, PinFramed
  DEF PinFrame, Owning, OwnerPcs, WarmPcs, Draining, DrainPcs, SchedulePcs
<1>9. EpochInv'
  BY <1>0, <1>c, <1>1, <1>2, <1>k, EpochFramed DEF EpochFrame, Departed, SchedulePcs
<1>10. LocInv'
  BY <1>0, <1>c, <1>1, <1>2, <1>k, LocFramed
  DEF LocInv, LocFrame, Leaving, StillOurs, PlacePcs, SchedulePcs
<1>11. ClaimInv'
  BY <1>0, <1>c, <1>1, <1>2, <1>k, ClaimFramed DEF ClaimFrame, Departed, SchedulePcs
<1>12. WarmInv'
  BY <1>0, <1>c, <1>1, <1>2, <1>k, WarmFramed DEF WarmInv, WarmFrame, Warming, OwnerPcs, WarmPcs
<1>13. CompletionInv'
  BY <1>0, <1>c, <1>1, <1>2, <1>k, CompletionFramed
  DEF CompletionInv, CompletionFrame, Owning, OwnerPcs, WarmPcs, Draining, DrainPcs, SchedulePcs
<1>. QED
  BY <1>3, <1>4, <1>5, <1>6, <1>7, <1>8, <1>9, <1>10, <1>11, <1>12, <1>13 DEF Inv

LEMMA ScheduleWakeKeeps ==
  ASSUME Inv, NEW t \in Threads, ScheduleWake(t) PROVE Inv'
<1>0. /\ TypeOK /\ LocalInv /\ ReserveInv /\ CountInv /\ HolderInv /\ SentinelInv /\ PinInv
      /\ EpochInv /\ LocInv /\ ClaimInv /\ WarmInv /\ CompletionInv
  BY DEF Inv
<1>c. /\ t \in Threads /\ Workers \cap Schedulers = {} /\ Workers \subseteq Threads /\ None \notin Processes
      /\ EMPTY \notin Processes /\ RESERVED \notin Processes /\ EMPTY # RESERVED
  BY Constants DEF Threads
<1>k. ret[t] = "wake" /\ job[t] \in Processes /\ (t \in Workers => ~me[t].entered)
  <2>1. /\ JobOK(t) /\ (t \in Workers => LocalOK(t))
        /\ ret[t] \in {"wake", "rewake", "reclaim_wake"}
    BY <1>0, <1>c DEF LocalInv, TypeOK
  <2>. QED
    BY <2>1, <1>c
    DEF ScheduleWake, Goto, JobOK, PlacePcs, SchedulePcs, LocalOK, Draining, Owning, OwnerPcs,
       Departed, DrainPcs, WarmPcs
<1>1. /\ t \in Threads /\ pc[t] = "wake" /\ pc'[t] \in {"leave", "ready"}
      /\ pc' \in [Threads -> Pcs]
      /\ \A u \in Threads : u # t => pc'[u] = pc[u] \/ (pc[u] = "asleep" /\ pc'[u] = "rest")
      /\ me' = me
      /\ (t \in Workers => pc'[t] = "leave") /\ (t \notin Workers => pc'[t] = "ready")
      /\ rescan' \in [Workers -> BOOLEAN]
      /\ job' \in [Threads -> Processes \cup {None}] /\ \A u \in Threads : u # t => job'[u] = job[u]
      /\ UNCHANGED <<client, state, scheduleState, needsDrain, retainDrain, placementEpoch,
                     placements, releasePending, retentionEpoch, warmRetainers, slotProcess,
                     slotEpoch, slotBudget, generation, drainers, sentinel, completionClaimed,
                     overflow, work, regionsLeft, closing, completions, releases, callsLeft,
                     todo, probe, ret>>
  <2>1. pc[t] = "wake" /\ Wake(t, Budget, AfterSchedule(t)) /\ job' = [job EXCEPT ![t] = None]
    BY DEF ScheduleWake
  <2>2. PICK woken \in SUBSET Asleep :
          pc' = [u \in Threads |-> IF u = t THEN AfterSchedule(t)
                                   ELSE IF u \in woken THEN "rest" ELSE pc[u]]
    BY <2>1 DEF Wake
  <2>3. pc \in [Threads -> Pcs] /\ "rest" \in Pcs /\ AfterSchedule(t) \in Pcs
    BY <1>0 DEF TypeOK, Pcs, AfterSchedule, DrainPcs
  <2>4. pc' \in [Threads -> Pcs] /\ pc'[t] = AfterSchedule(t)
    BY <1>c, <2>2, <2>3
  <2>5. \A u \in Threads : u # t => pc'[u] = pc[u] \/ (pc[u] = "asleep" /\ pc'[u] = "rest")
    BY <2>2 DEF Asleep
  <2>6. rescan' \in [Workers -> BOOLEAN] /\ UNCHANGED todo
    BY <1>0, <2>1 DEF Wake, TypeOK
  <2>7. job' \in [Threads -> Processes \cup {None}] /\ \A u \in Threads : u # t => job'[u] = job[u]
    BY <1>0, <2>1 DEF TypeOK
  <2>. QED
    BY <1>c, <2>1, <2>4, <2>5, <2>6, <2>7
    DEF AfterSchedule, ScheduleWake, processVars, slotVars, clientVars, callVars, scanVars
<1>2. Slots' = Slots /\ Locals' = Locals
  BY <1>1 DEF Slots, Locals
<1>3. TypeOK'
  BY <1>0, <1>c, <1>1, <1>2, <1>k, ClientFacts DEF TypeOK, Locals
<1>4. LocalInv'
  <2>1. ASSUME NEW v \in Workers PROVE LocalOK(v)'
    <3>1. LocalOK(v)
      BY <1>0 DEF LocalInv
    <3>. QED
      BY <1>0, <1>c, <1>1, <1>2, <1>k, <3>1
      DEF LocalOK, Draining, Owning, OwnerPcs, Departed, DrainPcs, SchedulePcs, WarmPcs
  <2>2. ASSUME NEW u \in Threads PROVE JobOK(u)'
    <3>1. JobOK(u) /\ ret[u] \in {"wake", "rewake", "reclaim_wake"}
      BY <1>0 DEF LocalInv, TypeOK
    <3>2. CASE u = t
      BY <1>0, <1>c, <1>1, <1>2, <1>k, <3>1, <3>2 DEF JobOK, PlacePcs, SchedulePcs
    <3>3. CASE u # t /\ pc'[u] = pc[u]
      <4>1. job'[u] = job[u] /\ ret'[u] = ret[u]
        BY <1>0, <1>c, <1>1, <1>2, <1>k, <3>3
      <4>. QED
        BY <1>0, <1>c, <1>1, <1>2, <1>k, <3>1, <3>3, <4>1 DEF JobOK
    <3>4. CASE u # t /\ pc[u] = "asleep" /\ pc'[u] = "rest"
      <4>1. ret'[u] = ret[u] /\ ret[u] = "wake" /\ u \notin Schedulers
        BY <1>0, <1>c, <1>1, <1>2, <1>k, <3>1, <3>4 DEF JobOK, PlacePcs, SchedulePcs
      <4>. QED
        BY <3>4, <4>1 DEF JobOK, SchedulePcs
    <3>. QED
      BY <1>0, <1>c, <1>1, <1>2, <1>k, <3>2, <3>3, <3>4
  <2>. QED
    BY <2>1, <2>2 DEF LocalInv
<1>5. ReserveInv'
  BY <1>0, <1>c, <1>1, <1>2, <1>k, ReserveFramed DEF ReserveFrame
<1>6. CountInv'
  BY <1>0, <1>c, <1>1, <1>2, <1>k, CountFramed
  DEF CountFrame, Registered, Draining, DrainPcs, SchedulePcs
<1>7. HolderInv' /\ SentinelInv'
  BY <1>0, <1>c, <1>1, <1>2, <1>k, HolderFramed
  DEF HolderFrame, Holding, OwnerPcs, WarmPcs, Draining, DrainPcs, SchedulePcs
<1>8. PinInv'
  BY <1>0, <1>c, <1>1, <1>2, <1>k, PinFramed
  DEF PinFrame, Owning, OwnerPcs, WarmPcs, Draining, DrainPcs, SchedulePcs
<1>9. EpochInv'
  BY <1>0, <1>c, <1>1, <1>2, <1>k, EpochFramed DEF EpochFrame, Departed, SchedulePcs
<1>10. LocInv'
  BY <1>0, <1>c, <1>1, <1>2, <1>k, LocFramed
  DEF LocInv, LocFrame, Leaving, StillOurs, PlacePcs, SchedulePcs
<1>11. ClaimInv'
  BY <1>0, <1>c, <1>1, <1>2, <1>k, ClaimFramed DEF ClaimFrame, Departed, SchedulePcs
<1>12. WarmInv'
  BY <1>0, <1>c, <1>1, <1>2, <1>k, WarmFramed DEF WarmInv, WarmFrame, Warming, OwnerPcs, WarmPcs
<1>13. CompletionInv'
  BY <1>0, <1>c, <1>1, <1>2, <1>k, CompletionFramed
  DEF CompletionInv, CompletionFrame, Owning, OwnerPcs, WarmPcs, Draining, DrainPcs, SchedulePcs
<1>. QED
  BY <1>3, <1>4, <1>5, <1>6, <1>7, <1>8, <1>9, <1>10, <1>11, <1>12, <1>13 DEF Inv

LEMMA CallScheduleKeeps ==
  ASSUME Inv, NEW s \in Schedulers, CallSchedule(s) PROVE Inv'
<1>0. /\ TypeOK /\ LocalInv /\ ReserveInv /\ CountInv /\ HolderInv /\ SentinelInv /\ PinInv
      /\ EpochInv /\ LocInv /\ ClaimInv /\ WarmInv /\ CompletionInv
  BY DEF Inv
<1>c. /\ s \in Threads /\ Workers \cap Schedulers = {} /\ Workers \subseteq Threads /\ None \notin Processes
      /\ EMPTY \notin Processes /\ RESERVED \notin Processes /\ EMPTY # RESERVED
  BY Constants DEF Threads
<1>k. ret[s] = "wake"
  <2>1. /\ JobOK(s) /\ (s \in Workers => LocalOK(s))
        /\ ret[s] \in {"wake", "rewake", "reclaim_wake"}
    BY <1>0, <1>c DEF LocalInv, TypeOK
  <2>. QED
    BY <2>1, <1>c
    DEF CallSchedule, Goto, JobOK, PlacePcs, SchedulePcs, LocalOK, Draining, Owning, OwnerPcs,
       Departed, DrainPcs, WarmPcs
<1>1. /\ s \in Threads /\ pc[s] = "ready" /\ pc'[s] = "sched"
      /\ pc' \in [Threads -> Pcs]
      /\ \A u \in Threads : u # s => pc'[u] = pc[u]
      /\ me' = me
      /\ job' \in [Threads -> Processes \cup {None}] /\ \A u \in Threads : u # s => job'[u] = job[u]
      /\ job'[s] \in Processes /\ state[job'[s]] # "SUSPENDED"
      /\ work' \in [Processes -> Nat] /\ closing' \subseteq Processes /\ callsLeft' \in [Schedulers -> Nat]
      /\ UNCHANGED <<client, state, scheduleState, needsDrain, retainDrain, placementEpoch,
                     placements, releasePending, retentionEpoch, warmRetainers, slotProcess,
                     slotEpoch, slotBudget, generation, drainers, sentinel, completionClaimed,
                     overflow, regionsLeft, completions, releases, rescan, todo, probe, ret>>
  <2>1. PICK p \in client.processes :
          /\ state[p] # "SUSPENDED" /\ job' = [job EXCEPT ![s] = p]
          /\ \/ work' = [work EXCEPT ![p] = @ + 1] /\ UNCHANGED closing
             \/ closing' = closing \cup {p} /\ UNCHANGED work
    BY DEF CallSchedule
  <2>2. p \in Processes
    BY <1>0, ClientFacts
  <2>3. /\ work' \in [Processes -> Nat] /\ closing' \subseteq Processes
        /\ callsLeft' \in [Schedulers -> Nat]
    <3>1. callsLeft[s] \in Nat /\ callsLeft[s] > 0 /\ callsLeft' = [callsLeft EXCEPT ![s] = @ - 1]
      BY <1>0 DEF CallSchedule, TypeOK
    <3>2. callsLeft' \in [Schedulers -> Nat]
      BY <1>0, <3>1 DEF TypeOK
    <3>3. work' \in [Processes -> Nat]
      BY <1>0, <2>1, <2>2 DEF TypeOK
    <3>4. closing' \subseteq Processes
      BY <1>0, <2>1, <2>2 DEF TypeOK
    <3>. QED
      BY <3>2, <3>3, <3>4
  <2>4. /\ job' \in [Threads -> Processes \cup {None}] /\ \A u \in Threads : u # s => job'[u] = job[u]
        /\ job'[s] \in Processes /\ state[job'[s]] # "SUSPENDED"
    BY <1>0, <1>c, <2>1, <2>2 DEF TypeOK
  <2>. QED
    BY <1>0, <1>c, <2>3, <2>4
    DEF CallSchedule, Goto, TypeOK, Pcs, SchedulePcs, processVars, slotVars, clientVars,
       callVars, scanVars
<1>2. Slots' = Slots /\ Locals' = Locals
  BY <1>1 DEF Slots, Locals
<1>3. TypeOK'
  BY <1>0, <1>c, <1>1, <1>2, <1>k, ClientFacts DEF TypeOK, Locals
<1>4. LocalInv'
  <2>1. ASSUME NEW v \in Workers PROVE LocalOK(v)'
    <3>1. LocalOK(v)
      BY <1>0 DEF LocalInv
    <3>. QED
      BY <1>0, <1>c, <1>1, <1>2, <1>k, <3>1
      DEF LocalOK, Draining, Owning, OwnerPcs, Departed, DrainPcs, SchedulePcs, WarmPcs
  <2>2. ASSUME NEW u \in Threads PROVE JobOK(u)'
    <3>1. JobOK(u) /\ ret[u] \in {"wake", "rewake", "reclaim_wake"}
      BY <1>0 DEF LocalInv, TypeOK
    <3>. QED
      BY <1>0, <1>c, <1>1, <1>2, <1>k, <3>1 DEF JobOK, PlacePcs, SchedulePcs
  <2>. QED
    BY <2>1, <2>2 DEF LocalInv
<1>5. ReserveInv'
  BY <1>0, <1>c, <1>1, <1>2, <1>k, ReserveFramed DEF ReserveFrame
<1>6. CountInv'
  BY <1>0, <1>c, <1>1, <1>2, <1>k, CountFramed
  DEF CountFrame, Registered, Draining, DrainPcs, SchedulePcs
<1>7. HolderInv' /\ SentinelInv'
  BY <1>0, <1>c, <1>1, <1>2, <1>k, HolderFramed
  DEF HolderFrame, Holding, OwnerPcs, WarmPcs, Draining, DrainPcs, SchedulePcs
<1>8. PinInv'
  BY <1>0, <1>c, <1>1, <1>2, <1>k, PinFramed
  DEF PinFrame, Owning, OwnerPcs, WarmPcs, Draining, DrainPcs, SchedulePcs
<1>9. EpochInv'
  BY <1>0, <1>c, <1>1, <1>2, <1>k, EpochFramed DEF EpochFrame, Departed, SchedulePcs
<1>10. LocInv'
  BY <1>0, <1>c, <1>1, <1>2, <1>k, LocFramed
  DEF LocInv, LocFrame, Leaving, StillOurs, PlacePcs, SchedulePcs
<1>11. ClaimInv'
  BY <1>0, <1>c, <1>1, <1>2, <1>k, ClaimFramed DEF ClaimFrame, Departed, SchedulePcs
<1>12. WarmInv'
  BY <1>0, <1>c, <1>1, <1>2, <1>k, WarmFramed DEF WarmInv, WarmFrame, Warming, OwnerPcs, WarmPcs
<1>13. CompletionInv'
  BY <1>0, <1>c, <1>1, <1>2, <1>k, CompletionFramed
  DEF CompletionInv, CompletionFrame, Owning, OwnerPcs, WarmPcs, Draining, DrainPcs, SchedulePcs
<1>. QED
  BY <1>3, <1>4, <1>5, <1>6, <1>7, <1>8, <1>9, <1>10, <1>11, <1>12, <1>13 DEF Inv

LEMMA ScheduleAcquireKeeps ==
  ASSUME Inv, NEW t \in Threads, ScheduleAcquire(t) PROVE Inv'
<1>0. /\ TypeOK /\ LocalInv /\ ReserveInv /\ CountInv /\ HolderInv /\ SentinelInv /\ PinInv
      /\ EpochInv /\ LocInv /\ ClaimInv /\ WarmInv /\ CompletionInv
  BY DEF Inv
<1>c. /\ t \in Threads /\ Workers \cap Schedulers = {} /\ Workers \subseteq Threads /\ None \notin Processes
      /\ EMPTY \notin Processes /\ RESERVED \notin Processes /\ EMPTY # RESERVED
  BY Constants DEF Threads
<1>k. ret[t] = "wake" /\ job[t] \in Processes /\ (t \in Workers => ~me[t].entered)
      /\ state[job[t]] # "SUSPENDED"
  <2>1. /\ JobOK(t) /\ (t \in Workers => LocalOK(t))
        /\ ret[t] \in {"wake", "rewake", "reclaim_wake"}
    BY <1>0, <1>c DEF LocalInv, TypeOK
  <2>. QED
    BY <2>1, <1>c
    DEF ScheduleAcquire, Goto, JobOK, PlacePcs, SchedulePcs, LocalOK, Draining, Owning, OwnerPcs,
       Departed, DrainPcs, WarmPcs
<1>1. /\ t \in Threads /\ pc[t] = "acquire" /\ pc'[t] \in {"consume", "wake"}
      /\ pc' \in [Threads -> Pcs]
      /\ \A u \in Threads : u # t => pc'[u] = pc[u]
      /\ me' = me
      /\ scheduleState' \in [Processes -> {"IDLE", "DRAINING"}]
      /\ \/ /\ pc'[t] = "consume" /\ scheduleState[job[t]] = "IDLE"
            /\ scheduleState' = [scheduleState EXCEPT ![job[t]] = "DRAINING"]
         \/ pc'[t] = "wake" /\ scheduleState' = scheduleState
      /\ UNCHANGED <<client, state, needsDrain, retainDrain, placementEpoch, placements,
                     releasePending, retentionEpoch, warmRetainers, slotProcess, slotEpoch,
                     slotBudget, generation, drainers, sentinel, completionClaimed, overflow,
                     work, regionsLeft, closing, completions, releases, callsLeft, rescan,
                     todo, job, probe, ret>>
  <2>1. \/ /\ pc'[t] = "consume" /\ scheduleState[job[t]] = "IDLE"
           /\ scheduleState' = [scheduleState EXCEPT ![job[t]] = "DRAINING"]
        \/ pc'[t] = "wake" /\ scheduleState' = scheduleState
    BY <1>0, <1>c DEF ScheduleAcquire, Goto, TypeOK
  <2>2. scheduleState' \in [Processes -> {"IDLE", "DRAINING"}]
    <3>1. CASE scheduleState' = [scheduleState EXCEPT ![job[t]] = "DRAINING"]
      BY <1>0, <3>1 DEF TypeOK
    <3>2. CASE scheduleState' = scheduleState
      BY <1>0, <3>2 DEF TypeOK
    <3>. QED
      BY <2>1, <3>1, <3>2
  <2>3. /\ pc[t] = "acquire" /\ pc' \in [Threads -> Pcs]
        /\ \A u \in Threads : u # t => pc'[u] = pc[u]
    BY <1>0, <1>c DEF ScheduleAcquire, Goto, TypeOK, Pcs, SchedulePcs
  <2>. QED
    BY <1>c, <2>1, <2>2, <2>3
    DEF ScheduleAcquire, processVars, slotVars, clientVars, callVars, scanVars
<1>2. Slots' = Slots /\ Locals' = Locals
  BY <1>1 DEF Slots, Locals
<1>3. TypeOK'
  BY <1>0, <1>c, <1>1, <1>2, <1>k, ClientFacts DEF TypeOK, Locals
<1>4. LocalInv'
  <2>1. ASSUME NEW v \in Workers PROVE LocalOK(v)'
    <3>1. LocalOK(v)
      BY <1>0 DEF LocalInv
    <3>. QED
      BY <1>0, <1>c, <1>1, <1>2, <1>k, <3>1
      DEF LocalOK, Draining, Owning, OwnerPcs, Departed, DrainPcs, SchedulePcs, WarmPcs
  <2>2. ASSUME NEW u \in Threads PROVE JobOK(u)'
    <3>1. JobOK(u) /\ ret[u] \in {"wake", "rewake", "reclaim_wake"}
      BY <1>0 DEF LocalInv, TypeOK
    <3>. QED
      BY <1>0, <1>c, <1>1, <1>2, <1>k, <3>1 DEF JobOK, PlacePcs, SchedulePcs
  <2>. QED
    BY <2>1, <2>2 DEF LocalInv
<1>5. ReserveInv'
  BY <1>0, <1>c, <1>1, <1>2, <1>k, ReserveFramed DEF ReserveFrame
<1>6. CountInv'
  BY <1>0, <1>c, <1>1, <1>2, <1>k, CountFramed
  DEF CountFrame, Registered, Draining, DrainPcs, SchedulePcs
<1>7. HolderInv' /\ SentinelInv'
  BY <1>0, <1>c, <1>1, <1>2, <1>k, HolderFramed
  DEF HolderFrame, Holding, OwnerPcs, WarmPcs, Draining, DrainPcs, SchedulePcs
<1>8. PinInv'
  BY <1>0, <1>c, <1>1, <1>2, <1>k, PinFramed
  DEF PinFrame, Owning, OwnerPcs, WarmPcs, Draining, DrainPcs, SchedulePcs
<1>9. EpochInv'
  BY <1>0, <1>c, <1>1, <1>2, <1>k, EpochFramed DEF EpochFrame, Departed, SchedulePcs
<1>10. LocInv'
  <2>1. CASE pc'[t] = "wake"
    BY <1>0, <1>c, <1>1, <1>2, <1>k, <2>1, LocFramed
    DEF LocInv, LocFrame, Leaving, StillOurs, PlacePcs, SchedulePcs
  <2>2. CASE pc'[t] = "consume"
    <3>1. ASSUME NEW p \in Processes PROVE LocOK(p)'
      <4>0. LocOK(p)
        BY <1>0 DEF LocInv
      <4>1. /\ \A u \in Threads : Places(u, p)' <=> Places(u, p) \/ (u = t /\ p = job[t])
            /\ \A v \in Workers : Leaves(v, p)' <=> Leaves(v, p)
            /\ InSlot(p)' <=> InSlot(p)
            /\ Terminal(p)' <=> Terminal(p)
        BY <1>0, <1>c, <1>1, <1>2, <1>k, <2>2
        DEF Places, Leaves, Leaving, StillOurs, InSlot, Terminal, PlacePcs, SchedulePcs
      <4>2. OnItsWay(p)' <=> OnItsWay(p)
        BY <4>1 DEF OnItsWay
      <4>3. CASE p # job[t]
        <5>1. (InHand(p)' <=> InHand(p)) /\ scheduleState'[p] = scheduleState[p]
          BY <1>0, <1>c, <1>1, <1>2, <1>k, <4>1, <4>3, <2>2 DEF InHand, TypeOK
        <5>. QED
          BY <1>0, <1>c, <1>1, <1>2, <1>k, <4>0, <4>1, <4>2, <4>3, <5>1 DEF LocOK
      <4>4. CASE p = job[t]
        <5>1. scheduleState[p] = "IDLE" /\ scheduleState'[p] = "DRAINING"
          BY <1>0, <1>c, <1>1, <1>2, <1>k, <4>4, <2>2 DEF TypeOK
        <5>2. ~InHand(p) /\ ~InSlot(p) /\ p \notin overflow /\ ~OnItsWay(p) /\ ~Terminal(p)
          BY <4>0, <5>1 DEF LocOK
        <5>3. \A u \in Threads : Places(u, p)' => u = t
          BY <4>1, <5>2 DEF InHand
        <5>. QED
          BY <1>0, <1>c, <1>1, <1>2, <1>k, <4>0, <4>1, <4>2, <4>4, <5>1, <5>2, <5>3 DEF LocOK
      <4>. QED
        BY <4>3, <4>4
    <3>2. ASSUME NEW v \in Workers
          PROVE  (/\ pc[v] = "clear" \/ Leaving(v) => (Terminal(me[v].process) => me[v].terminal)
                  /\ pc[v] = "idle" => StillOurs(v) /\ ~me[v].terminal)'
      BY <1>0, <1>c, <1>1, <1>2, <1>k, <2>2 DEF LocInv, Leaving, StillOurs, Terminal, SchedulePcs
    <3>. QED
      BY <3>1, <3>2 DEF LocInv
  <2>. QED
    BY <1>1, <2>1, <2>2
<1>11. ClaimInv'
  BY <1>0, <1>c, <1>1, <1>2, <1>k, ClaimFramed DEF ClaimFrame, Departed, SchedulePcs
<1>12. WarmInv'
  BY <1>0, <1>c, <1>1, <1>2, <1>k, WarmFramed DEF WarmInv, WarmFrame, Warming, OwnerPcs, WarmPcs
<1>13. CompletionInv'
  BY <1>0, <1>c, <1>1, <1>2, <1>k, CompletionFramed
  DEF CompletionInv, CompletionFrame, Owning, OwnerPcs, WarmPcs, Draining, DrainPcs, SchedulePcs
<1>. QED
  BY <1>3, <1>4, <1>5, <1>6, <1>7, <1>8, <1>9, <1>10, <1>11, <1>12, <1>13 DEF Inv

LEMMA PlacePassKeeps ==
  ASSUME Inv, NEW t \in Threads, PlaceReserve(t), pc'[t] # "hold" PROVE Inv'
<1>0. /\ TypeOK /\ LocalInv /\ ReserveInv /\ CountInv /\ HolderInv /\ SentinelInv /\ PinInv
      /\ EpochInv /\ LocInv /\ ClaimInv /\ WarmInv /\ CompletionInv
  BY DEF Inv
<1>c. /\ t \in Threads /\ Workers \cap Schedulers = {} /\ Workers \subseteq Threads /\ None \notin Processes
      /\ EMPTY \notin Processes /\ RESERVED \notin Processes /\ EMPTY # RESERVED
  BY Constants DEF Threads
<1>k. job[t] \in Processes /\ (t \in Workers => ~me[t].entered)
      /\ state[job[t]] # "SUSPENDED" /\ ret[t] \in {"wake", "rewake", "reclaim_wake"}
  <2>1. /\ JobOK(t) /\ (t \in Workers => LocalOK(t))
        /\ ret[t] \in {"wake", "rewake", "reclaim_wake"}
    BY <1>0, <1>c DEF LocalInv, TypeOK
  <2>. QED
    BY <2>1, <1>c
    DEF PlaceReserve, Goto, JobOK, PlacePcs, SchedulePcs, LocalOK, Draining, Owning, OwnerPcs,
       Departed, DrainPcs, WarmPcs
<1>1. /\ t \in Threads /\ pc[t] = "place" /\ pc'[t] \in {"place", "overflow"}
      /\ pc' \in [Threads -> Pcs]
      /\ \A u \in Threads : u # t => pc'[u] = pc[u]
      /\ me' = me
      /\ probe' \in [Threads -> Slots] /\ \A u \in Threads : u # t => probe'[u] = probe[u]
      /\ UNCHANGED <<client, state, scheduleState, needsDrain, retainDrain, placementEpoch,
                     placements, releasePending, retentionEpoch, warmRetainers, slotProcess,
                     slotEpoch, slotBudget, generation, drainers, sentinel, completionClaimed,
                     overflow, work, regionsLeft, closing, completions, releases, callsLeft,
                     rescan, todo, job, ret>>
  <2>1. probe[t] \in Slots /\ (probe[t] < client.slots => probe[t] + 1 \in Slots)
    <3>1. client.slots \in Nat /\ probe[t] \in Slots
      BY <1>0, <1>c, ClientFacts DEF TypeOK
    <3>. QED
      BY <3>1 DEF Slots
  <2>2. \/ probe[t] < client.slots /\ probe' = [probe EXCEPT ![t] = probe[t] + 1]
           /\ Goto(t, "place", "place")
        \/ probe' = probe /\ Goto(t, "place", "overflow")
    BY <1>0, <1>c DEF PlaceReserve, Goto, TypeOK
  <2>3. probe' \in [Threads -> Slots] /\ \A u \in Threads : u # t => probe'[u] = probe[u]
    BY <1>0, <1>c, <2>1, <2>2 DEF TypeOK
  <2>4. /\ pc[t] = "place" /\ pc'[t] \in {"place", "overflow"} /\ pc' \in [Threads -> Pcs]
        /\ \A u \in Threads : u # t => pc'[u] = pc[u]
    BY <1>0, <1>c, <2>2 DEF Goto, TypeOK, Pcs, SchedulePcs
  <2>5. UNCHANGED slotProcess
    BY <1>0, <1>c DEF PlaceReserve, Goto, TypeOK
  <2>. QED
    BY <1>c, <2>3, <2>4, <2>5
    DEF PlaceReserve, processVars, slotVars, clientVars, callVars, scanVars
<1>2. Slots' = Slots /\ Locals' = Locals
  BY <1>1 DEF Slots, Locals
<1>3. TypeOK'
  BY <1>0, <1>c, <1>1, <1>2, <1>k, ClientFacts DEF TypeOK, Locals
<1>4. LocalInv'
  <2>1. ASSUME NEW v \in Workers PROVE LocalOK(v)'
    <3>1. LocalOK(v)
      BY <1>0 DEF LocalInv
    <3>. QED
      BY <1>0, <1>c, <1>1, <1>2, <1>k, <3>1
      DEF LocalOK, Draining, Owning, OwnerPcs, Departed, DrainPcs, SchedulePcs, WarmPcs
  <2>2. ASSUME NEW u \in Threads PROVE JobOK(u)'
    <3>1. JobOK(u) /\ ret[u] \in {"wake", "rewake", "reclaim_wake"}
      BY <1>0 DEF LocalInv, TypeOK
    <3>. QED
      BY <1>0, <1>c, <1>1, <1>2, <1>k, <3>1 DEF JobOK, PlacePcs, SchedulePcs
  <2>. QED
    BY <2>1, <2>2 DEF LocalInv
<1>5. ReserveInv'
  BY <1>0, <1>c, <1>1, <1>2, <1>k, ReserveFramed DEF ReserveFrame
<1>6. CountInv'
  BY <1>0, <1>c, <1>1, <1>2, <1>k, CountFramed
  DEF CountFrame, Registered, Draining, DrainPcs, SchedulePcs
<1>7. HolderInv' /\ SentinelInv'
  BY <1>0, <1>c, <1>1, <1>2, <1>k, HolderFramed
  DEF HolderFrame, Holding, OwnerPcs, WarmPcs, Draining, DrainPcs, SchedulePcs
<1>8. PinInv'
  BY <1>0, <1>c, <1>1, <1>2, <1>k, PinFramed
  DEF PinFrame, Owning, OwnerPcs, WarmPcs, Draining, DrainPcs, SchedulePcs
<1>9. EpochInv'
  BY <1>0, <1>c, <1>1, <1>2, <1>k, EpochFramed DEF EpochFrame, Departed, SchedulePcs
<1>10. LocInv'
  BY <1>0, <1>c, <1>1, <1>2, <1>k, LocFramed
  DEF LocInv, LocFrame, Leaving, StillOurs, PlacePcs, SchedulePcs
<1>11. ClaimInv'
  BY <1>0, <1>c, <1>1, <1>2, <1>k, ClaimFramed DEF ClaimFrame, Departed, SchedulePcs
<1>12. WarmInv'
  BY <1>0, <1>c, <1>1, <1>2, <1>k, WarmFramed DEF WarmInv, WarmFrame, Warming, OwnerPcs, WarmPcs
<1>13. CompletionInv'
  BY <1>0, <1>c, <1>1, <1>2, <1>k, CompletionFramed
  DEF CompletionInv, CompletionFrame, Owning, OwnerPcs, WarmPcs, Draining, DrainPcs, SchedulePcs
<1>. QED
  BY <1>3, <1>4, <1>5, <1>6, <1>7, <1>8, <1>9, <1>10, <1>11, <1>12, <1>13 DEF Inv

LEMMA PlaceReserveKeeps ==
  ASSUME Inv, NEW t \in Threads, PlaceReserve(t), pc'[t] = "hold" PROVE Inv'
<1>0. /\ TypeOK /\ LocalInv /\ ReserveInv /\ CountInv /\ HolderInv /\ SentinelInv /\ PinInv
      /\ EpochInv /\ LocInv /\ ClaimInv /\ WarmInv /\ CompletionInv
  BY DEF Inv
<1>c. /\ t \in Threads /\ Workers \cap Schedulers = {} /\ Workers \subseteq Threads /\ None \notin Processes
      /\ EMPTY \notin Processes /\ RESERVED \notin Processes /\ EMPTY # RESERVED
  BY Constants DEF Threads
<1>k. job[t] \in Processes /\ (t \in Workers => ~me[t].entered)
      /\ state[job[t]] # "SUSPENDED" /\ ret[t] \in {"wake", "rewake", "reclaim_wake"}
  <2>1. /\ JobOK(t) /\ (t \in Workers => LocalOK(t))
        /\ ret[t] \in {"wake", "rewake", "reclaim_wake"}
    BY <1>0, <1>c DEF LocalInv, TypeOK
  <2>. QED
    BY <2>1, <1>c
    DEF PlaceReserve, Goto, JobOK, PlacePcs, SchedulePcs, LocalOK, Draining, Owning, OwnerPcs,
       Departed, DrainPcs, WarmPcs
<1>1. /\ t \in Threads /\ pc[t] = "place" /\ pc'[t] = "hold"
      /\ pc' \in [Threads -> Pcs]
      /\ \A u \in Threads : u # t => pc'[u] = pc[u]
      /\ me' = me
      /\ slotProcess' \in [Slots -> Processes \cup {EMPTY, RESERVED}]
      /\ probe[t] \in Slots /\ slotProcess[probe[t]] = EMPTY /\ slotProcess' = [slotProcess EXCEPT ![probe[t]] = RESERVED]
      /\ UNCHANGED <<client, state, scheduleState, needsDrain, retainDrain, placementEpoch,
                     placements, releasePending, retentionEpoch, warmRetainers, slotEpoch,
                     slotBudget, generation, drainers, sentinel, completionClaimed, overflow,
                     work, regionsLeft, closing, completions, releases, callsLeft, rescan,
                     todo, job, probe, ret>>
  <2>1. probe[t] \in Slots
    BY <1>0, <1>c DEF TypeOK
  <2>. QED
    BY <1>0, <1>c, <2>1
    DEF PlaceReserve, Free, Goto, TypeOK, Pcs, SchedulePcs, processVars, slotVars, clientVars,
       callVars, scanVars
<1>2. Slots' = Slots /\ Locals' = Locals
  BY <1>1 DEF Slots, Locals
<1>s. /\ slotProcess'[probe[t]] = RESERVED /\ slotProcess[probe[t]] = EMPTY
      /\ \A s \in Slots : s # probe[t] => slotProcess'[s] = slotProcess[s]
      /\ \A s \in Slots, p \in Processes : slotProcess'[s] = p <=> slotProcess[s] = p
  BY <1>0, <1>c, <1>1 DEF TypeOK
<1>3. TypeOK'
  BY <1>0, <1>c, <1>1, <1>2, <1>k, <1>s, ClientFacts DEF TypeOK, Locals
<1>4. LocalInv'
  <2>1. ASSUME NEW v \in Workers PROVE LocalOK(v)'
    <3>1. LocalOK(v)
      BY <1>0 DEF LocalInv
    <3>. QED
      BY <1>0, <1>c, <1>1, <1>2, <1>k, <1>s, <3>1
      DEF LocalOK, Draining, Owning, OwnerPcs, Departed, DrainPcs, SchedulePcs, WarmPcs
  <2>2. ASSUME NEW u \in Threads PROVE JobOK(u)'
    <3>1. JobOK(u) /\ ret[u] \in {"wake", "rewake", "reclaim_wake"}
      BY <1>0 DEF LocalInv, TypeOK
    <3>. QED
      BY <1>0, <1>c, <1>1, <1>2, <1>k, <1>s, <3>1 DEF JobOK, PlacePcs, SchedulePcs
  <2>. QED
    BY <2>1, <2>2 DEF LocalInv
<1>5. ReserveInv'
  <2>1. ASSUME NEW u \in Threads, pc'[u] \in {"hold", "fill"}
        PROVE  slotProcess'[probe[u]] = RESERVED
    BY <1>0, <1>c, <1>1, <1>2, <1>k, <1>s, <2>1 DEF ReserveInv, TypeOK
  <2>2. ASSUME NEW u \in Threads, NEW v \in Threads, pc'[u] \in {"hold", "fill"},
               pc'[v] \in {"hold", "fill"}, probe[u] = probe[v]
        PROVE  u = v
    BY <1>0, <1>c, <1>1, <1>2, <1>k, <1>s, <2>2 DEF ReserveInv
  <2>. QED
    BY <1>0, <1>c, <1>1, <1>2, <1>k, <1>s, <2>1, <2>2 DEF ReserveInv
<1>6. CountInv'
  BY <1>0, <1>c, <1>1, <1>2, <1>k, <1>s, CountFramed
  DEF CountFrame, Registered, Draining, DrainPcs, SchedulePcs
<1>7. HolderInv' /\ SentinelInv'
  BY <1>0, <1>c, <1>1, <1>2, <1>k, <1>s, HolderFramed
  DEF HolderFrame, Holding, OwnerPcs, WarmPcs, Draining, DrainPcs, SchedulePcs
<1>8. PinInv'
  <2>1. ASSUME NEW v \in Workers
        PROVE  (/\ Draining(v) \/ Owning(v) \/ pc[v] \in WarmPcs => slotProcess[me[v].slot] = me[v].process
                /\ pc[v] \in WarmPcs \/ (Owning(v) /\ me[v].entered) => me[v].gen = generation[me[v].slot])'
    <3>1. LocalOK(v) /\ me[v].slot \in Slots
      BY <1>0 DEF LocalInv, TypeOK
    <3>2. /\ Draining(v)' <=> Draining(v)
          /\ Owning(v)' <=> Owning(v)
          /\ pc'[v] \in WarmPcs <=> pc[v] \in WarmPcs
      BY <1>0, <1>c, <1>1, <1>2, <1>k, <1>s
      DEF Draining, Owning, OwnerPcs, WarmPcs, DrainPcs, SchedulePcs
    <3>. QED
      BY <1>0, <1>c, <1>1, <1>2, <1>k, <1>s, <3>1, <3>2 DEF PinInv, LocalOK
  <2>2. ASSUME NEW v \in Workers, pc'[v] = "final"
        PROVE  (/\ me[v].gen <= generation[me[v].slot]
                /\ me[v].gen = generation[me[v].slot] =>
                     slotProcess[me[v].slot] = me[v].process \/ Resetting(me[v].slot))'
    <3>1. LocalOK(v) /\ me[v].slot \in Slots /\ pc[v] = "final"
      BY <1>0, <1>c, <1>1, <1>2, <1>k, <1>s, <2>2 DEF LocalInv, TypeOK
    <3>2. Resetting(me[v].slot) => Resetting(me[v].slot)'
      BY <1>0, <1>c, <1>1, <1>2, <1>k, <1>s DEF Resetting
    <3>. QED
      BY <1>0, <1>c, <1>1, <1>2, <1>k, <1>s, <3>1, <3>2 DEF PinInv, LocalOK
  <2>3. ASSUME NEW s \in Slots, slotProcess'[s] \in Processes
        PROVE  slotEpoch'[s] = placementEpoch'[slotProcess'[s]] \/ Clearing(s)'
    <3>1. Clearing(s) => Clearing(s)'
      BY <1>0, <1>c, <1>1, <1>2, <1>k, <1>s DEF Clearing
    <3>. QED
      BY <1>0, <1>c, <1>1, <1>2, <1>k, <1>s, <2>3, <3>1 DEF PinInv
  <2>. QED
    BY <1>2, <2>1, <2>2, <2>3 DEF PinInv
<1>9. EpochInv'
  BY <1>0, <1>c, <1>1, <1>2, <1>k, <1>s, EpochFramed DEF EpochFrame, Departed, SchedulePcs
<1>10. LocInv'
  <2>1. ASSUME NEW p \in Processes PROVE LocOK(p)'
    <3>1. LocOK(p)
      BY <1>0 DEF LocInv
    <3>2. /\ \A u \in Threads : Places(u, p)' <=> Places(u, p)
          /\ \A v \in Workers : Leaves(v, p)' <=> Leaves(v, p)
          /\ InSlot(p)' <=> InSlot(p)
          /\ Terminal(p)' <=> Terminal(p)
      BY <1>0, <1>c, <1>1, <1>2, <1>k, <1>s
      DEF Places, Leaves, Leaving, StillOurs, InSlot, Terminal, PlacePcs, SchedulePcs
    <3>3. (OnItsWay(p)' <=> OnItsWay(p)) /\ (InHand(p)' <=> InHand(p))
      BY <3>2 DEF OnItsWay, InHand
    <3>. QED
      BY <1>0, <1>c, <1>1, <1>2, <1>k, <1>s, <3>1, <3>2, <3>3 DEF LocOK
  <2>2. ASSUME NEW v \in Workers
        PROVE  (/\ pc[v] = "clear" \/ Leaving(v) => (Terminal(me[v].process) => me[v].terminal)
                /\ pc[v] = "idle" => StillOurs(v) /\ ~me[v].terminal)'
    BY <1>0, <1>c, <1>1, <1>2, <1>k, <1>s DEF LocInv, Leaving, StillOurs, Terminal, SchedulePcs
  <2>. QED
    BY <2>1, <2>2 DEF LocInv
<1>11. ClaimInv'
  <2>1. ASSUME NEW p \in Processes
        PROVE  /\ (Filling(p)' <=> Filling(p)) /\ (InSlot(p)' <=> InSlot(p))
               /\ DepartedFrom(p)' = DepartedFrom(p) /\ (Done(p)' <=> Done(p))
    BY <1>0, <1>c, <1>1, <1>2, <1>k, <1>s
    DEF Filling, InSlot, DepartedFrom, Departed, SchedulePcs, Done, Terminal
  <2>2. ASSUME NEW p \in Processes PROVE ClaimOK(p)'
    BY <1>0, <1>c, <1>1, <1>2, <1>k, <1>s, <2>1 DEF ClaimInv, ClaimOK
  <2>3. ASSUME NEW v \in Workers, Departed(v)', me[v].terminal PROVE Done(me[v].process)'
    <3>1. Departed(v) /\ me[v].process \in Processes
      BY <1>0, <1>c, <1>1, <1>2, <1>k, <1>s, <2>3 DEF LocalInv, LocalOK, Departed, SchedulePcs
    <3>. QED
      BY <1>0, <1>c, <1>1, <1>2, <1>k, <1>s, <2>1, <2>3, <3>1 DEF ClaimInv
  <2>. QED
    BY <1>0, <1>c, <1>1, <1>2, <1>k, <1>s, <2>2, <2>3 DEF ClaimInv
<1>12. WarmInv'
  BY <1>0, <1>c, <1>1, <1>2, <1>k, <1>s, WarmFramed
  DEF WarmInv, WarmFrame, Warming, OwnerPcs, WarmPcs
<1>13. CompletionInv'
  <2>1. /\ \A s \in Slots : (Completing(s)' <=> Completing(s)) /\ (Resetting(s)' <=> Resetting(s))
        /\ \A p \in Processes : (Resolving(p)' <=> Resolving(p)) /\ (Terminal(p)' <=> Terminal(p))
    BY <1>0, <1>c, <1>1, <1>2, <1>k, <1>s DEF Completing, Resetting, Resolving, Terminal
  <2>2. ASSUME NEW v \in Workers
        PROVE  /\ pc'[v] = "complete" <=> pc[v] = "complete"
               /\ Draining(v)' <=> Draining(v)
               /\ Owning(v)' <=> Owning(v)
               /\ pc'[v] \in WarmPcs \cup {"final"} <=> pc[v] \in WarmPcs \cup {"final"}
               /\ pc'[v] = "claim" <=> pc[v] = "claim"
    BY <1>0, <1>c, <1>1, <1>2, <1>k, <1>s
    DEF Draining, Owning, OwnerPcs, WarmPcs, DrainPcs, SchedulePcs
  <2>3. ASSUME NEW s \in Slots
        PROVE  (/\ completionClaimed[s] /\ ~Resetting(s) =>
                     slotProcess[s] \in Processes /\ (completions[slotProcess[s]] = 1 \/ Completing(s))
                /\ slotProcess[s] \in Processes =>
                     /\ completions[slotProcess[s]] = 1 \/ Completing(s) => completionClaimed[s]
                     /\ Resetting(s) => ~Terminal(slotProcess[s]))'
    BY <1>0, <1>c, <1>1, <1>2, <1>k, <1>s, <2>1 DEF CompletionInv
  <2>4. ASSUME NEW v \in Workers
        PROVE  (/\ pc[v] = "complete" =>
                     /\ completions[me[v].process] = 0
                     /\ \A u \in Workers : pc[u] = "complete" /\ me[u].slot = me[v].slot => u = v
                /\ Draining(v) /\ me[v].terminal /\ pc[v] # "claim" => completionClaimed[me[v].slot]
                /\ (Owning(v) \/ pc[v] \in WarmPcs \cup {"final"}) /\ me[v].terminal =>
                     completions[me[v].process] = 1)'
    BY <1>0, <1>c, <1>1, <1>2, <1>k, <1>s, <2>2 DEF CompletionInv
  <2>5. ASSUME NEW p \in Processes
        PROVE  (/\ completions[p] \in {0, 1} /\ (completions[p] = 1 => Terminal(p))
                /\ Terminal(p) /\ completions[p] = 0 => Resolving(p)
                /\ completions[p] = 0 /\ client.dependent[p] # None =>
                     state[client.dependent[p]] = "SUSPENDED")'
    BY <1>0, <1>c, <1>1, <1>2, <1>k, <1>s, <2>1 DEF CompletionInv
  <2>. QED
    BY <1>2, <2>3, <2>4, <2>5 DEF CompletionInv
<1>. QED
  BY <1>3, <1>4, <1>5, <1>6, <1>7, <1>8, <1>9, <1>10, <1>11, <1>12, <1>13 DEF Inv

LEMMA PlaceHoldKeeps ==
  ASSUME Inv, NEW t \in Threads, PlaceHold(t) PROVE Inv'
<1>0. /\ TypeOK /\ LocalInv /\ ReserveInv /\ CountInv /\ HolderInv /\ SentinelInv /\ PinInv
      /\ EpochInv /\ LocInv /\ ClaimInv /\ WarmInv /\ CompletionInv
  BY DEF Inv
<1>c. /\ t \in Threads /\ Workers \cap Schedulers = {} /\ Workers \subseteq Threads /\ None \notin Processes
      /\ EMPTY \notin Processes /\ RESERVED \notin Processes /\ EMPTY # RESERVED
  BY Constants DEF Threads
<1>k. job[t] \in Processes /\ (t \in Workers => ~me[t].entered)
      /\ state[job[t]] # "SUSPENDED" /\ ret[t] \in {"wake", "rewake", "reclaim_wake"}
  <2>1. /\ JobOK(t) /\ (t \in Workers => LocalOK(t))
        /\ ret[t] \in {"wake", "rewake", "reclaim_wake"}
    BY <1>0, <1>c DEF LocalInv, TypeOK
  <2>. QED
    BY <2>1, <1>c
    DEF PlaceHold, Goto, JobOK, PlacePcs, SchedulePcs, LocalOK, Draining, Owning, OwnerPcs,
       Departed, DrainPcs, WarmPcs
<1>1. /\ t \in Threads /\ pc[t] = "hold" /\ pc'[t] = "fill"
      /\ pc' \in [Threads -> Pcs]
      /\ \A u \in Threads : u # t => pc'[u] = pc[u]
      /\ me' = me
      /\ placements' \in [Processes -> Nat] /\ placementEpoch' \in [Processes -> Nat]
      /\ placements' = [placements EXCEPT ![job[t]] = @ + 1]
      /\ placementEpoch' = [placementEpoch EXCEPT ![job[t]] = @ + 1]
      /\ UNCHANGED <<client, state, scheduleState, needsDrain, retainDrain, releasePending,
                     retentionEpoch, warmRetainers, slotProcess, slotEpoch, slotBudget,
                     generation, drainers, sentinel, completionClaimed, overflow, work,
                     regionsLeft, closing, completions, releases, callsLeft, rescan, todo, job,
                     probe, ret>>
  BY <1>0, <1>c, <1>k
  DEF PlaceHold, Goto, TypeOK, Pcs, SchedulePcs, DrainPcs, WarmPcs, ReleasePcs, processVars,
     slotVars, clientVars, callVars, scanVars
<1>2. Slots' = Slots /\ Locals' = Locals
  BY <1>1 DEF Slots, Locals
<1>h. /\ ~InSlot(job[t]) /\ ~OnItsWay(job[t]) /\ job[t] \notin overflow /\ ~Terminal(job[t])
      /\ scheduleState[job[t]] # "IDLE"
      /\ \A u \in Threads : Places(u, job[t]) => u = t
      /\ \A s \in Slots : slotProcess[s] # job[t]
  <2>1. Places(t, job[t])
    BY <1>1 DEF Places, PlacePcs
  <2>. QED
    BY <1>k, <2>1, Carried
<1>e. /\ placementEpoch'[job[t]] = placementEpoch[job[t]] + 1 /\ placementEpoch[job[t]] \in Nat
      /\ placements'[job[t]] = placements[job[t]] + 1
      /\ \A p \in Processes : p # job[t] =>
           placementEpoch'[p] = placementEpoch[p] /\ placements'[p] = placements[p]
  BY <1>0, <1>k, <1>1 DEF TypeOK
<1>3. TypeOK'
  BY <1>0, <1>c, <1>1, <1>2, <1>k, <1>h, <1>e, ClientFacts DEF TypeOK, Locals
<1>4. LocalInv'
  <2>1. ASSUME NEW v \in Workers PROVE LocalOK(v)'
    <3>1. LocalOK(v)
      BY <1>0 DEF LocalInv
    <3>. QED
      BY <1>0, <1>c, <1>1, <1>2, <1>k, <1>h, <1>e, <3>1
      DEF LocalOK, Draining, Owning, OwnerPcs, Departed, DrainPcs, SchedulePcs, WarmPcs
  <2>2. ASSUME NEW u \in Threads PROVE JobOK(u)'
    <3>1. JobOK(u) /\ ret[u] \in {"wake", "rewake", "reclaim_wake"}
      BY <1>0 DEF LocalInv, TypeOK
    <3>. QED
      BY <1>0, <1>c, <1>1, <1>2, <1>k, <1>h, <1>e, <3>1 DEF JobOK, PlacePcs, SchedulePcs
  <2>. QED
    BY <2>1, <2>2 DEF LocalInv
<1>5. ReserveInv'
  BY <1>0, <1>c, <1>1, <1>2, <1>k, <1>h, <1>e, ReserveFramed DEF ReserveFrame
<1>6. CountInv'
  BY <1>0, <1>c, <1>1, <1>2, <1>k, <1>h, <1>e, CountFramed
  DEF CountFrame, Registered, Draining, DrainPcs, SchedulePcs
<1>7. HolderInv' /\ SentinelInv'
  BY <1>0, <1>c, <1>1, <1>2, <1>k, <1>h, <1>e, HolderFramed
  DEF HolderFrame, Holding, OwnerPcs, WarmPcs, Draining, DrainPcs, SchedulePcs
<1>8. PinInv'
  <2>1. ASSUME NEW v \in Workers
        PROVE  /\ Draining(v)' <=> Draining(v)
               /\ Owning(v)' <=> Owning(v)
               /\ pc'[v] \in WarmPcs <=> pc[v] \in WarmPcs
               /\ pc'[v] = "final" <=> pc[v] = "final"
    BY <1>0, <1>c, <1>1, <1>2, <1>k, <1>h, <1>e
    DEF Draining, Owning, OwnerPcs, WarmPcs, DrainPcs, SchedulePcs
  <2>2. \A s \in Slots : (Resetting(s)' <=> Resetting(s)) /\ (Clearing(s)' <=> Clearing(s))
    BY <1>0, <1>c, <1>1, <1>2, <1>k, <1>h, <1>e DEF Resetting, Clearing
  <2>3. ASSUME NEW s \in Slots, slotProcess[s] \in Processes
        PROVE  slotEpoch[s] = placementEpoch'[slotProcess[s]] \/ Clearing(s)'
    BY <1>0, <1>c, <1>1, <1>2, <1>k, <1>h, <1>e, <2>2, <2>3 DEF PinInv
  <2>4. ASSUME NEW v \in Workers
        PROVE  /\ me[v].slot \in Slots
               /\ Draining(v)' \/ Owning(v)' \/ pc'[v] \in WarmPcs => slotProcess[me[v].slot] = me[v].process
               /\ pc'[v] \in WarmPcs \/ (Owning(v)' /\ me[v].entered) => me[v].gen = generation[me[v].slot]
               /\ pc'[v] = "final" =>
                    /\ me[v].gen <= generation[me[v].slot]
                    /\ me[v].gen = generation[me[v].slot] =>
                         slotProcess[me[v].slot] = me[v].process \/ Resetting(me[v].slot)
    BY <1>0, <1>c, <1>1, <1>2, <1>k, <1>h, <1>e, <2>1 DEF PinInv, TypeOK
  <2>5. \A v \in Workers : Resetting(me[v].slot)' <=> Resetting(me[v].slot)
    BY <1>0, <1>c, <1>1, <1>2, <1>k, <1>h, <1>e DEF Resetting
  <2>. QED
    BY <1>0, <1>c, <1>1, <1>2, <1>k, <1>h, <1>e, <2>3, <2>4, <2>5 DEF PinInv
<1>9. EpochInv'
  <2>1. ASSUME NEW v \in Workers
        PROVE  (/\ pc[v] = "clear" => me[v].epoch = placementEpoch[me[v].process]
                /\ Departed(v) => me[v].epoch <= placementEpoch[me[v].process])'
    <3>1. LocalOK(v) /\ me[v].slot \in Slots /\ me[v].epoch \in Nat
      BY <1>0 DEF LocalInv, TypeOK
    <3>2. CASE pc'[v] = "clear"
      <4>1. pc[v] = "clear" /\ Owning(v) /\ ~Departed(v)'
        BY <1>0, <1>c, <1>1, <1>2, <1>k, <1>h, <1>e, <3>2
        DEF Owning, OwnerPcs, Departed, SchedulePcs
      <4>2. me[v].process \in Processes /\ slotProcess[me[v].slot] = me[v].process
        BY <1>0, <1>c, <1>1, <1>2, <1>k, <1>h, <1>e, <3>1, <4>1 DEF LocalOK, PinInv
      <4>. QED
        BY <1>0, <1>c, <1>1, <1>2, <1>k, <1>h, <1>e, <3>1, <4>1, <4>2 DEF EpochInv
    <3>3. CASE Departed(v)'
      <4>1. Departed(v) /\ pc'[v] # "clear"
        BY <1>0, <1>c, <1>1, <1>2, <1>k, <1>h, <1>e, <3>3 DEF Departed, SchedulePcs
      <4>2. me[v].process \in Processes /\ me[v].epoch <= placementEpoch[me[v].process]
        BY <1>0, <1>c, <1>1, <1>2, <1>k, <1>h, <1>e, <3>1, <4>1 DEF LocalOK, EpochInv
      <4>. QED
        BY <1>0, <1>c, <1>1, <1>2, <1>k, <1>h, <1>e, <3>1, <4>1, <4>2 DEF TypeOK
    <3>. QED
      BY <3>2, <3>3
  <2>. QED
    BY <2>1 DEF EpochInv
<1>10. LocInv'
  <2>1. ASSUME NEW v \in Workers, Leaving(v)' PROVE Leaving(v)
    <3>1. Departed(v) /\ LocalOK(v) /\ me[v].epoch \in Nat
      BY <1>0, <1>c, <1>1, <1>2, <1>k, <1>h, <1>e, <2>1
      DEF Leaving, Departed, SchedulePcs, LocalInv, TypeOK
    <3>2. me[v].process \in Processes /\ me[v].epoch <= placementEpoch[me[v].process]
      BY <1>0, <1>c, <1>1, <1>2, <1>k, <1>h, <1>e, <3>1 DEF LocalOK, EpochInv
    <3>3. me[v].process # job[t]
      BY <1>0, <1>c, <1>1, <1>2, <1>k, <1>h, <1>e, <2>1, <3>1, <3>2 DEF Leaving, StillOurs
    <3>. QED
      BY <1>0, <1>c, <1>1, <1>2, <1>k, <1>h, <1>e, <2>1, <3>2, <3>3
      DEF Leaving, StillOurs, SchedulePcs
  <2>2. ASSUME NEW v \in Workers, pc'[v] = "idle" PROVE (StillOurs(v) /\ ~me[v].terminal)'
    <3>1. pc[v] = "idle" /\ LocalOK(v) /\ StillOurs(v) /\ ~me[v].terminal
      BY <1>0, <1>c, <1>1, <1>2, <1>k, <1>h, <1>e, <2>2 DEF LocalInv, LocInv
    <3>2. Leaving(v) /\ me[v].process \in Processes
      BY <3>1 DEF Leaving, LocalOK, Departed
    <3>3. me[v].process # job[t]
      BY <1>h, <3>2 DEF OnItsWay, Leaves
    <3>. QED
      BY <1>0, <1>c, <1>1, <1>2, <1>k, <1>h, <1>e, <3>1, <3>2, <3>3 DEF StillOurs
  <2>. QED
    BY <1>0, <1>c, <1>1, <1>2, <1>k, <1>h, <1>e, <2>1, <2>2, LocFramed DEF LocFrame, PlacePcs
<1>11. ClaimInv'
  <2>1. ASSUME NEW p \in Processes
        PROVE  /\ Filling(p)' <=> Filling(p) \/ p = job[t]
               /\ InSlot(p)' <=> InSlot(p)
               /\ DepartedFrom(p)' = DepartedFrom(p)
               /\ Done(p)' <=> Done(p)
    BY <1>0, <1>c, <1>1, <1>2, <1>k, <1>h, <1>e
    DEF Filling, InSlot, DepartedFrom, Departed, SchedulePcs, Done, Terminal
  <2>2. ~Filling(job[t])
    BY <1>0, <1>c, <1>1, <1>2, <1>k, <1>h, <1>e DEF Filling, Places, PlacePcs
  <2>3. ASSUME NEW p \in Processes PROVE ClaimOK(p)'
    <3>1. ClaimOK(p) /\ Cardinality(DepartedFrom(p)) \in Nat
      BY <1>0, Counts DEF ClaimInv, DepartedFrom
    <3>2. CASE p = job[t]
      <4>1. ~releasePending[p] /\ releases[p] # 1
        BY <1>0, <1>c, <1>1, <1>2, <1>k, <1>h, <1>e, <3>1, <3>2 DEF ClaimOK, Done
      <4>. QED
        BY <1>0, <1>c, <1>1, <1>2, <1>k, <1>h, <1>e, <2>1, <2>2, <3>1, <3>2, <4>1 DEF ClaimOK
    <3>3. CASE p # job[t]
      BY <1>0, <1>c, <1>1, <1>2, <1>k, <1>h, <1>e, <2>1, <3>1, <3>3 DEF ClaimOK
    <3>. QED
      BY <3>2, <3>3
  <2>4. ASSUME NEW v \in Workers, Departed(v)', me[v].terminal PROVE Done(me[v].process)'
    <3>1. Departed(v) /\ me[v].process \in Processes
      BY <1>0, <1>c, <1>1, <1>2, <1>k, <1>h, <1>e, <2>4
      DEF LocalInv, LocalOK, Departed, SchedulePcs
    <3>. QED
      BY <1>0, <1>c, <1>1, <1>2, <1>k, <1>h, <1>e, <2>1, <2>4, <3>1 DEF ClaimInv
  <2>. QED
    BY <1>0, <1>c, <1>1, <1>2, <1>k, <1>h, <1>e, <2>3, <2>4 DEF ClaimInv
<1>12. WarmInv'
  BY <1>0, <1>c, <1>1, <1>2, <1>k, <1>h, <1>e, WarmFramed
  DEF WarmInv, WarmFrame, Warming, OwnerPcs, WarmPcs
<1>13. CompletionInv'
  BY <1>0, <1>c, <1>1, <1>2, <1>k, <1>h, <1>e, CompletionFramed
  DEF CompletionInv, CompletionFrame, Owning, OwnerPcs, WarmPcs, Draining, DrainPcs, SchedulePcs
<1>. QED
  BY <1>3, <1>4, <1>5, <1>6, <1>7, <1>8, <1>9, <1>10, <1>11, <1>12, <1>13 DEF Inv

LEMMA PlaceOverflowKeeps ==
  ASSUME Inv, NEW t \in Threads, PlaceOverflow(t) PROVE Inv'
<1>0. /\ TypeOK /\ LocalInv /\ ReserveInv /\ CountInv /\ HolderInv /\ SentinelInv /\ PinInv
      /\ EpochInv /\ LocInv /\ ClaimInv /\ WarmInv /\ CompletionInv
  BY DEF Inv
<1>c. /\ t \in Threads /\ Workers \cap Schedulers = {} /\ Workers \subseteq Threads /\ None \notin Processes
      /\ EMPTY \notin Processes /\ RESERVED \notin Processes /\ EMPTY # RESERVED
  BY Constants DEF Threads
<1>k. job[t] \in Processes /\ (t \in Workers => ~me[t].entered)
      /\ state[job[t]] # "SUSPENDED" /\ ret[t] \in {"wake", "rewake", "reclaim_wake"}
  <2>1. /\ JobOK(t) /\ (t \in Workers => LocalOK(t))
        /\ ret[t] \in {"wake", "rewake", "reclaim_wake"}
    BY <1>0, <1>c DEF LocalInv, TypeOK
  <2>. QED
    BY <2>1, <1>c
    DEF PlaceOverflow, Goto, JobOK, PlacePcs, SchedulePcs, LocalOK, Draining, Owning, OwnerPcs,
       Departed, DrainPcs, WarmPcs
<1>1. /\ t \in Threads /\ pc[t] = "overflow" /\ pc'[t] \in {"wake", "rewake", "reclaim_wake"}
      /\ pc' \in [Threads -> Pcs]
      /\ \A u \in Threads : u # t => pc'[u] = pc[u]
      /\ me' = me
      /\ pc'[t] = ret[t]
      /\ job' \in [Threads -> Processes \cup {None}] /\ (\A u \in Threads : u # t => job'[u] = job[u])
      /\ (ret[t] = "wake" => job'[t] = job[t])
      /\ probe' \in [Threads -> Slots] /\ \A u \in Threads : u # t => probe'[u] = probe[u]
      /\ overflow' = overflow \cup {job[t]}
      /\ UNCHANGED <<client, state, scheduleState, needsDrain, retainDrain, placementEpoch,
                     placements, releasePending, retentionEpoch, warmRetainers, slotProcess,
                     slotEpoch, slotBudget, generation, drainers, sentinel, completionClaimed,
                     work, regionsLeft, closing, completions, releases, callsLeft, rescan,
                     todo, ret>>
  <2>1. pc'[t] = ret[t] /\ pc[t] = "overflow" /\ pc' \in [Threads -> Pcs]
        /\ \A u \in Threads : u # t => pc'[u] = pc[u]
    BY <1>0, <1>c, <1>k DEF PlaceOverflow, Goto, TypeOK, Pcs, SchedulePcs, ReleasePcs
  <2>2. /\ job' \in [Threads -> Processes \cup {None}] /\ (\A u \in Threads : u # t => job'[u] = job[u])
        /\ (ret[t] = "wake" => job'[t] = job[t])
    BY <1>0, <1>c, <1>k DEF PlaceOverflow, DropJob, TypeOK
  <2>3. probe' \in [Threads -> Slots] /\ \A u \in Threads : u # t => probe'[u] = probe[u]
    BY <1>0, <1>c, ClientFacts DEF PlaceOverflow, TypeOK
  <2>4. pc'[t] \in {"wake", "rewake", "reclaim_wake"}
    BY <1>k, <2>1
  <2>. QED
    BY <1>c, <2>1, <2>2, <2>3, <2>4
    DEF PlaceOverflow, processVars, slotVars, clientVars, callVars, scanVars
<1>2. Slots' = Slots /\ Locals' = Locals
  BY <1>1 DEF Slots, Locals
<1>h. /\ ~InSlot(job[t]) /\ ~OnItsWay(job[t]) /\ job[t] \notin overflow /\ ~Terminal(job[t])
      /\ scheduleState[job[t]] # "IDLE"
      /\ \A u \in Threads : Places(u, job[t]) => u = t
      /\ \A s \in Slots : slotProcess[s] # job[t]
  <2>1. Places(t, job[t])
    BY <1>1 DEF Places, PlacePcs
  <2>. QED
    BY <1>k, <2>1, Carried
<1>3. TypeOK'
  BY <1>0, <1>c, <1>1, <1>2, <1>k, <1>h, ClientFacts DEF TypeOK, Locals
<1>4. LocalInv'
  <2>1. ASSUME NEW v \in Workers PROVE LocalOK(v)'
    <3>1. LocalOK(v)
      BY <1>0 DEF LocalInv
    <3>. QED
      BY <1>0, <1>c, <1>1, <1>2, <1>k, <1>h, <3>1
      DEF LocalOK, Draining, Owning, OwnerPcs, Departed, DrainPcs, SchedulePcs, WarmPcs
  <2>2. ASSUME NEW u \in Threads PROVE JobOK(u)'
    <3>1. JobOK(u) /\ ret[u] \in {"wake", "rewake", "reclaim_wake"}
      BY <1>0 DEF LocalInv, TypeOK
    <3>. QED
      BY <1>0, <1>c, <1>1, <1>2, <1>k, <1>h, <3>1 DEF JobOK, PlacePcs, SchedulePcs
  <2>. QED
    BY <2>1, <2>2 DEF LocalInv
<1>5. ReserveInv'
  BY <1>0, <1>c, <1>1, <1>2, <1>k, <1>h, ReserveFramed DEF ReserveFrame
<1>6. CountInv'
  BY <1>0, <1>c, <1>1, <1>2, <1>k, <1>h, CountFramed
  DEF CountFrame, Registered, Draining, DrainPcs, SchedulePcs
<1>7. HolderInv' /\ SentinelInv'
  BY <1>0, <1>c, <1>1, <1>2, <1>k, <1>h, HolderFramed
  DEF HolderFrame, Holding, OwnerPcs, WarmPcs, Draining, DrainPcs, SchedulePcs
<1>8. PinInv'
  BY <1>0, <1>c, <1>1, <1>2, <1>k, <1>h, PinFramed
  DEF PinFrame, Owning, OwnerPcs, WarmPcs, Draining, DrainPcs, SchedulePcs
<1>9. EpochInv'
  BY <1>0, <1>c, <1>1, <1>2, <1>k, <1>h, EpochFramed DEF EpochFrame, Departed, SchedulePcs
<1>10. LocInv'
  <2>1. ASSUME NEW p \in Processes PROVE LocOK(p)'
    <3>1. LocOK(p)
      BY <1>0 DEF LocInv
    <3>2. /\ \A u \in Threads : Places(u, p)' <=> Places(u, p) /\ u # t
          /\ \A v \in Workers : Leaves(v, p)' => Leaves(v, p)
          /\ InSlot(p)' <=> InSlot(p)
          /\ Terminal(p)' <=> Terminal(p)
          /\ p \in overflow' <=> p \in overflow \/ p = job[t]
      BY <1>0, <1>c, <1>1, <1>2, <1>k, <1>h
      DEF Places, Leaves, Leaving, StillOurs, InSlot, Terminal, PlacePcs, SchedulePcs
    <3>3. (OnItsWay(p)' => OnItsWay(p)) /\ (InHand(p)' => InHand(p))
      BY <3>2 DEF OnItsWay, InHand
    <3>4. p = job[t] => ~InHand(p)'
      BY <1>h, <3>2 DEF InHand
    <3>. QED
      BY <1>0, <1>c, <1>1, <1>2, <1>k, <1>h, <3>1, <3>2, <3>3, <3>4 DEF LocOK
  <2>2. ASSUME NEW v \in Workers
        PROVE  (/\ pc[v] = "clear" \/ Leaving(v) => (Terminal(me[v].process) => me[v].terminal)
                /\ pc[v] = "idle" => StillOurs(v) /\ ~me[v].terminal)'
    BY <1>0, <1>c, <1>1, <1>2, <1>k, <1>h DEF LocInv, Leaving, StillOurs, Terminal, SchedulePcs
  <2>. QED
    BY <2>1, <2>2 DEF LocInv
<1>11. ClaimInv'
  BY <1>0, <1>c, <1>1, <1>2, <1>k, <1>h, ClaimFramed DEF ClaimFrame, Departed, SchedulePcs
<1>12. WarmInv'
  BY <1>0, <1>c, <1>1, <1>2, <1>k, <1>h, WarmFramed
  DEF WarmInv, WarmFrame, Warming, OwnerPcs, WarmPcs
<1>13. CompletionInv'
  BY <1>0, <1>c, <1>1, <1>2, <1>k, <1>h, CompletionFramed
  DEF CompletionInv, CompletionFrame, Owning, OwnerPcs, WarmPcs, Draining, DrainPcs, SchedulePcs
<1>. QED
  BY <1>3, <1>4, <1>5, <1>6, <1>7, <1>8, <1>9, <1>10, <1>11, <1>12, <1>13 DEF Inv

LEMMA PlacePublishKeeps ==
  ASSUME Inv, NEW t \in Threads, PlacePublish(t) PROVE Inv'
<1>0. /\ TypeOK /\ LocalInv /\ ReserveInv /\ CountInv /\ HolderInv /\ SentinelInv /\ PinInv
      /\ EpochInv /\ LocInv /\ ClaimInv /\ WarmInv /\ CompletionInv
  BY DEF Inv
<1>c. /\ t \in Threads /\ Workers \cap Schedulers = {} /\ Workers \subseteq Threads /\ None \notin Processes
      /\ EMPTY \notin Processes /\ RESERVED \notin Processes /\ EMPTY # RESERVED
  BY Constants DEF Threads
<1>k. job[t] \in Processes /\ (t \in Workers => ~me[t].entered)
      /\ state[job[t]] # "SUSPENDED" /\ ret[t] \in {"wake", "rewake", "reclaim_wake"}
  <2>1. /\ JobOK(t) /\ (t \in Workers => LocalOK(t))
        /\ ret[t] \in {"wake", "rewake", "reclaim_wake"}
    BY <1>0, <1>c DEF LocalInv, TypeOK
  <2>. QED
    BY <2>1, <1>c
    DEF PlacePublish, Goto, JobOK, PlacePcs, SchedulePcs, LocalOK, Draining, Owning, OwnerPcs,
       Departed, DrainPcs, WarmPcs
<1>1. /\ t \in Threads /\ pc[t] = "fill" /\ pc'[t] \in {"wake", "rewake", "reclaim_wake"}
      /\ pc' \in [Threads -> Pcs]
      /\ \A u \in Threads : u # t => pc'[u] = pc[u]
      /\ me' = me
      /\ pc'[t] = ret[t]
      /\ job' \in [Threads -> Processes \cup {None}] /\ (\A u \in Threads : u # t => job'[u] = job[u])
      /\ (ret[t] = "wake" => job'[t] = job[t])
      /\ probe' \in [Threads -> Slots] /\ \A u \in Threads : u # t => probe'[u] = probe[u]
      /\ slotBudget' \in [Slots -> Nat] /\ slotEpoch' \in [Slots -> Nat]
      /\ slotProcess' \in [Slots -> Processes \cup {EMPTY, RESERVED}]
      /\ slotEpoch' = [slotEpoch EXCEPT ![probe[t]] = placementEpoch[job[t]]]
      /\ slotProcess' = [slotProcess EXCEPT ![probe[t]] = job[t]]
      /\ UNCHANGED <<client, state, scheduleState, needsDrain, retainDrain, placementEpoch,
                     placements, releasePending, retentionEpoch, warmRetainers, generation,
                     drainers, sentinel, completionClaimed, overflow, work, regionsLeft,
                     closing, completions, releases, callsLeft, rescan, todo, ret>>
  <2>1. pc'[t] = ret[t] /\ pc[t] = "fill" /\ pc' \in [Threads -> Pcs]
        /\ \A u \in Threads : u # t => pc'[u] = pc[u]
    BY <1>0, <1>c, <1>k DEF PlacePublish, Goto, TypeOK, Pcs, SchedulePcs, ReleasePcs
  <2>2. /\ job' \in [Threads -> Processes \cup {None}] /\ (\A u \in Threads : u # t => job'[u] = job[u])
        /\ (ret[t] = "wake" => job'[t] = job[t])
    BY <1>0, <1>c, <1>k DEF PlacePublish, DropJob, TypeOK
  <2>3. probe' \in [Threads -> Slots] /\ \A u \in Threads : u # t => probe'[u] = probe[u]
    BY <1>0, <1>c, ClientFacts DEF PlacePublish, TypeOK
  <2>4. pc'[t] \in {"wake", "rewake", "reclaim_wake"}
    BY <1>k, <2>1
  <2>5. /\ slotBudget' \in [Slots -> Nat] /\ slotEpoch' \in [Slots -> Nat]
        /\ slotProcess' \in [Slots -> Processes \cup {EMPTY, RESERVED}]
    BY <1>0, <1>c, <1>k, ClientFacts DEF PlacePublish, TypeOK, Budget
  <2>. QED
    BY <1>c, <2>1, <2>2, <2>3, <2>4, <2>5
    DEF PlacePublish, processVars, slotVars, clientVars, callVars, scanVars
<1>2. Slots' = Slots /\ Locals' = Locals
  BY <1>1 DEF Slots, Locals
<1>h. /\ ~InSlot(job[t]) /\ ~OnItsWay(job[t]) /\ job[t] \notin overflow /\ ~Terminal(job[t])
      /\ scheduleState[job[t]] # "IDLE"
      /\ \A u \in Threads : Places(u, job[t]) => u = t
      /\ \A s \in Slots : slotProcess[s] # job[t]
  <2>1. Places(t, job[t])
    BY <1>1 DEF Places, PlacePcs
  <2>. QED
    BY <1>k, <2>1, Carried
<1>r. slotProcess[probe[t]] = RESERVED /\ probe[t] \in Slots
      /\ \A u \in Threads : pc[u] \in {"hold", "fill"} /\ probe[u] = probe[t] => u = t
  BY <1>0, <1>1 DEF ReserveInv, TypeOK
<1>s. /\ slotProcess'[probe[t]] = job[t] /\ slotEpoch'[probe[t]] = placementEpoch[job[t]]
      /\ \A s \in Slots : s # probe[t] => slotProcess'[s] = slotProcess[s] /\ slotEpoch'[s] = slotEpoch[s]
  BY <1>0, <1>1, <1>r DEF TypeOK
<1>o. ASSUME NEW v \in Workers, Draining(v) \/ Owning(v) \/ pc[v] \in WarmPcs
      PROVE  me[v].slot # probe[t] /\ me[v].slot \in Slots
  BY <1>o, <1>r, <1>c, Housed
<1>p. \A s \in Slots : (Resetting(s)' <=> Resetting(s)) /\ (Clearing(s)' <=> Clearing(s)) /\ (Completing(s)' <=> Completing(s))
  BY <1>1, <1>k, <1>c DEF Resetting, Clearing, Completing
<1>q. ASSUME NEW v \in Workers
      PROVE  /\ Draining(v)' <=> Draining(v)
             /\ Owning(v)' <=> Owning(v)
             /\ Departed(v)' <=> Departed(v)
             /\ Leaving(v)' => Leaving(v)
             /\ pc'[v] \in WarmPcs <=> pc[v] \in WarmPcs
             /\ pc'[v] = "final" <=> pc[v] = "final"
             /\ pc'[v] = "complete" <=> pc[v] = "complete"
             /\ pc'[v] = "claim" <=> pc[v] = "claim"
             /\ pc'[v] = "clear" <=> pc[v] = "clear"
             /\ pc'[v] = "idle" <=> pc[v] = "idle"
  BY <1>1, <1>k, <1>c
  DEF Draining, Owning, OwnerPcs, Departed, Leaving, StillOurs, WarmPcs, DrainPcs, SchedulePcs
<1>3. TypeOK'
  BY <1>0, <1>c, <1>1, <1>2, <1>k, <1>h, <1>r, <1>s, <1>q, ClientFacts DEF TypeOK, Locals
<1>4. LocalInv'
  <2>1. ASSUME NEW v \in Workers PROVE LocalOK(v)'
    <3>1. LocalOK(v)
      BY <1>0 DEF LocalInv
    <3>. QED
      BY <1>0, <1>c, <1>1, <1>2, <1>k, <1>h, <1>r, <1>s, <1>q, <3>1
      DEF LocalOK, Draining, Owning, OwnerPcs, Departed, DrainPcs, SchedulePcs, WarmPcs
  <2>2. ASSUME NEW u \in Threads PROVE JobOK(u)'
    <3>1. JobOK(u) /\ ret[u] \in {"wake", "rewake", "reclaim_wake"}
      BY <1>0 DEF LocalInv, TypeOK
    <3>. QED
      BY <1>0, <1>c, <1>1, <1>2, <1>k, <1>h, <1>r, <1>s, <1>q, <3>1
      DEF JobOK, PlacePcs, SchedulePcs
  <2>. QED
    BY <2>1, <2>2 DEF LocalInv
<1>5. ReserveInv'
  <2>1. ASSUME NEW u \in Threads, pc'[u] \in {"hold", "fill"}
        PROVE  u # t /\ pc[u] \in {"hold", "fill"} /\ probe'[u] = probe[u] /\ probe[u] # probe[t]
    BY <1>0, <1>c, <1>1, <1>2, <1>k, <1>h, <1>r, <1>s, <1>q, <2>1
  <2>2. ASSUME NEW u \in Threads, pc'[u] \in {"hold", "fill"}
        PROVE  slotProcess'[probe'[u]] = RESERVED
    BY <1>0, <1>c, <1>1, <1>2, <1>k, <1>h, <1>r, <1>s, <1>q, <2>1, <2>2 DEF ReserveInv, TypeOK
  <2>3. ASSUME NEW u \in Threads, NEW v \in Threads, pc'[u] \in {"hold", "fill"},
               pc'[v] \in {"hold", "fill"}, probe'[u] = probe'[v]
        PROVE  u = v
    BY <1>0, <2>1, <2>3 DEF ReserveInv
  <2>. QED
    BY <2>2, <2>3 DEF ReserveInv
<1>6. CountInv'
  BY <1>0, <1>c, <1>1, <1>2, <1>k, <1>h, <1>r, <1>s, <1>q, CountFramed
  DEF CountFrame, Registered, Draining, DrainPcs, SchedulePcs
<1>7. HolderInv' /\ SentinelInv'
  BY <1>0, <1>c, <1>1, <1>2, <1>k, <1>h, <1>r, <1>s, <1>q, HolderFramed
  DEF HolderFrame, Holding, OwnerPcs, WarmPcs, Draining, DrainPcs, SchedulePcs
<1>8. PinInv'
  <2>1. ASSUME NEW v \in Workers
        PROVE  (/\ Draining(v) \/ Owning(v) \/ pc[v] \in WarmPcs => slotProcess[me[v].slot] = me[v].process
                /\ pc[v] \in WarmPcs \/ (Owning(v) /\ me[v].entered) => me[v].gen = generation[me[v].slot])'
    BY <1>0, <1>c, <1>1, <1>2, <1>k, <1>h, <1>r, <1>s, <1>q, <1>o DEF PinInv
  <2>2. ASSUME NEW v \in Workers, pc'[v] = "final"
        PROVE  (/\ me[v].gen <= generation[me[v].slot]
                /\ me[v].gen = generation[me[v].slot] =>
                     slotProcess[me[v].slot] = me[v].process \/ Resetting(me[v].slot))'
    <3>1. LocalOK(v) /\ me[v].slot \in Slots /\ pc[v] = "final"
      BY <1>0, <1>c, <1>1, <1>2, <1>k, <1>h, <1>r, <1>s, <1>q, <2>2 DEF LocalInv, TypeOK
    <3>2. Resetting(me[v].slot) => Resetting(me[v].slot)'
      BY <1>0, <1>c, <1>1, <1>2, <1>k, <1>h, <1>r, <1>s, <1>q DEF Resetting
    <3>. QED
      BY <1>0, <1>c, <1>1, <1>2, <1>k, <1>h, <1>r, <1>s, <1>q, <3>1, <3>2 DEF PinInv, LocalOK
  <2>3. ASSUME NEW s \in Slots, slotProcess'[s] \in Processes
        PROVE  slotEpoch'[s] = placementEpoch'[slotProcess'[s]] \/ Clearing(s)'
    BY <1>0, <1>c, <1>1, <1>2, <1>k, <1>h, <1>r, <1>s, <1>q, <1>p, <2>3 DEF PinInv
  <2>. QED
    BY <1>2, <2>1, <2>2, <2>3 DEF PinInv
<1>9. EpochInv'
  BY <1>0, <1>c, <1>1, <1>2, <1>k, <1>h, <1>r, <1>s, <1>q, EpochFramed
  DEF EpochFrame, Departed, SchedulePcs
<1>10. LocInv'
  <2>1. ASSUME NEW p \in Processes PROVE LocOK(p)'
    <3>1. LocOK(p)
      BY <1>0 DEF LocInv
    <3>2. /\ \A u \in Threads : Places(u, p)' <=> Places(u, p) /\ u # t
          /\ \A v \in Workers : Leaves(v, p)' => Leaves(v, p)
          /\ \A s \in Slots : slotProcess'[s] = p <=> slotProcess[s] = p \/ (s = probe[t] /\ p = job[t])
          /\ Terminal(p)' <=> Terminal(p)
      BY <1>0, <1>c, <1>1, <1>2, <1>k, <1>h, <1>r, <1>s, <1>q
      DEF Places, Leaves, Terminal, PlacePcs
    <3>3. (OnItsWay(p)' => OnItsWay(p)) /\ (InHand(p)' => InHand(p))
      BY <3>2 DEF OnItsWay, InHand
    <3>4. CASE p = job[t]
      <4>1. ~InHand(p)' /\ ~OnItsWay(p)' /\ \A s \in Slots : slotProcess'[s] = p => s = probe[t]
        BY <1>h, <3>2, <3>3, <3>4 DEF InHand
      <4>. QED
        BY <1>0, <1>c, <1>1, <1>2, <1>k, <1>h, <1>r, <1>s, <1>q, <3>1, <3>2, <3>3, <3>4, <4>1
        DEF LocOK
    <3>5. CASE p # job[t]
      <4>1. InSlot(p)' <=> InSlot(p)
        BY <1>2, <3>2, <3>5 DEF InSlot
      <4>. QED
        BY <1>0, <1>c, <1>1, <1>2, <1>k, <1>h, <1>r, <1>s, <1>q, <3>1, <3>2, <3>3, <3>5, <4>1
        DEF LocOK
    <3>. QED
      BY <3>4, <3>5
  <2>2. ASSUME NEW v \in Workers
        PROVE  (/\ pc[v] = "clear" \/ Leaving(v) => (Terminal(me[v].process) => me[v].terminal)
                /\ pc[v] = "idle" => StillOurs(v) /\ ~me[v].terminal)'
    BY <1>0, <1>c, <1>1, <1>2, <1>k, <1>h, <1>r, <1>s, <1>q DEF LocInv, StillOurs, Terminal
  <2>. QED
    BY <2>1, <2>2 DEF LocInv
<1>11. ClaimInv'
  <2>0. ASSUME NEW p \in Processes PROVE InSlot(p)' <=> InSlot(p) \/ p = job[t]
    BY <1>2, <1>s, <1>r, <1>h, <1>c DEF InSlot
  <2>1. ASSUME NEW p \in Processes
        PROVE  /\ Filling(p) <=> Filling(p)' \/ p = job[t]
               /\ DepartedFrom(p)' = DepartedFrom(p)
               /\ Terminal(p)' <=> Terminal(p)
               /\ Done(p)' <=> Done(p)
    BY <1>0, <1>c, <1>1, <1>2, <1>k, <1>h, <1>r, <1>s, <1>q, <2>0
    DEF Filling, DepartedFrom, Done, Terminal
  <2>2. \A p \in Processes : p = job[t] => ~Filling(p)'
    BY <1>0, <1>c, <1>1, <1>2, <1>k, <1>h, <1>r, <1>s, <1>q DEF Filling, Places, PlacePcs
  <2>3. ASSUME NEW p \in Processes PROVE ClaimOK(p)'
    <3>1. ClaimOK(p) /\ Cardinality(DepartedFrom(p)) \in Nat
      BY <1>0, Counts DEF ClaimInv, DepartedFrom
    <3>2. CASE p = job[t]
      BY <1>0, <1>c, <1>1, <1>2, <1>k, <1>h, <1>r, <1>s, <1>q, <2>0, <2>1, <2>2, <3>1, <3>2
      DEF ClaimOK
    <3>3. CASE p # job[t]
      BY <1>0, <1>c, <1>1, <1>2, <1>k, <1>h, <1>r, <1>s, <1>q, <2>0, <2>1, <3>1, <3>3 DEF ClaimOK
    <3>. QED
      BY <3>2, <3>3
  <2>4. ASSUME NEW v \in Workers, Departed(v)', me[v].terminal PROVE Done(me[v].process)'
    <3>1. Departed(v) /\ me[v].process \in Processes
      BY <1>0, <1>c, <1>1, <1>2, <1>k, <1>h, <1>r, <1>s, <1>q, <2>4 DEF LocalInv, LocalOK
    <3>. QED
      BY <1>0, <1>c, <1>1, <1>2, <1>k, <1>h, <1>r, <1>s, <1>q, <2>1, <2>4, <3>1 DEF ClaimInv
  <2>. QED
    BY <1>0, <1>c, <1>1, <1>2, <1>k, <1>h, <1>r, <1>s, <1>q, <2>3, <2>4 DEF ClaimInv
<1>12. WarmInv'
  BY <1>0, <1>c, <1>1, <1>2, <1>k, <1>h, <1>r, <1>s, <1>q, WarmFramed
  DEF WarmInv, WarmFrame, Warming, OwnerPcs, WarmPcs
<1>13. CompletionInv'
  <2>1. /\ \A p \in Processes : (Resolving(p)' <=> Resolving(p)) /\ (Terminal(p)' <=> Terminal(p))
        /\ completions[job[t]] # 1
    BY <1>0, <1>c, <1>1, <1>2, <1>k, <1>h, <1>r, <1>s, <1>q DEF Resolving, Terminal, CompletionInv
  <2>2. ~Completing(probe[t])
    BY <1>o DEF Completing, Draining, DrainPcs
  <2>3. ASSUME NEW s \in Slots
        PROVE  (/\ completionClaimed[s] /\ ~Resetting(s) =>
                     slotProcess[s] \in Processes /\ (completions[slotProcess[s]] = 1 \/ Completing(s))
                /\ slotProcess[s] \in Processes =>
                     /\ completions[slotProcess[s]] = 1 \/ Completing(s) => completionClaimed[s]
                     /\ Resetting(s) => ~Terminal(slotProcess[s]))'
    <3>1. CASE s = probe[t]
      BY <1>0, <1>c, <1>1, <1>2, <1>k, <1>h, <1>r, <1>s, <1>q, <1>p, <2>1, <2>2, <3>1
      DEF CompletionInv
    <3>2. CASE s # probe[t]
      BY <1>0, <1>c, <1>1, <1>2, <1>k, <1>h, <1>r, <1>s, <1>q, <1>p, <2>1, <3>2 DEF CompletionInv
    <3>. QED
      BY <3>1, <3>2
  <2>4. ASSUME NEW v \in Workers
        PROVE  (/\ pc[v] = "complete" =>
                     /\ completions[me[v].process] = 0
                     /\ \A u \in Workers : pc[u] = "complete" /\ me[u].slot = me[v].slot => u = v
                /\ Draining(v) /\ me[v].terminal /\ pc[v] # "claim" => completionClaimed[me[v].slot]
                /\ (Owning(v) \/ pc[v] \in WarmPcs \cup {"final"}) /\ me[v].terminal =>
                     completions[me[v].process] = 1)'
    BY <1>0, <1>c, <1>1, <1>2, <1>k, <1>h, <1>r, <1>s, <1>q DEF CompletionInv
  <2>5. ASSUME NEW p \in Processes
        PROVE  (/\ completions[p] \in {0, 1} /\ (completions[p] = 1 => Terminal(p))
                /\ Terminal(p) /\ completions[p] = 0 => Resolving(p)
                /\ completions[p] = 0 /\ client.dependent[p] # None =>
                     state[client.dependent[p]] = "SUSPENDED")'
    BY <1>0, <1>c, <1>1, <1>2, <1>k, <1>h, <1>r, <1>s, <1>q, <2>1 DEF CompletionInv
  <2>. QED
    BY <1>2, <2>3, <2>4, <2>5 DEF CompletionInv
<1>. QED
  BY <1>3, <1>4, <1>5, <1>6, <1>7, <1>8, <1>9, <1>10, <1>11, <1>12, <1>13 DEF Inv


----------------------------------------------------------------------------
(* Scanning.                                                               *)

LEMMA ScanStartKeeps ==
  ASSUME Inv, NEW w \in Workers, ScanStart(w) PROVE Inv'
<1>0. /\ TypeOK /\ LocalInv /\ ReserveInv /\ CountInv /\ HolderInv /\ SentinelInv /\ PinInv
      /\ EpochInv /\ LocInv /\ ClaimInv /\ WarmInv /\ CompletionInv
  BY DEF Inv
<1>c. /\ w \in Threads /\ Workers \cap Schedulers = {} /\ Workers \subseteq Threads /\ None \notin Processes
      /\ EMPTY \notin Processes /\ RESERVED \notin Processes /\ EMPTY # RESERVED
  BY Constants DEF Threads
<1>1. /\ w \in Threads /\ pc[w] = "rest" /\ pc'[w] = "scan"
      /\ pc' \in [Threads -> Pcs]
      /\ \A u \in Threads : u # w => pc'[u] = pc[u]
      /\ me' \in [Workers -> Locals]
      /\ \A v \in Workers : v # w => me'[v] = me[v]
      /\ me'[w] = NoLocals
      /\ rescan' \in [Workers -> BOOLEAN] /\ todo' \in [Workers -> SUBSET Slots]
      /\ UNCHANGED <<client, state, scheduleState, needsDrain, retainDrain, placementEpoch,
                     placements, releasePending, retentionEpoch, warmRetainers, slotProcess,
                     slotEpoch, slotBudget, generation, drainers, sentinel, completionClaimed,
                     overflow, work, regionsLeft, closing, completions, releases, callsLeft,
                     job, probe, ret>>
  <2>1. NoLocals \in Locals
    BY <1>0, ClientFacts DEF NoLocals, Locals, Results
  <2>2. me' = [me EXCEPT ![w] = NoLocals] /\ me \in [Workers -> Locals]
    BY <1>0 DEF ScanStart, TypeOK, Locals
  <2>3. /\ me' \in [Workers -> Locals]
        /\ \A v \in Workers : v # w => me'[v] = me[v]
        /\ me'[w] = NoLocals
    BY <2>1, <2>2
  <2>. QED
    BY <1>0, <1>c, <2>3
    DEF ScanStart, Goto, TypeOK, Pcs, processVars, slotVars, clientVars, callVars, scanVars
<1>2. Slots' = Slots /\ Locals' = Locals
  BY <1>1 DEF Slots, Locals
<1>3. TypeOK'
  BY <1>0, <1>c, <1>1, <1>2, ClientFacts DEF TypeOK, Locals
<1>4. LocalInv'
  <2>1. ASSUME NEW v \in Workers PROVE LocalOK(v)'
    <3>1. LocalOK(v)
      BY <1>0 DEF LocalInv
    <3>. QED
      BY <1>0, <1>c, <1>1, <1>2, <3>1
      DEF LocalOK, Draining, Owning, OwnerPcs, Departed, DrainPcs, SchedulePcs, WarmPcs, NoLocals
  <2>2. ASSUME NEW u \in Threads PROVE JobOK(u)'
    <3>1. JobOK(u) /\ ret[u] \in {"wake", "rewake", "reclaim_wake"}
      BY <1>0 DEF LocalInv, TypeOK
    <3>. QED
      BY <1>0, <1>c, <1>1, <1>2, <3>1 DEF JobOK, PlacePcs, SchedulePcs, NoLocals
  <2>. QED
    BY <2>1, <2>2 DEF LocalInv
<1>5. ReserveInv'
  BY <1>0, <1>c, <1>1, <1>2, ReserveFramed DEF ReserveFrame
<1>6. CountInv'
  BY <1>0, <1>c, <1>1, <1>2, CountFramed
  DEF CountFrame, Registered, Draining, DrainPcs, SchedulePcs
<1>7. HolderInv' /\ SentinelInv'
  BY <1>0, <1>c, <1>1, <1>2, HolderFramed
  DEF HolderFrame, Holding, OwnerPcs, WarmPcs, Draining, DrainPcs, SchedulePcs
<1>8. PinInv'
  BY <1>0, <1>c, <1>1, <1>2, PinFramed
  DEF PinFrame, Owning, OwnerPcs, WarmPcs, Draining, DrainPcs, SchedulePcs
<1>9. EpochInv'
  BY <1>0, <1>c, <1>1, <1>2, EpochFramed DEF EpochFrame, Departed, SchedulePcs
<1>10. LocInv'
  BY <1>0, <1>c, <1>1, <1>2, LocFramed
  DEF LocInv, LocFrame, Leaving, StillOurs, PlacePcs, SchedulePcs
<1>11. ClaimInv'
  BY <1>0, <1>c, <1>1, <1>2, ClaimFramed DEF ClaimFrame, Departed, SchedulePcs
<1>12. WarmInv'
  BY <1>0, <1>c, <1>1, <1>2, WarmFramed
  DEF WarmInv, WarmFrame, Warming, OwnerPcs, WarmPcs, NoLocals
<1>13. CompletionInv'
  BY <1>0, <1>c, <1>1, <1>2, CompletionFramed
  DEF CompletionInv, CompletionFrame, Owning, OwnerPcs, WarmPcs, Draining, DrainPcs, SchedulePcs,
     NoLocals
<1>. QED
  BY <1>3, <1>4, <1>5, <1>6, <1>7, <1>8, <1>9, <1>10, <1>11, <1>12, <1>13 DEF Inv

LEMMA ScanEndKeeps ==
  ASSUME Inv, NEW w \in Workers, ScanEnd(w) PROVE Inv'
<1>0. /\ TypeOK /\ LocalInv /\ ReserveInv /\ CountInv /\ HolderInv /\ SentinelInv /\ PinInv
      /\ EpochInv /\ LocInv /\ ClaimInv /\ WarmInv /\ CompletionInv
  BY DEF Inv
<1>c. /\ w \in Threads /\ Workers \cap Schedulers = {} /\ Workers \subseteq Threads /\ None \notin Processes
      /\ EMPTY \notin Processes /\ RESERVED \notin Processes /\ EMPTY # RESERVED
  BY Constants DEF Threads
<1>1. /\ w \in Threads /\ pc[w] = "scan" /\ pc'[w] \in {"rest", "asleep"}
      /\ pc' \in [Threads -> Pcs]
      /\ \A u \in Threads : u # w => pc'[u] = pc[u]
      /\ me' \in [Workers -> Locals]
      /\ \A v \in Workers : v # w => me'[v] = me[v]
      /\ me'[w] = NoLocals
      /\ rescan' \in [Workers -> BOOLEAN] /\ todo' \in [Workers -> SUBSET Slots]
      /\ UNCHANGED <<client, state, scheduleState, needsDrain, retainDrain, placementEpoch,
                     placements, releasePending, retentionEpoch, warmRetainers, slotProcess,
                     slotEpoch, slotBudget, generation, drainers, sentinel, completionClaimed,
                     overflow, work, regionsLeft, closing, completions, releases, callsLeft,
                     job, probe, ret>>
  <2>1. NoLocals \in Locals
    BY <1>0, ClientFacts DEF NoLocals, Locals, Results
  <2>2. me' = [me EXCEPT ![w] = NoLocals] /\ me \in [Workers -> Locals]
    BY <1>0 DEF ScanEnd, TypeOK, Locals
  <2>3. /\ me' \in [Workers -> Locals]
        /\ \A v \in Workers : v # w => me'[v] = me[v]
        /\ me'[w] = NoLocals
    BY <2>1, <2>2
  <2>. QED
    BY <1>0, <1>c, <2>3
    DEF ScanEnd, Goto, TypeOK, Pcs, processVars, slotVars, clientVars, callVars, scanVars
<1>2. Slots' = Slots /\ Locals' = Locals
  BY <1>1 DEF Slots, Locals
<1>3. TypeOK'
  BY <1>0, <1>c, <1>1, <1>2, ClientFacts DEF TypeOK, Locals
<1>4. LocalInv'
  <2>1. ASSUME NEW v \in Workers PROVE LocalOK(v)'
    <3>1. LocalOK(v)
      BY <1>0 DEF LocalInv
    <3>. QED
      BY <1>0, <1>c, <1>1, <1>2, <3>1
      DEF LocalOK, Draining, Owning, OwnerPcs, Departed, DrainPcs, SchedulePcs, WarmPcs, NoLocals
  <2>2. ASSUME NEW u \in Threads PROVE JobOK(u)'
    <3>1. JobOK(u) /\ ret[u] \in {"wake", "rewake", "reclaim_wake"}
      BY <1>0 DEF LocalInv, TypeOK
    <3>. QED
      BY <1>0, <1>c, <1>1, <1>2, <3>1 DEF JobOK, PlacePcs, SchedulePcs, NoLocals
  <2>. QED
    BY <2>1, <2>2 DEF LocalInv
<1>5. ReserveInv'
  BY <1>0, <1>c, <1>1, <1>2, ReserveFramed DEF ReserveFrame
<1>6. CountInv'
  BY <1>0, <1>c, <1>1, <1>2, CountFramed
  DEF CountFrame, Registered, Draining, DrainPcs, SchedulePcs
<1>7. HolderInv' /\ SentinelInv'
  BY <1>0, <1>c, <1>1, <1>2, HolderFramed
  DEF HolderFrame, Holding, OwnerPcs, WarmPcs, Draining, DrainPcs, SchedulePcs
<1>8. PinInv'
  BY <1>0, <1>c, <1>1, <1>2, PinFramed
  DEF PinFrame, Owning, OwnerPcs, WarmPcs, Draining, DrainPcs, SchedulePcs
<1>9. EpochInv'
  BY <1>0, <1>c, <1>1, <1>2, EpochFramed DEF EpochFrame, Departed, SchedulePcs
<1>10. LocInv'
  BY <1>0, <1>c, <1>1, <1>2, LocFramed
  DEF LocInv, LocFrame, Leaving, StillOurs, PlacePcs, SchedulePcs
<1>11. ClaimInv'
  BY <1>0, <1>c, <1>1, <1>2, ClaimFramed DEF ClaimFrame, Departed, SchedulePcs
<1>12. WarmInv'
  BY <1>0, <1>c, <1>1, <1>2, WarmFramed
  DEF WarmInv, WarmFrame, Warming, OwnerPcs, WarmPcs, NoLocals
<1>13. CompletionInv'
  BY <1>0, <1>c, <1>1, <1>2, CompletionFramed
  DEF CompletionInv, CompletionFrame, Owning, OwnerPcs, WarmPcs, Draining, DrainPcs, SchedulePcs,
     NoLocals
<1>. QED
  BY <1>3, <1>4, <1>5, <1>6, <1>7, <1>8, <1>9, <1>10, <1>11, <1>12, <1>13 DEF Inv

LEMMA ScanSlotKeeps ==
  ASSUME Inv, NEW w \in Workers, ScanSlot(w) PROVE Inv'
<1>0. /\ TypeOK /\ LocalInv /\ ReserveInv /\ CountInv /\ HolderInv /\ SentinelInv /\ PinInv
      /\ EpochInv /\ LocInv /\ ClaimInv /\ WarmInv /\ CompletionInv
  BY DEF Inv
<1>c. /\ w \in Threads /\ Workers \cap Schedulers = {} /\ Workers \subseteq Threads /\ None \notin Processes
      /\ EMPTY \notin Processes /\ RESERVED \notin Processes /\ EMPTY # RESERVED
  BY Constants DEF Threads
<1>1. /\ w \in Threads /\ pc[w] = "scan" /\ pc'[w] \in {"scan", "join"}
      /\ pc' \in [Threads -> Pcs]
      /\ \A u \in Threads : u # w => pc'[u] = pc[u]
      /\ me' \in [Workers -> Locals]
      /\ \A v \in Workers : v # w => me'[v] = me[v]
      /\ me'[w] = me[w] \/ (~me'[w].entered /\ ~me'[w].terminal /\ me'[w].process = None)
      /\ todo' \in [Workers -> SUBSET Slots] /\ (pc'[w] = "join" => ~me'[w].terminal)
      /\ UNCHANGED <<client, state, scheduleState, needsDrain, retainDrain, placementEpoch,
                     placements, releasePending, retentionEpoch, warmRetainers, slotProcess,
                     slotEpoch, slotBudget, generation, drainers, sentinel, completionClaimed,
                     overflow, work, regionsLeft, closing, completions, releases, callsLeft,
                     rescan, job, probe, ret>>
  <2>1. PICK s \in todo[w] :
          /\ todo' = [todo EXCEPT ![w] = @ \ {s}]
          /\ IF slotProcess[s] \in Processes
             THEN Goto(w, "scan", "join") /\ me' = [me EXCEPT ![w] = [NoLocals EXCEPT !.slot = s]]
             ELSE Goto(w, "scan", "scan") /\ UNCHANGED me
    BY DEF ScanSlot
  <2>2. s \in Slots /\ me \in [Workers -> Locals] /\ todo' \in [Workers -> SUBSET Slots]
    BY <1>0, <2>1 DEF TypeOK, Locals
  <2>3. PICK l \in Locals : l = [NoLocals EXCEPT !.slot = s]
    BY <2>2 DEF NoLocals, Locals, Results
  <2>4. l.process = None /\ ~l.entered /\ ~l.terminal
    BY <2>3 DEF NoLocals
  <2>5. \/ pc'[w] = "join" /\ me' = [me EXCEPT ![w] = l]
        \/ pc'[w] = "scan" /\ me' = me
    BY <1>0, <1>c, <2>1, <2>3 DEF Goto, TypeOK
  <2>6. /\ me' \in [Workers -> Locals]
        /\ \A v \in Workers : v # w => me'[v] = me[v]
        /\ (me'[w] = me[w] \/ (~me'[w].entered /\ ~me'[w].terminal /\ me'[w].process = None))
        /\ (pc'[w] = "join" => ~me'[w].terminal)
    BY <2>2, <2>4, <2>5
  <2>7. /\ pc[w] = "scan" /\ pc'[w] \in {"scan", "join"} /\ pc' \in [Threads -> Pcs]
        /\ \A u \in Threads : u # w => pc'[u] = pc[u]
    BY <1>0, <1>c, <2>1 DEF Goto, TypeOK, Pcs
  <2>8. UNCHANGED <<processVars, slotVars, overflow, clientVars, rescan, callVars>>
    BY DEF ScanSlot
  <2>. QED
    BY <1>c, <2>2, <2>6, <2>7, <2>8 DEF processVars, slotVars, clientVars, callVars, scanVars
<1>2. Slots' = Slots /\ Locals' = Locals
  BY <1>1 DEF Slots, Locals
<1>3. TypeOK'
  BY <1>0, <1>c, <1>1, <1>2, ClientFacts DEF TypeOK, Locals
<1>4. LocalInv'
  <2>1. ASSUME NEW v \in Workers PROVE LocalOK(v)'
    <3>1. LocalOK(v)
      BY <1>0 DEF LocalInv
    <3>. QED
      BY <1>0, <1>c, <1>1, <1>2, <3>1
      DEF LocalOK, Draining, Owning, OwnerPcs, Departed, DrainPcs, SchedulePcs, WarmPcs
  <2>2. ASSUME NEW u \in Threads PROVE JobOK(u)'
    <3>1. JobOK(u) /\ ret[u] \in {"wake", "rewake", "reclaim_wake"}
      BY <1>0 DEF LocalInv, TypeOK
    <3>. QED
      BY <1>0, <1>c, <1>1, <1>2, <3>1 DEF JobOK, PlacePcs, SchedulePcs
  <2>. QED
    BY <2>1, <2>2 DEF LocalInv
<1>5. ReserveInv'
  BY <1>0, <1>c, <1>1, <1>2, ReserveFramed DEF ReserveFrame
<1>6. CountInv'
  BY <1>0, <1>c, <1>1, <1>2, CountFramed
  DEF CountFrame, Registered, Draining, DrainPcs, SchedulePcs
<1>7. HolderInv' /\ SentinelInv'
  BY <1>0, <1>c, <1>1, <1>2, HolderFramed
  DEF HolderFrame, Holding, OwnerPcs, WarmPcs, Draining, DrainPcs, SchedulePcs
<1>8. PinInv'
  BY <1>0, <1>c, <1>1, <1>2, PinFramed
  DEF PinFrame, Owning, OwnerPcs, WarmPcs, Draining, DrainPcs, SchedulePcs
<1>9. EpochInv'
  BY <1>0, <1>c, <1>1, <1>2, EpochFramed DEF EpochFrame, Departed, SchedulePcs
<1>10. LocInv'
  BY <1>0, <1>c, <1>1, <1>2, LocFramed
  DEF LocInv, LocFrame, Leaving, StillOurs, PlacePcs, SchedulePcs
<1>11. ClaimInv'
  BY <1>0, <1>c, <1>1, <1>2, ClaimFramed DEF ClaimFrame, Departed, SchedulePcs
<1>12. WarmInv'
  BY <1>0, <1>c, <1>1, <1>2, WarmFramed DEF WarmInv, WarmFrame, Warming, OwnerPcs, WarmPcs
<1>13. CompletionInv'
  BY <1>0, <1>c, <1>1, <1>2, CompletionFramed
  DEF CompletionInv, CompletionFrame, Owning, OwnerPcs, WarmPcs, Draining, DrainPcs, SchedulePcs
<1>. QED
  BY <1>3, <1>4, <1>5, <1>6, <1>7, <1>8, <1>9, <1>10, <1>11, <1>12, <1>13 DEF Inv

LEMMA JoinKeeps ==
  ASSUME Inv, NEW w \in Workers, Join(w) PROVE Inv'
<1>0. /\ TypeOK /\ LocalInv /\ ReserveInv /\ CountInv /\ HolderInv /\ SentinelInv /\ PinInv
      /\ EpochInv /\ LocInv /\ ClaimInv /\ WarmInv /\ CompletionInv
  BY DEF Inv
<1>c. /\ w \in Threads /\ Workers \cap Schedulers = {} /\ Workers \subseteq Threads /\ None \notin Processes
      /\ EMPTY \notin Processes /\ RESERVED \notin Processes /\ EMPTY # RESERVED
  BY Constants DEF Threads
<1>k. ~me[w].entered /\ ~me[w].terminal
  <2>1. /\ JobOK(w) /\ (w \in Workers => LocalOK(w))
        /\ ret[w] \in {"wake", "rewake", "reclaim_wake"}
    BY <1>0, <1>c DEF LocalInv, TypeOK
  <2>. QED
    BY <2>1, <1>c
    DEF Join, Goto, JobOK, PlacePcs, SchedulePcs, LocalOK, Draining, Owning, OwnerPcs, Departed,
       DrainPcs, WarmPcs
<1>1. /\ w \in Threads /\ pc[w] = "join" /\ pc'[w] \in {"bail", "verify"}
      /\ pc' \in [Threads -> Pcs]
      /\ \A u \in Threads : u # w => pc'[u] = pc[u]
      /\ me' = me
      /\ drainers' \in [Slots -> Nat] /\ drainers' = [drainers EXCEPT ![me[w].slot] = @ + 1]
      /\ (pc'[w] = "verify" => ~sentinel[me[w].slot])
      /\ UNCHANGED <<client, state, scheduleState, needsDrain, retainDrain, placementEpoch,
                     placements, releasePending, retentionEpoch, warmRetainers, slotProcess,
                     slotEpoch, slotBudget, generation, sentinel, completionClaimed, overflow,
                     work, regionsLeft, closing, completions, releases, callsLeft, rescan,
                     todo, job, probe, ret>>
  <2>1. drainers' \in [Slots -> Nat]
    BY <1>0 DEF Join, TypeOK
  <2>. QED
    BY <1>0, <1>c, <2>1
    DEF Join, TurnsAway, Goto, TypeOK, Pcs, processVars, slotVars, clientVars, callVars, scanVars
<1>2. Slots' = Slots /\ Locals' = Locals
  BY <1>1 DEF Slots, Locals
<1>3. TypeOK'
  BY <1>0, <1>c, <1>1, <1>2, <1>k, ClientFacts DEF TypeOK, Locals
<1>4. LocalInv'
  <2>1. ASSUME NEW v \in Workers PROVE LocalOK(v)'
    <3>1. LocalOK(v)
      BY <1>0 DEF LocalInv
    <3>. QED
      BY <1>0, <1>c, <1>1, <1>2, <1>k, <3>1
      DEF LocalOK, Draining, Owning, OwnerPcs, Departed, DrainPcs, SchedulePcs, WarmPcs
  <2>2. ASSUME NEW u \in Threads PROVE JobOK(u)'
    <3>1. JobOK(u) /\ ret[u] \in {"wake", "rewake", "reclaim_wake"}
      BY <1>0 DEF LocalInv, TypeOK
    <3>. QED
      BY <1>0, <1>c, <1>1, <1>2, <1>k, <3>1 DEF JobOK, PlacePcs, SchedulePcs
  <2>. QED
    BY <2>1, <2>2 DEF LocalInv
<1>5. ReserveInv'
  BY <1>0, <1>c, <1>1, <1>2, <1>k, ReserveFramed DEF ReserveFrame
<1>6. CountInv'
  <2>1. /\ me[w].slot \in Slots /\ drainers'[me[w].slot] = drainers[me[w].slot] + 1
        /\ \A s \in Slots : s # me[w].slot => drainers'[s] = drainers[s]
    BY <1>0, <1>1 DEF TypeOK
  <2>2. ASSUME NEW v \in Workers, v # w
        PROVE  (Registered(v)' <=> Registered(v)) /\ me'[v].slot = me[v].slot
    BY <1>0, <1>c, <1>1, <1>2, <1>k, <2>2 DEF Registered, Draining, DrainPcs, SchedulePcs
  <2>3. ~Registered(w) /\ Registered(w)' /\ me'[w].slot = me[w].slot
    BY <1>0, <1>c, <1>1, <1>2, <1>k DEF Registered, Draining, DrainPcs, SchedulePcs
  <2>4. ASSUME NEW s \in Slots PROVE drainers'[s] = Cardinality(DrainersOn(s)')
    <3>1. DrainersOn(s) \subseteq Workers /\ drainers[s] = Cardinality(DrainersOn(s))
      BY <1>0 DEF DrainersOn, CountInv
    <3>2. CASE s = me[w].slot
      <4>1. DrainersOn(s)' = DrainersOn(s) \cup {w} /\ w \notin DrainersOn(s)
        BY <2>2, <2>3, <3>2 DEF DrainersOn
      <4>. QED
        BY <2>1, <3>1, <3>2, <4>1, Gains
    <3>3. CASE s # me[w].slot
      <4>1. DrainersOn(s)' = DrainersOn(s)
        BY <2>2, <2>3, <3>3 DEF DrainersOn
      <4>. QED
        BY <2>1, <3>1, <3>3, <4>1
    <3>. QED
      BY <3>2, <3>3
  <2>. QED
    BY <1>2, <2>4 DEF CountInv
<1>7. HolderInv' /\ SentinelInv'
  <2>1. ASSUME NEW v \in Workers
        PROVE  /\ Holding(v)' <=> Holding(v)
               /\ pc'[v] = "verify" \/ Draining(v)' => ~sentinel[me[v].slot]
               /\ pc'[v] \in WarmPcs <=> pc[v] \in WarmPcs
               /\ pc'[v] = "reset" <=> pc[v] = "reset"
    BY <1>0, <1>c, <1>1, <1>2, <1>k
    DEF Holding, OwnerPcs, WarmPcs, Draining, DrainPcs, SchedulePcs, HolderInv
  <2>. QED
    BY <1>0, <1>c, <1>1, <1>2, <1>k, <2>1 DEF HolderInv, SentinelInv
<1>8. PinInv'
  BY <1>0, <1>c, <1>1, <1>2, <1>k, PinFramed
  DEF PinFrame, Owning, OwnerPcs, WarmPcs, Draining, DrainPcs, SchedulePcs
<1>9. EpochInv'
  BY <1>0, <1>c, <1>1, <1>2, <1>k, EpochFramed DEF EpochFrame, Departed, SchedulePcs
<1>10. LocInv'
  BY <1>0, <1>c, <1>1, <1>2, <1>k, LocFramed
  DEF LocInv, LocFrame, Leaving, StillOurs, PlacePcs, SchedulePcs
<1>11. ClaimInv'
  BY <1>0, <1>c, <1>1, <1>2, <1>k, ClaimFramed DEF ClaimFrame, Departed, SchedulePcs
<1>12. WarmInv'
  BY <1>0, <1>c, <1>1, <1>2, <1>k, WarmFramed DEF WarmInv, WarmFrame, Warming, OwnerPcs, WarmPcs
<1>13. CompletionInv'
  BY <1>0, <1>c, <1>1, <1>2, <1>k, CompletionFramed
  DEF CompletionInv, CompletionFrame, Owning, OwnerPcs, WarmPcs, Draining, DrainPcs, SchedulePcs
<1>. QED
  BY <1>3, <1>4, <1>5, <1>6, <1>7, <1>8, <1>9, <1>10, <1>11, <1>12, <1>13 DEF Inv

LEMMA BailKeeps ==
  ASSUME Inv, NEW w \in Workers, Bail(w) PROVE Inv'
<1>0. /\ TypeOK /\ LocalInv /\ ReserveInv /\ CountInv /\ HolderInv /\ SentinelInv /\ PinInv
      /\ EpochInv /\ LocInv /\ ClaimInv /\ WarmInv /\ CompletionInv
  BY DEF Inv
<1>c. /\ w \in Threads /\ Workers \cap Schedulers = {} /\ Workers \subseteq Threads /\ None \notin Processes
      /\ EMPTY \notin Processes /\ RESERVED \notin Processes /\ EMPTY # RESERVED
  BY Constants DEF Threads
<1>1. /\ w \in Threads /\ pc[w] = "bail" /\ pc'[w] = "scan"
      /\ pc' \in [Threads -> Pcs]
      /\ \A u \in Threads : u # w => pc'[u] = pc[u]
      /\ me' \in [Workers -> Locals]
      /\ \A v \in Workers : v # w => me'[v] = me[v]
      /\ me'[w] = NoLocals
      /\ drainers' \in [Slots -> Nat] /\ drainers' = [drainers EXCEPT ![me[w].slot] = @ - 1]
      /\ UNCHANGED <<client, state, scheduleState, needsDrain, retainDrain, placementEpoch,
                     placements, releasePending, retentionEpoch, warmRetainers, slotProcess,
                     slotEpoch, slotBudget, generation, sentinel, completionClaimed, overflow,
                     work, regionsLeft, closing, completions, releases, callsLeft, rescan,
                     todo, job, probe, ret>>
  <2>d. /\ me[w].slot \in Slots /\ drainers[me[w].slot] = Cardinality(DrainersOn(me[w].slot))
        /\ w \in DrainersOn(me[w].slot) /\ DrainersOn(me[w].slot) \subseteq Workers
    BY <1>0 DEF TypeOK, CountInv, DrainersOn, Registered, Draining, DrainPcs, Bail, Goto
  <2>e. drainers[me[w].slot] - 1 \in Nat
    <3>1. Cardinality(DrainersOn(me[w].slot)) \in Nat /\ Cardinality(DrainersOn(me[w].slot)) > 0
      BY <2>d, Loses
    <3>. QED
      BY <2>d, <3>1
  <2>f. drainers' \in [Slots -> Nat]
    BY <1>0, <2>d, <2>e DEF Bail, TypeOK
<2>1. NoLocals \in Locals
    BY <1>0, ClientFacts DEF NoLocals, Locals, Results
  <2>2. me' = [me EXCEPT ![w] = NoLocals] /\ me \in [Workers -> Locals]
    BY <1>0 DEF Bail, TypeOK, Locals
  <2>3. /\ me' \in [Workers -> Locals]
        /\ \A v \in Workers : v # w => me'[v] = me[v]
        /\ me'[w] = NoLocals
    BY <2>1, <2>2
  <2>. QED
    BY <1>0, <1>c, <2>3, <2>f
    DEF Bail, Goto, TypeOK, Pcs, processVars, slotVars, clientVars, callVars, scanVars
<1>2. Slots' = Slots /\ Locals' = Locals
  BY <1>1 DEF Slots, Locals
<1>3. TypeOK'
  BY <1>0, <1>c, <1>1, <1>2, ClientFacts DEF TypeOK, Locals
<1>4. LocalInv'
  <2>1. ASSUME NEW v \in Workers PROVE LocalOK(v)'
    <3>1. LocalOK(v)
      BY <1>0 DEF LocalInv
    <3>. QED
      BY <1>0, <1>c, <1>1, <1>2, <3>1
      DEF LocalOK, Draining, Owning, OwnerPcs, Departed, DrainPcs, SchedulePcs, WarmPcs, NoLocals
  <2>2. ASSUME NEW u \in Threads PROVE JobOK(u)'
    <3>1. JobOK(u) /\ ret[u] \in {"wake", "rewake", "reclaim_wake"}
      BY <1>0 DEF LocalInv, TypeOK
    <3>. QED
      BY <1>0, <1>c, <1>1, <1>2, <3>1 DEF JobOK, PlacePcs, SchedulePcs, NoLocals
  <2>. QED
    BY <2>1, <2>2 DEF LocalInv
<1>5. ReserveInv'
  BY <1>0, <1>c, <1>1, <1>2, ReserveFramed DEF ReserveFrame
<1>6. CountInv'
  <2>1. /\ me[w].slot \in Slots /\ drainers'[me[w].slot] = drainers[me[w].slot] - 1
        /\ \A s \in Slots : s # me[w].slot => drainers'[s] = drainers[s]
    BY <1>0, <1>1 DEF TypeOK
  <2>2. ASSUME NEW v \in Workers, v # w
        PROVE  (Registered(v)' <=> Registered(v)) /\ me'[v].slot = me[v].slot
    BY <1>0, <1>c, <1>1, <1>2, <2>2 DEF Registered, Draining, DrainPcs, SchedulePcs
  <2>3. Registered(w) /\ ~Registered(w)' 
    BY <1>0, <1>c, <1>1, <1>2 DEF Registered, Draining, DrainPcs, SchedulePcs
  <2>4. ASSUME NEW s \in Slots PROVE drainers'[s] = Cardinality(DrainersOn(s)')
    <3>1. DrainersOn(s) \subseteq Workers /\ drainers[s] = Cardinality(DrainersOn(s))
      BY <1>0 DEF DrainersOn, CountInv
    <3>2. CASE s = me[w].slot
      <4>1. DrainersOn(s)' = DrainersOn(s) \ {w} /\ w \in DrainersOn(s)
        BY <2>2, <2>3, <3>2 DEF DrainersOn
      <4>. QED
        BY <2>1, <3>1, <3>2, <4>1, Loses
    <3>3. CASE s # me[w].slot
      <4>1. DrainersOn(s)' = DrainersOn(s)
        BY <2>2, <2>3, <3>3 DEF DrainersOn
      <4>. QED
        BY <2>1, <3>1, <3>3, <4>1
    <3>. QED
      BY <3>2, <3>3
  <2>. QED
    BY <1>2, <2>4 DEF CountInv
<1>7. HolderInv' /\ SentinelInv'
  BY <1>0, <1>c, <1>1, <1>2, HolderFramed
  DEF HolderFrame, Holding, OwnerPcs, WarmPcs, Draining, DrainPcs, SchedulePcs
<1>8. PinInv'
  BY <1>0, <1>c, <1>1, <1>2, PinFramed
  DEF PinFrame, Owning, OwnerPcs, WarmPcs, Draining, DrainPcs, SchedulePcs
<1>9. EpochInv'
  BY <1>0, <1>c, <1>1, <1>2, EpochFramed DEF EpochFrame, Departed, SchedulePcs
<1>10. LocInv'
  BY <1>0, <1>c, <1>1, <1>2, LocFramed
  DEF LocInv, LocFrame, Leaving, StillOurs, PlacePcs, SchedulePcs
<1>11. ClaimInv'
  BY <1>0, <1>c, <1>1, <1>2, ClaimFramed DEF ClaimFrame, Departed, SchedulePcs
<1>12. WarmInv'
  BY <1>0, <1>c, <1>1, <1>2, WarmFramed
  DEF WarmInv, WarmFrame, Warming, OwnerPcs, WarmPcs, NoLocals
<1>13. CompletionInv'
  BY <1>0, <1>c, <1>1, <1>2, CompletionFramed
  DEF CompletionInv, CompletionFrame, Owning, OwnerPcs, WarmPcs, Draining, DrainPcs, SchedulePcs,
     NoLocals
<1>. QED
  BY <1>3, <1>4, <1>5, <1>6, <1>7, <1>8, <1>9, <1>10, <1>11, <1>12, <1>13 DEF Inv

LEMMA VerifyFailKeeps ==
  ASSUME Inv, NEW w \in Workers, Verify(w), pc'[w] = "bail" PROVE Inv'
<1>0. /\ TypeOK /\ LocalInv /\ ReserveInv /\ CountInv /\ HolderInv /\ SentinelInv /\ PinInv
      /\ EpochInv /\ LocInv /\ ClaimInv /\ WarmInv /\ CompletionInv
  BY DEF Inv
<1>c. /\ w \in Threads /\ Workers \cap Schedulers = {} /\ Workers \subseteq Threads /\ None \notin Processes
      /\ EMPTY \notin Processes /\ RESERVED \notin Processes /\ EMPTY # RESERVED
  BY Constants DEF Threads
<1>k. ~me[w].entered /\ ~me[w].terminal
  <2>1. /\ JobOK(w) /\ (w \in Workers => LocalOK(w))
        /\ ret[w] \in {"wake", "rewake", "reclaim_wake"}
    BY <1>0, <1>c DEF LocalInv, TypeOK
  <2>. QED
    BY <2>1, <1>c
    DEF Verify, Goto, JobOK, PlacePcs, SchedulePcs, LocalOK, Draining, Owning, OwnerPcs,
       Departed, DrainPcs, WarmPcs
<1>1. /\ w \in Threads /\ pc[w] = "verify" /\ pc'[w] = "bail"
      /\ pc' \in [Threads -> Pcs]
      /\ \A u \in Threads : u # w => pc'[u] = pc[u]
      /\ me' = me
      /\ UNCHANGED <<client, state, scheduleState, needsDrain, retainDrain, placementEpoch,
                     placements, releasePending, retentionEpoch, warmRetainers, slotProcess,
                     slotEpoch, slotBudget, generation, drainers, sentinel, completionClaimed,
                     overflow, work, regionsLeft, closing, completions, releases, callsLeft,
                     rescan, todo, job, probe, ret>>
  <2>1. Goto(w, "verify", "bail") /\ me' = me
    BY <1>0, <1>c DEF Verify, Goto, TypeOK
  <2>. QED
    BY <1>0, <1>c, <2>1
    DEF Verify, Goto, TypeOK, Pcs, processVars, slotVars, clientVars, callVars, scanVars
<1>2. Slots' = Slots /\ Locals' = Locals
  BY <1>1 DEF Slots, Locals
<1>3. TypeOK'
  BY <1>0, <1>c, <1>1, <1>2, <1>k, ClientFacts DEF TypeOK, Locals
<1>4. LocalInv'
  <2>1. ASSUME NEW v \in Workers PROVE LocalOK(v)'
    <3>1. LocalOK(v)
      BY <1>0 DEF LocalInv
    <3>. QED
      BY <1>0, <1>c, <1>1, <1>2, <1>k, <3>1
      DEF LocalOK, Draining, Owning, OwnerPcs, Departed, DrainPcs, SchedulePcs, WarmPcs
  <2>2. ASSUME NEW u \in Threads PROVE JobOK(u)'
    <3>1. JobOK(u) /\ ret[u] \in {"wake", "rewake", "reclaim_wake"}
      BY <1>0 DEF LocalInv, TypeOK
    <3>. QED
      BY <1>0, <1>c, <1>1, <1>2, <1>k, <3>1 DEF JobOK, PlacePcs, SchedulePcs
  <2>. QED
    BY <2>1, <2>2 DEF LocalInv
<1>5. ReserveInv'
  BY <1>0, <1>c, <1>1, <1>2, <1>k, ReserveFramed DEF ReserveFrame
<1>6. CountInv'
  BY <1>0, <1>c, <1>1, <1>2, <1>k, CountFramed
  DEF CountFrame, Registered, Draining, DrainPcs, SchedulePcs
<1>7. HolderInv' /\ SentinelInv'
  BY <1>0, <1>c, <1>1, <1>2, <1>k, HolderFramed
  DEF HolderFrame, Holding, OwnerPcs, WarmPcs, Draining, DrainPcs, SchedulePcs
<1>8. PinInv'
  BY <1>0, <1>c, <1>1, <1>2, <1>k, PinFramed
  DEF PinFrame, Owning, OwnerPcs, WarmPcs, Draining, DrainPcs, SchedulePcs
<1>9. EpochInv'
  BY <1>0, <1>c, <1>1, <1>2, <1>k, EpochFramed DEF EpochFrame, Departed, SchedulePcs
<1>10. LocInv'
  BY <1>0, <1>c, <1>1, <1>2, <1>k, LocFramed
  DEF LocInv, LocFrame, Leaving, StillOurs, PlacePcs, SchedulePcs
<1>11. ClaimInv'
  BY <1>0, <1>c, <1>1, <1>2, <1>k, ClaimFramed DEF ClaimFrame, Departed, SchedulePcs
<1>12. WarmInv'
  BY <1>0, <1>c, <1>1, <1>2, <1>k, WarmFramed DEF WarmInv, WarmFrame, Warming, OwnerPcs, WarmPcs
<1>13. CompletionInv'
  BY <1>0, <1>c, <1>1, <1>2, <1>k, CompletionFramed
  DEF CompletionInv, CompletionFrame, Owning, OwnerPcs, WarmPcs, Draining, DrainPcs, SchedulePcs
<1>. QED
  BY <1>3, <1>4, <1>5, <1>6, <1>7, <1>8, <1>9, <1>10, <1>11, <1>12, <1>13 DEF Inv

LEMMA VerifyKeeps ==
  ASSUME Inv, NEW w \in Workers, Verify(w), pc'[w] # "bail" PROVE Inv'
<1>0. /\ TypeOK /\ LocalInv /\ ReserveInv /\ CountInv /\ HolderInv /\ SentinelInv /\ PinInv
      /\ EpochInv /\ LocInv /\ ClaimInv /\ WarmInv /\ CompletionInv
  BY DEF Inv
<1>c. /\ w \in Threads /\ Workers \cap Schedulers = {} /\ Workers \subseteq Threads /\ None \notin Processes
      /\ EMPTY \notin Processes /\ RESERVED \notin Processes /\ EMPTY # RESERVED
  BY Constants DEF Threads
<1>k. ~me[w].entered /\ ~me[w].terminal
  <2>1. /\ JobOK(w) /\ (w \in Workers => LocalOK(w))
        /\ ret[w] \in {"wake", "rewake", "reclaim_wake"}
    BY <1>0, <1>c DEF LocalInv, TypeOK
  <2>. QED
    BY <2>1, <1>c
    DEF Verify, Goto, JobOK, PlacePcs, SchedulePcs, LocalOK, Draining, Owning, OwnerPcs,
       Departed, DrainPcs, WarmPcs
<1>1. /\ w \in Threads /\ pc[w] = "verify" /\ pc'[w] = "drain"
      /\ pc' \in [Threads -> Pcs]
      /\ \A u \in Threads : u # w => pc'[u] = pc[u]
      /\ me' \in [Workers -> Locals]
      /\ \A v \in Workers : v # w => me'[v] = me[v]
      /\ me'[w].slot = me[w].slot /\ me'[w].process = slotProcess[me[w].slot]
      /\ me'[w].epoch = slotEpoch[me[w].slot] /\ me'[w].gen = me[w].gen
      /\ me'[w].result = me[w].result /\ me'[w].terminal = me[w].terminal
      /\ me'[w].entered = me[w].entered /\ me'[w].rejoin = me[w].rejoin
      /\ me'[w].keepEpoch = me[w].keepEpoch /\ me'[w].didWork = me[w].didWork
      /\ slotProcess[me[w].slot] \in Processes
      /\ UNCHANGED <<client, state, scheduleState, needsDrain, retainDrain, placementEpoch,
                     placements, releasePending, retentionEpoch, warmRetainers, slotProcess,
                     slotEpoch, slotBudget, generation, drainers, sentinel, completionClaimed,
                     overflow, work, regionsLeft, closing, completions, releases, callsLeft,
                     rescan, todo, job, probe, ret>>
  <2>1. /\ Goto(w, "verify", "drain") /\ slotProcess[me[w].slot] \in Processes
        /\ me' = [me EXCEPT ![w].process = slotProcess[me[w].slot], ![w].epoch = slotEpoch[me[w].slot]]
    BY <1>0, <1>c DEF Verify, PlacementIsCurrent, Goto, TypeOK
  <2>2. me[w].slot \in Slots /\ slotEpoch[me[w].slot] \in Nat /\ me \in [Workers -> Locals]
    BY <1>0 DEF TypeOK, Locals
  <2>3. PICK l \in Locals : l = [me[w] EXCEPT !.process = slotProcess[me[w].slot], !.epoch = slotEpoch[me[w].slot]]
    BY <2>1, <2>2 DEF Locals
  <2>4. me' = [me EXCEPT ![w] = l]
    BY <2>1, <2>3
  <2>5. me' \in [Workers -> Locals] /\ me'[w] = l /\ \A v \in Workers : v # w => me'[v] = me[v]
    BY <2>2, <2>4
  <2>6. /\ l.slot = me[w].slot /\ l.process = slotProcess[me[w].slot] /\ l.epoch = slotEpoch[me[w].slot]
        /\ l.gen = me[w].gen /\ l.result = me[w].result /\ l.terminal = me[w].terminal
        /\ l.entered = me[w].entered /\ l.rejoin = me[w].rejoin /\ l.keepEpoch = me[w].keepEpoch
        /\ l.didWork = me[w].didWork
    BY <2>2, <2>3 DEF Locals
  <2>. QED
    BY <1>0, <1>c, <2>1, <2>5, <2>6
    DEF Verify, Goto, TypeOK, Pcs, DrainPcs, processVars, slotVars, clientVars, callVars, scanVars
<1>2. Slots' = Slots /\ Locals' = Locals
  BY <1>1 DEF Slots, Locals
<1>p. /\ me[w].slot \in Slots /\ me'[w].process \in Processes
      /\ slotProcess[me[w].slot] = me'[w].process /\ state[me'[w].process] # "SUSPENDED"
  <2>1. me[w].slot \in Slots /\ LocOK(slotProcess[me[w].slot])
    BY <1>0, <1>1 DEF TypeOK, LocInv
  <2>2. InSlot(slotProcess[me[w].slot])
    BY <2>1 DEF InSlot
  <2>. QED
    BY <1>1, <2>1, <2>2 DEF LocOK
<1>3. TypeOK'
  BY <1>0, <1>c, <1>1, <1>2, <1>k, <1>p, ClientFacts DEF TypeOK, Locals
<1>4. LocalInv'
  <2>1. ASSUME NEW v \in Workers PROVE LocalOK(v)'
    <3>1. LocalOK(v)
      BY <1>0 DEF LocalInv
    <3>. QED
      BY <1>0, <1>c, <1>1, <1>2, <1>k, <1>p, <3>1
      DEF LocalOK, Draining, Owning, OwnerPcs, Departed, DrainPcs, SchedulePcs, WarmPcs
  <2>2. ASSUME NEW u \in Threads PROVE JobOK(u)'
    <3>1. JobOK(u) /\ ret[u] \in {"wake", "rewake", "reclaim_wake"}
      BY <1>0 DEF LocalInv, TypeOK
    <3>. QED
      BY <1>0, <1>c, <1>1, <1>2, <1>k, <1>p, <3>1 DEF JobOK, PlacePcs, SchedulePcs
  <2>. QED
    BY <2>1, <2>2 DEF LocalInv
<1>5. ReserveInv'
  BY <1>0, <1>c, <1>1, <1>2, <1>k, <1>p, ReserveFramed DEF ReserveFrame
<1>6. CountInv'
  BY <1>0, <1>c, <1>1, <1>2, <1>k, <1>p, CountFramed
  DEF CountFrame, Registered, Draining, DrainPcs, SchedulePcs
<1>7. HolderInv' /\ SentinelInv'
  BY <1>0, <1>c, <1>1, <1>2, <1>k, <1>p, HolderFramed
  DEF HolderFrame, Holding, OwnerPcs, WarmPcs, Draining, DrainPcs, SchedulePcs
<1>8. PinInv'
  <2>1. ASSUME NEW v \in Workers
        PROVE  (/\ Draining(v) \/ Owning(v) \/ pc[v] \in WarmPcs => slotProcess[me[v].slot] = me[v].process
                /\ pc[v] \in WarmPcs \/ (Owning(v) /\ me[v].entered) => me[v].gen = generation[me[v].slot])'
    BY <1>0, <1>c, <1>1, <1>2, <1>k, <1>p
    DEF PinInv, Draining, Owning, OwnerPcs, WarmPcs, DrainPcs, SchedulePcs
  <2>2. ASSUME NEW v \in Workers, pc'[v] = "final"
        PROVE  (/\ me[v].gen <= generation[me[v].slot]
                /\ me[v].gen = generation[me[v].slot] =>
                     slotProcess[me[v].slot] = me[v].process \/ Resetting(me[v].slot))'
    <3>1. Resetting(me[v].slot) => Resetting(me[v].slot)'
      BY <1>0, <1>c, <1>1, <1>2, <1>k, <1>p DEF Resetting
    <3>. QED
      BY <1>0, <1>c, <1>1, <1>2, <1>k, <1>p, <2>2, <3>1 DEF PinInv
  <2>3. \A s \in Slots : Clearing(s) => Clearing(s)'
    BY <1>0, <1>c, <1>1, <1>2, <1>k, <1>p DEF Clearing
  <2>. QED
    BY <1>0, <1>c, <1>1, <1>2, <1>k, <1>p, <2>1, <2>2, <2>3 DEF PinInv
<1>9. EpochInv'
  BY <1>0, <1>c, <1>1, <1>2, <1>k, <1>p, EpochFramed DEF EpochFrame, Departed, SchedulePcs
<1>10. LocInv'
  BY <1>0, <1>c, <1>1, <1>2, <1>k, <1>p, LocFramed
  DEF LocInv, LocFrame, Leaving, StillOurs, PlacePcs, SchedulePcs
<1>11. ClaimInv'
  BY <1>0, <1>c, <1>1, <1>2, <1>k, <1>p, ClaimFramed DEF ClaimFrame, Departed, SchedulePcs
<1>12. WarmInv'
  BY <1>0, <1>c, <1>1, <1>2, <1>k, <1>p, WarmFramed
  DEF WarmInv, WarmFrame, Warming, OwnerPcs, WarmPcs
<1>13. CompletionInv'
  BY <1>0, <1>c, <1>1, <1>2, <1>k, <1>p, CompletionFramed
  DEF CompletionInv, CompletionFrame, Owning, OwnerPcs, WarmPcs, Draining, DrainPcs, SchedulePcs
<1>. QED
  BY <1>3, <1>4, <1>5, <1>6, <1>7, <1>8, <1>9, <1>10, <1>11, <1>12, <1>13 DEF Inv


----------------------------------------------------------------------------
(* Draining.                                                               *)

LEMMA SkipTerminalKeeps ==
  ASSUME Inv, NEW w \in Workers, SkipTerminal(w) PROVE Inv'
<1>0. /\ TypeOK /\ LocalInv /\ ReserveInv /\ CountInv /\ HolderInv /\ SentinelInv /\ PinInv
      /\ EpochInv /\ LocInv /\ ClaimInv /\ WarmInv /\ CompletionInv
  BY DEF Inv
<1>c. /\ w \in Threads /\ Workers \cap Schedulers = {} /\ Workers \subseteq Threads /\ None \notin Processes
      /\ EMPTY \notin Processes /\ RESERVED \notin Processes /\ EMPTY # RESERVED
  BY Constants DEF Threads
<1>k. me[w].process \in Processes /\ ~me[w].entered /\ ~me[w].terminal
  <2>1. /\ JobOK(w) /\ (w \in Workers => LocalOK(w))
        /\ ret[w] \in {"wake", "rewake", "reclaim_wake"}
    BY <1>0, <1>c DEF LocalInv, TypeOK
  <2>. QED
    BY <2>1, <1>c
    DEF SkipTerminal, Goto, JobOK, PlacePcs, SchedulePcs, LocalOK, Draining, Owning, OwnerPcs,
       Departed, DrainPcs, WarmPcs
<1>1. /\ w \in Threads /\ pc[w] = "drain" /\ pc'[w] = "claim"
      /\ pc' \in [Threads -> Pcs]
      /\ \A u \in Threads : u # w => pc'[u] = pc[u]
      /\ me' \in [Workers -> Locals]
      /\ \A v \in Workers : v # w => me'[v] = me[v]
      /\ me'[w].slot = me[w].slot /\ me'[w].process = me[w].process
      /\ me'[w].epoch = me[w].epoch /\ me'[w].gen = me[w].gen /\ me'[w].result = me[w].result
      /\ me'[w].terminal = TRUE /\ me'[w].entered = me[w].entered
      /\ me'[w].rejoin = me[w].rejoin /\ me'[w].keepEpoch = me[w].keepEpoch
      /\ me'[w].didWork = me[w].didWork
      /\ UNCHANGED <<client, state, scheduleState, needsDrain, retainDrain, placementEpoch,
                     placements, releasePending, retentionEpoch, warmRetainers, slotProcess,
                     slotEpoch, slotBudget, generation, drainers, sentinel, completionClaimed,
                     overflow, work, regionsLeft, closing, completions, releases, callsLeft,
                     rescan, todo, job, probe, ret>>
  <2>m1. me \in [Workers -> Locals] /\ me[w] \in Locals
    BY <1>0 DEF TypeOK, Locals
  <2>m2. PICK l \in Locals : l = [me[w] EXCEPT !.terminal = TRUE]
    BY <2>m1 DEF Locals, Results
  <2>m3. me' = [me EXCEPT ![w] = l]
    BY <2>m1, <2>m2 DEF SkipTerminal
  <2>m4. /\ me' \in [Workers -> Locals] /\ me'[w] = l
         /\ \A v \in Workers : v # w => me'[v] = me[v]
    BY <2>m1, <2>m3
  <2>m5. /\ l.slot = me[w].slot /\ l.process = me[w].process /\ l.epoch = me[w].epoch
        /\ l.gen = me[w].gen /\ l.result = me[w].result /\ l.terminal = TRUE
        /\ l.entered = me[w].entered /\ l.rejoin = me[w].rejoin /\ l.keepEpoch = me[w].keepEpoch
        /\ l.didWork = me[w].didWork
    BY <2>m1, <2>m2 DEF Locals
  <2>g. /\ pc[w] = "drain" /\ pc'[w] = "claim" /\ pc' \in [Threads -> Pcs]
        /\ \A u \in Threads : u # w => pc'[u] = pc[u]
    BY <1>0, <1>c DEF SkipTerminal, Goto, TypeOK, Pcs, DrainPcs, SchedulePcs, WarmPcs, ReleasePcs
  <2>. QED
    BY <1>c, <2>m4, <2>m5, <2>g
    DEF SkipTerminal, processVars, slotVars, clientVars, callVars, scanVars
<1>2. Slots' = Slots /\ Locals' = Locals
  BY <1>1 DEF Slots, Locals
<1>3. TypeOK'
  BY <1>0, <1>c, <1>1, <1>2, <1>k, ClientFacts DEF TypeOK, Locals
<1>4. LocalInv'
  <2>1. ASSUME NEW v \in Workers PROVE LocalOK(v)'
    <3>1. LocalOK(v)
      BY <1>0 DEF LocalInv
    <3>. QED
      BY <1>0, <1>c, <1>1, <1>2, <1>k, <3>1
      DEF LocalOK, Draining, Owning, OwnerPcs, Departed, DrainPcs, SchedulePcs, WarmPcs
  <2>2. ASSUME NEW u \in Threads PROVE JobOK(u)'
    <3>1. JobOK(u) /\ ret[u] \in {"wake", "rewake", "reclaim_wake"}
      BY <1>0 DEF LocalInv, TypeOK
    <3>. QED
      BY <1>0, <1>c, <1>1, <1>2, <1>k, <3>1 DEF JobOK, PlacePcs, SchedulePcs
  <2>. QED
    BY <2>1, <2>2 DEF LocalInv
<1>5. ReserveInv'
  BY <1>0, <1>c, <1>1, <1>2, <1>k, ReserveFramed DEF ReserveFrame
<1>6. CountInv'
  BY <1>0, <1>c, <1>1, <1>2, <1>k, CountFramed
  DEF CountFrame, Registered, Draining, DrainPcs, SchedulePcs
<1>7. HolderInv' /\ SentinelInv'
  BY <1>0, <1>c, <1>1, <1>2, <1>k, HolderFramed
  DEF HolderFrame, Holding, OwnerPcs, WarmPcs, Draining, DrainPcs, SchedulePcs
<1>8. PinInv'
  BY <1>0, <1>c, <1>1, <1>2, <1>k, PinFramed
  DEF PinFrame, Owning, OwnerPcs, WarmPcs, Draining, DrainPcs, SchedulePcs
<1>9. EpochInv'
  BY <1>0, <1>c, <1>1, <1>2, <1>k, EpochFramed DEF EpochFrame, Departed, SchedulePcs
<1>10. LocInv'
  BY <1>0, <1>c, <1>1, <1>2, <1>k, LocFramed
  DEF LocInv, LocFrame, Leaving, StillOurs, PlacePcs, SchedulePcs
<1>11. ClaimInv'
  BY <1>0, <1>c, <1>1, <1>2, <1>k, ClaimFramed DEF ClaimFrame, Departed, SchedulePcs
<1>12. WarmInv'
  BY <1>0, <1>c, <1>1, <1>2, <1>k, WarmFramed DEF WarmInv, WarmFrame, Warming, OwnerPcs, WarmPcs
<1>13. CompletionInv'
  BY <1>0, <1>c, <1>1, <1>2, <1>k, CompletionFramed
  DEF CompletionInv, CompletionFrame, Owning, OwnerPcs, WarmPcs, Draining, DrainPcs, SchedulePcs
<1>. QED
  BY <1>3, <1>4, <1>5, <1>6, <1>7, <1>8, <1>9, <1>10, <1>11, <1>12, <1>13 DEF Inv

LEMMA DrainWorkKeeps ==
  ASSUME Inv, NEW w \in Workers, DrainWork(w) PROVE Inv'
<1>0. /\ TypeOK /\ LocalInv /\ ReserveInv /\ CountInv /\ HolderInv /\ SentinelInv /\ PinInv
      /\ EpochInv /\ LocInv /\ ClaimInv /\ WarmInv /\ CompletionInv
  BY DEF Inv
<1>c. /\ w \in Threads /\ Workers \cap Schedulers = {} /\ Workers \subseteq Threads /\ None \notin Processes
      /\ EMPTY \notin Processes /\ RESERVED \notin Processes /\ EMPTY # RESERVED
  BY Constants DEF Threads
<1>k. me[w].process \in Processes /\ ~me[w].entered /\ ~me[w].terminal
  <2>1. /\ JobOK(w) /\ (w \in Workers => LocalOK(w))
        /\ ret[w] \in {"wake", "rewake", "reclaim_wake"}
    BY <1>0, <1>c DEF LocalInv, TypeOK
  <2>. QED
    BY <2>1, <1>c
    DEF DrainWork, Goto, JobOK, PlacePcs, SchedulePcs, LocalOK, Draining, Owning, OwnerPcs,
       Departed, DrainPcs, WarmPcs
<1>1. /\ w \in Threads /\ pc[w] = "drain" /\ pc'[w] = "drained"
      /\ pc' \in [Threads -> Pcs]
      /\ \A u \in Threads : u # w => pc'[u] = pc[u]
      /\ me' \in [Workers -> Locals]
      /\ \A v \in Workers : v # w => me'[v] = me[v]
      /\ me'[w].slot = me[w].slot /\ me'[w].process = me[w].process
      /\ me'[w].epoch = me[w].epoch /\ me'[w].gen = me[w].gen
      /\ me'[w].terminal = me[w].terminal /\ me'[w].entered = me[w].entered
      /\ me'[w].rejoin = me[w].rejoin
      /\ work' \in [Processes -> Nat] /\ regionsLeft' \in [Processes -> Nat]
      /\ UNCHANGED <<client, state, scheduleState, needsDrain, retainDrain, placementEpoch,
                     placements, releasePending, retentionEpoch, warmRetainers, slotProcess,
                     slotEpoch, slotBudget, generation, drainers, sentinel, completionClaimed,
                     overflow, closing, completions, releases, callsLeft, rescan, todo, job,
                     probe, ret>>
  <2>1. PICK r \in Results : Returning(w, r)
    BY DEF DrainWork, Results, Useful
  <2>b. PICK b \in BOOLEAN : b = (r \in Useful \cup KeepActive)
    <3>1. CASE r \in Useful \cup KeepActive
      BY <3>1
    <3>2. CASE r \notin Useful \cup KeepActive
      <4>1. FALSE = (r \in Useful \cup KeepActive)
        BY <3>2
      <4>2. FALSE \in BOOLEAN
        OBVIOUS
      <4>. QED
        BY <4>1, <4>2, Zenon
    <3>. QED
      BY <3>1, <3>2
  <2>k. PICK k \in Nat : k = (IF r = "warm" THEN retentionEpoch[me[w].process] ELSE 0)
    BY <1>0, <1>k DEF TypeOK
  <2>m1. me \in [Workers -> Locals] /\ me[w] \in Locals
    BY <1>0 DEF TypeOK, Locals
  <2>m2. PICK l \in Locals : l = [me[w] EXCEPT !.result = r, !.didWork = b, !.keepEpoch = k]
    BY <2>m1, <2>1, <2>b, <2>k DEF Locals, Results
  <2>m3. me' = [me EXCEPT ![w] = l]
    BY <2>m1, <2>m2, <2>1, <2>b, <2>k DEF Returning
  <2>m4. /\ me' \in [Workers -> Locals] /\ me'[w] = l
         /\ \A v \in Workers : v # w => me'[v] = me[v]
    BY <2>m1, <2>m3
  <2>m5. /\ l.slot = me[w].slot /\ l.process = me[w].process /\ l.epoch = me[w].epoch
        /\ l.gen = me[w].gen /\ l.result = r /\ l.terminal = me[w].terminal
        /\ l.entered = me[w].entered /\ l.rejoin = me[w].rejoin /\ l.keepEpoch = k
        /\ l.didWork = b
    BY <2>m1, <2>m2 DEF Locals
  <2>g. /\ pc[w] = "drain" /\ pc'[w] = "drained" /\ pc' \in [Threads -> Pcs]
        /\ \A u \in Threads : u # w => pc'[u] = pc[u]
    BY <1>0, <1>c, <2>1
    DEF Returning, Goto, TypeOK, Pcs, DrainPcs, SchedulePcs, WarmPcs, ReleasePcs
  <2>3. work' \in [Processes -> Nat]
    <3>1. work[me[w].process] \in Nat /\ work[me[w].process] > 0 /\ work' = [work EXCEPT ![me[w].process] = @ - 1]
      BY <1>0, <1>k DEF DrainWork, TypeOK
    <3>2. work[me[w].process] - 1 \in Nat
      BY <3>1
    <3>. QED
      BY <1>0, <3>1, <3>2 DEF TypeOK
  <2>4. regionsLeft' \in [Processes -> Nat]
    <3>1. \/ regionsLeft' = regionsLeft
          \/ regionsLeft[me[w].process] > 0 /\ regionsLeft' = [regionsLeft EXCEPT ![me[w].process] = @ - 1]
      BY DEF DrainWork
    <3>2. regionsLeft[me[w].process] \in Nat
      BY <1>0, <1>k DEF TypeOK
    <3>. QED
      BY <1>0, <3>1, <3>2 DEF TypeOK
  <2>. QED
    BY <1>c, <2>m4, <2>m5, <2>g, <2>3, <2>4
    DEF DrainWork, processVars, slotVars, clientVars, callVars, scanVars
<1>2. Slots' = Slots /\ Locals' = Locals
  BY <1>1 DEF Slots, Locals
<1>3. TypeOK'
  BY <1>0, <1>c, <1>1, <1>2, <1>k, ClientFacts DEF TypeOK, Locals
<1>4. LocalInv'
  <2>1. ASSUME NEW v \in Workers PROVE LocalOK(v)'
    <3>1. LocalOK(v)
      BY <1>0 DEF LocalInv
    <3>. QED
      BY <1>0, <1>c, <1>1, <1>2, <1>k, <3>1
      DEF LocalOK, Draining, Owning, OwnerPcs, Departed, DrainPcs, SchedulePcs, WarmPcs
  <2>2. ASSUME NEW u \in Threads PROVE JobOK(u)'
    <3>1. JobOK(u) /\ ret[u] \in {"wake", "rewake", "reclaim_wake"}
      BY <1>0 DEF LocalInv, TypeOK
    <3>. QED
      BY <1>0, <1>c, <1>1, <1>2, <1>k, <3>1 DEF JobOK, PlacePcs, SchedulePcs
  <2>. QED
    BY <2>1, <2>2 DEF LocalInv
<1>5. ReserveInv'
  BY <1>0, <1>c, <1>1, <1>2, <1>k, ReserveFramed DEF ReserveFrame
<1>6. CountInv'
  BY <1>0, <1>c, <1>1, <1>2, <1>k, CountFramed
  DEF CountFrame, Registered, Draining, DrainPcs, SchedulePcs
<1>7. HolderInv' /\ SentinelInv'
  BY <1>0, <1>c, <1>1, <1>2, <1>k, HolderFramed
  DEF HolderFrame, Holding, OwnerPcs, WarmPcs, Draining, DrainPcs, SchedulePcs
<1>8. PinInv'
  BY <1>0, <1>c, <1>1, <1>2, <1>k, PinFramed
  DEF PinFrame, Owning, OwnerPcs, WarmPcs, Draining, DrainPcs, SchedulePcs
<1>9. EpochInv'
  BY <1>0, <1>c, <1>1, <1>2, <1>k, EpochFramed DEF EpochFrame, Departed, SchedulePcs
<1>10. LocInv'
  BY <1>0, <1>c, <1>1, <1>2, <1>k, LocFramed
  DEF LocInv, LocFrame, Leaving, StillOurs, PlacePcs, SchedulePcs
<1>11. ClaimInv'
  BY <1>0, <1>c, <1>1, <1>2, <1>k, ClaimFramed DEF ClaimFrame, Departed, SchedulePcs
<1>12. WarmInv'
  BY <1>0, <1>c, <1>1, <1>2, <1>k, WarmFramed DEF WarmInv, WarmFrame, Warming, OwnerPcs, WarmPcs
<1>13. CompletionInv'
  BY <1>0, <1>c, <1>1, <1>2, <1>k, CompletionFramed
  DEF CompletionInv, CompletionFrame, Owning, OwnerPcs, WarmPcs, Draining, DrainPcs, SchedulePcs
<1>. QED
  BY <1>3, <1>4, <1>5, <1>6, <1>7, <1>8, <1>9, <1>10, <1>11, <1>12, <1>13 DEF Inv

LEMMA DrainNothingKeeps ==
  ASSUME Inv, NEW w \in Workers, DrainNothing(w) PROVE Inv'
<1>0. /\ TypeOK /\ LocalInv /\ ReserveInv /\ CountInv /\ HolderInv /\ SentinelInv /\ PinInv
      /\ EpochInv /\ LocInv /\ ClaimInv /\ WarmInv /\ CompletionInv
  BY DEF Inv
<1>c. /\ w \in Threads /\ Workers \cap Schedulers = {} /\ Workers \subseteq Threads /\ None \notin Processes
      /\ EMPTY \notin Processes /\ RESERVED \notin Processes /\ EMPTY # RESERVED
  BY Constants DEF Threads
<1>k. me[w].process \in Processes /\ ~me[w].entered /\ ~me[w].terminal
  <2>1. /\ JobOK(w) /\ (w \in Workers => LocalOK(w))
        /\ ret[w] \in {"wake", "rewake", "reclaim_wake"}
    BY <1>0, <1>c DEF LocalInv, TypeOK
  <2>. QED
    BY <2>1, <1>c
    DEF DrainNothing, Goto, JobOK, PlacePcs, SchedulePcs, LocalOK, Draining, Owning, OwnerPcs,
       Departed, DrainPcs, WarmPcs
<1>1. /\ w \in Threads /\ pc[w] = "drain" /\ pc'[w] = "drained"
      /\ pc' \in [Threads -> Pcs]
      /\ \A u \in Threads : u # w => pc'[u] = pc[u]
      /\ me' \in [Workers -> Locals]
      /\ \A v \in Workers : v # w => me'[v] = me[v]
      /\ me'[w].slot = me[w].slot /\ me'[w].process = me[w].process
      /\ me'[w].epoch = me[w].epoch /\ me'[w].gen = me[w].gen
      /\ me'[w].terminal = me[w].terminal /\ me'[w].entered = me[w].entered
      /\ me'[w].rejoin = me[w].rejoin
      /\ UNCHANGED <<client, state, scheduleState, needsDrain, retainDrain, placementEpoch,
                     placements, releasePending, retentionEpoch, warmRetainers, slotProcess,
                     slotEpoch, slotBudget, generation, drainers, sentinel, completionClaimed,
                     overflow, work, regionsLeft, closing, completions, releases, callsLeft,
                     rescan, todo, job, probe, ret>>
  <2>1. PICK r \in Results : Returning(w, r)
    BY DEF DrainNothing, Results, KeepActive
  <2>b. PICK b \in BOOLEAN : b = (r \in Useful \cup KeepActive)
    <3>1. CASE r \in Useful \cup KeepActive
      BY <3>1
    <3>2. CASE r \notin Useful \cup KeepActive
      <4>1. FALSE = (r \in Useful \cup KeepActive)
        BY <3>2
      <4>2. FALSE \in BOOLEAN
        OBVIOUS
      <4>. QED
        BY <4>1, <4>2, Zenon
    <3>. QED
      BY <3>1, <3>2
  <2>k. PICK k \in Nat : k = (IF r = "warm" THEN retentionEpoch[me[w].process] ELSE 0)
    BY <1>0, <1>k DEF TypeOK
  <2>m1. me \in [Workers -> Locals] /\ me[w] \in Locals
    BY <1>0 DEF TypeOK, Locals
  <2>m2. PICK l \in Locals : l = [me[w] EXCEPT !.result = r, !.didWork = b, !.keepEpoch = k]
    BY <2>m1, <2>1, <2>b, <2>k DEF Locals, Results
  <2>m3. me' = [me EXCEPT ![w] = l]
    BY <2>m1, <2>m2, <2>1, <2>b, <2>k DEF Returning
  <2>m4. /\ me' \in [Workers -> Locals] /\ me'[w] = l
         /\ \A v \in Workers : v # w => me'[v] = me[v]
    BY <2>m1, <2>m3
  <2>m5. /\ l.slot = me[w].slot /\ l.process = me[w].process /\ l.epoch = me[w].epoch
        /\ l.gen = me[w].gen /\ l.result = r /\ l.terminal = me[w].terminal
        /\ l.entered = me[w].entered /\ l.rejoin = me[w].rejoin /\ l.keepEpoch = k
        /\ l.didWork = b
    BY <2>m1, <2>m2 DEF Locals
  <2>g. /\ pc[w] = "drain" /\ pc'[w] = "drained" /\ pc' \in [Threads -> Pcs]
        /\ \A u \in Threads : u # w => pc'[u] = pc[u]
    BY <1>0, <1>c, <2>1
    DEF Returning, Goto, TypeOK, Pcs, DrainPcs, SchedulePcs, WarmPcs, ReleasePcs
  <2>. QED
    BY <1>c, <2>m4, <2>m5, <2>g
    DEF DrainNothing, processVars, slotVars, clientVars, callVars, scanVars
<1>2. Slots' = Slots /\ Locals' = Locals
  BY <1>1 DEF Slots, Locals
<1>3. TypeOK'
  BY <1>0, <1>c, <1>1, <1>2, <1>k, ClientFacts DEF TypeOK, Locals
<1>4. LocalInv'
  <2>1. ASSUME NEW v \in Workers PROVE LocalOK(v)'
    <3>1. LocalOK(v)
      BY <1>0 DEF LocalInv
    <3>. QED
      BY <1>0, <1>c, <1>1, <1>2, <1>k, <3>1
      DEF LocalOK, Draining, Owning, OwnerPcs, Departed, DrainPcs, SchedulePcs, WarmPcs
  <2>2. ASSUME NEW u \in Threads PROVE JobOK(u)'
    <3>1. JobOK(u) /\ ret[u] \in {"wake", "rewake", "reclaim_wake"}
      BY <1>0 DEF LocalInv, TypeOK
    <3>. QED
      BY <1>0, <1>c, <1>1, <1>2, <1>k, <3>1 DEF JobOK, PlacePcs, SchedulePcs
  <2>. QED
    BY <2>1, <2>2 DEF LocalInv
<1>5. ReserveInv'
  BY <1>0, <1>c, <1>1, <1>2, <1>k, ReserveFramed DEF ReserveFrame
<1>6. CountInv'
  BY <1>0, <1>c, <1>1, <1>2, <1>k, CountFramed
  DEF CountFrame, Registered, Draining, DrainPcs, SchedulePcs
<1>7. HolderInv' /\ SentinelInv'
  BY <1>0, <1>c, <1>1, <1>2, <1>k, HolderFramed
  DEF HolderFrame, Holding, OwnerPcs, WarmPcs, Draining, DrainPcs, SchedulePcs
<1>8. PinInv'
  BY <1>0, <1>c, <1>1, <1>2, <1>k, PinFramed
  DEF PinFrame, Owning, OwnerPcs, WarmPcs, Draining, DrainPcs, SchedulePcs
<1>9. EpochInv'
  BY <1>0, <1>c, <1>1, <1>2, <1>k, EpochFramed DEF EpochFrame, Departed, SchedulePcs
<1>10. LocInv'
  BY <1>0, <1>c, <1>1, <1>2, <1>k, LocFramed
  DEF LocInv, LocFrame, Leaving, StillOurs, PlacePcs, SchedulePcs
<1>11. ClaimInv'
  BY <1>0, <1>c, <1>1, <1>2, <1>k, ClaimFramed DEF ClaimFrame, Departed, SchedulePcs
<1>12. WarmInv'
  BY <1>0, <1>c, <1>1, <1>2, <1>k, WarmFramed DEF WarmInv, WarmFrame, Warming, OwnerPcs, WarmPcs
<1>13. CompletionInv'
  BY <1>0, <1>c, <1>1, <1>2, <1>k, CompletionFramed
  DEF CompletionInv, CompletionFrame, Owning, OwnerPcs, WarmPcs, Draining, DrainPcs, SchedulePcs
<1>. QED
  BY <1>3, <1>4, <1>5, <1>6, <1>7, <1>8, <1>9, <1>10, <1>11, <1>12, <1>13 DEF Inv

LEMMA DrainElectKeeps ==
  ASSUME Inv, NEW w \in Workers, DrainElect(w) PROVE Inv'
<1>0. /\ TypeOK /\ LocalInv /\ ReserveInv /\ CountInv /\ HolderInv /\ SentinelInv /\ PinInv
      /\ EpochInv /\ LocInv /\ ClaimInv /\ WarmInv /\ CompletionInv
  BY DEF Inv
<1>c. /\ w \in Threads /\ Workers \cap Schedulers = {} /\ Workers \subseteq Threads /\ None \notin Processes
      /\ EMPTY \notin Processes /\ RESERVED \notin Processes /\ EMPTY # RESERVED
  BY Constants DEF Threads
<1>k. me[w].process \in Processes /\ ~me[w].entered /\ ~me[w].terminal
  <2>1. /\ JobOK(w) /\ (w \in Workers => LocalOK(w))
        /\ ret[w] \in {"wake", "rewake", "reclaim_wake"}
    BY <1>0, <1>c DEF LocalInv, TypeOK
  <2>. QED
    BY <2>1, <1>c
    DEF DrainElect, Goto, JobOK, PlacePcs, SchedulePcs, LocalOK, Draining, Owning, OwnerPcs,
       Departed, DrainPcs, WarmPcs
<1>1. /\ w \in Threads /\ pc[w] = "drain" /\ pc'[w] = "drained"
      /\ pc' \in [Threads -> Pcs]
      /\ \A u \in Threads : u # w => pc'[u] = pc[u]
      /\ me' \in [Workers -> Locals]
      /\ \A v \in Workers : v # w => me'[v] = me[v]
      /\ me'[w].slot = me[w].slot /\ me'[w].process = me[w].process
      /\ me'[w].epoch = me[w].epoch /\ me'[w].gen = me[w].gen
      /\ me'[w].terminal = me[w].terminal /\ me'[w].entered = me[w].entered
      /\ me'[w].rejoin = me[w].rejoin
      /\ retainDrain' \in [Processes -> BOOLEAN]
      /\ UNCHANGED <<client, state, scheduleState, needsDrain, placementEpoch, placements,
                     releasePending, retentionEpoch, warmRetainers, slotProcess, slotEpoch,
                     slotBudget, generation, drainers, sentinel, completionClaimed, overflow,
                     work, regionsLeft, closing, completions, releases, callsLeft, rescan,
                     todo, job, probe, ret>>
  <2>1. PICK r \in Results : Returning(w, r)
    BY DEF DrainElect, Results, KeepActive
  <2>b. PICK b \in BOOLEAN : b = (r \in Useful \cup KeepActive)
    <3>1. CASE r \in Useful \cup KeepActive
      BY <3>1
    <3>2. CASE r \notin Useful \cup KeepActive
      <4>1. FALSE = (r \in Useful \cup KeepActive)
        BY <3>2
      <4>2. FALSE \in BOOLEAN
        OBVIOUS
      <4>. QED
        BY <4>1, <4>2, Zenon
    <3>. QED
      BY <3>1, <3>2
  <2>k. PICK k \in Nat : k = (IF r = "warm" THEN retentionEpoch[me[w].process] ELSE 0)
    BY <1>0, <1>k DEF TypeOK
  <2>m1. me \in [Workers -> Locals] /\ me[w] \in Locals
    BY <1>0 DEF TypeOK, Locals
  <2>m2. PICK l \in Locals : l = [me[w] EXCEPT !.result = r, !.didWork = b, !.keepEpoch = k]
    BY <2>m1, <2>1, <2>b, <2>k DEF Locals, Results
  <2>m3. me' = [me EXCEPT ![w] = l]
    BY <2>m1, <2>m2, <2>1, <2>b, <2>k DEF Returning
  <2>m4. /\ me' \in [Workers -> Locals] /\ me'[w] = l
         /\ \A v \in Workers : v # w => me'[v] = me[v]
    BY <2>m1, <2>m3
  <2>m5. /\ l.slot = me[w].slot /\ l.process = me[w].process /\ l.epoch = me[w].epoch
        /\ l.gen = me[w].gen /\ l.result = r /\ l.terminal = me[w].terminal
        /\ l.entered = me[w].entered /\ l.rejoin = me[w].rejoin /\ l.keepEpoch = k
        /\ l.didWork = b
    BY <2>m1, <2>m2 DEF Locals
  <2>g. /\ pc[w] = "drain" /\ pc'[w] = "drained" /\ pc' \in [Threads -> Pcs]
        /\ \A u \in Threads : u # w => pc'[u] = pc[u]
    BY <1>0, <1>c, <2>1
    DEF Returning, Goto, TypeOK, Pcs, DrainPcs, SchedulePcs, WarmPcs, ReleasePcs
  <2>3. retainDrain' \in [Processes -> BOOLEAN]
    BY <1>0 DEF DrainElect, TypeOK
  <2>. QED
    BY <1>c, <2>m4, <2>m5, <2>g, <2>3
    DEF DrainElect, processVars, slotVars, clientVars, callVars, scanVars
<1>2. Slots' = Slots /\ Locals' = Locals
  BY <1>1 DEF Slots, Locals
<1>3. TypeOK'
  BY <1>0, <1>c, <1>1, <1>2, <1>k, ClientFacts DEF TypeOK, Locals
<1>4. LocalInv'
  <2>1. ASSUME NEW v \in Workers PROVE LocalOK(v)'
    <3>1. LocalOK(v)
      BY <1>0 DEF LocalInv
    <3>. QED
      BY <1>0, <1>c, <1>1, <1>2, <1>k, <3>1
      DEF LocalOK, Draining, Owning, OwnerPcs, Departed, DrainPcs, SchedulePcs, WarmPcs
  <2>2. ASSUME NEW u \in Threads PROVE JobOK(u)'
    <3>1. JobOK(u) /\ ret[u] \in {"wake", "rewake", "reclaim_wake"}
      BY <1>0 DEF LocalInv, TypeOK
    <3>. QED
      BY <1>0, <1>c, <1>1, <1>2, <1>k, <3>1 DEF JobOK, PlacePcs, SchedulePcs
  <2>. QED
    BY <2>1, <2>2 DEF LocalInv
<1>5. ReserveInv'
  BY <1>0, <1>c, <1>1, <1>2, <1>k, ReserveFramed DEF ReserveFrame
<1>6. CountInv'
  BY <1>0, <1>c, <1>1, <1>2, <1>k, CountFramed
  DEF CountFrame, Registered, Draining, DrainPcs, SchedulePcs
<1>7. HolderInv' /\ SentinelInv'
  BY <1>0, <1>c, <1>1, <1>2, <1>k, HolderFramed
  DEF HolderFrame, Holding, OwnerPcs, WarmPcs, Draining, DrainPcs, SchedulePcs
<1>8. PinInv'
  BY <1>0, <1>c, <1>1, <1>2, <1>k, PinFramed
  DEF PinFrame, Owning, OwnerPcs, WarmPcs, Draining, DrainPcs, SchedulePcs
<1>9. EpochInv'
  BY <1>0, <1>c, <1>1, <1>2, <1>k, EpochFramed DEF EpochFrame, Departed, SchedulePcs
<1>10. LocInv'
  BY <1>0, <1>c, <1>1, <1>2, <1>k, LocFramed
  DEF LocInv, LocFrame, Leaving, StillOurs, PlacePcs, SchedulePcs
<1>11. ClaimInv'
  BY <1>0, <1>c, <1>1, <1>2, <1>k, ClaimFramed DEF ClaimFrame, Departed, SchedulePcs
<1>12. WarmInv'
  BY <1>0, <1>c, <1>1, <1>2, <1>k, WarmFramed DEF WarmInv, WarmFrame, Warming, OwnerPcs, WarmPcs
<1>13. CompletionInv'
  BY <1>0, <1>c, <1>1, <1>2, <1>k, CompletionFramed
  DEF CompletionInv, CompletionFrame, Owning, OwnerPcs, WarmPcs, Draining, DrainPcs, SchedulePcs
<1>. QED
  BY <1>3, <1>4, <1>5, <1>6, <1>7, <1>8, <1>9, <1>10, <1>11, <1>12, <1>13 DEF Inv

LEMMA DrainPublishKeeps ==
  ASSUME Inv, NEW w \in Workers, DrainPublish(w) PROVE Inv'
<1>0. /\ TypeOK /\ LocalInv /\ ReserveInv /\ CountInv /\ HolderInv /\ SentinelInv /\ PinInv
      /\ EpochInv /\ LocInv /\ ClaimInv /\ WarmInv /\ CompletionInv
  BY DEF Inv
<1>c. /\ w \in Threads /\ Workers \cap Schedulers = {} /\ Workers \subseteq Threads /\ None \notin Processes
      /\ EMPTY \notin Processes /\ RESERVED \notin Processes /\ EMPTY # RESERVED
  BY Constants DEF Threads
<1>k. me[w].process \in Processes /\ ~me[w].entered /\ ~me[w].terminal
  <2>1. /\ JobOK(w) /\ (w \in Workers => LocalOK(w))
        /\ ret[w] \in {"wake", "rewake", "reclaim_wake"}
    BY <1>0, <1>c DEF LocalInv, TypeOK
  <2>. QED
    BY <2>1, <1>c
    DEF DrainPublish, Goto, JobOK, PlacePcs, SchedulePcs, LocalOK, Draining, Owning, OwnerPcs,
       Departed, DrainPcs, WarmPcs
<1>1. /\ w \in Threads /\ pc[w] = "publish" /\ pc'[w] = "exit"
      /\ pc' \in [Threads -> Pcs]
      /\ \A u \in Threads : u # w => pc'[u] = pc[u]
      /\ me' = me
      /\ needsDrain' \in [Processes -> BOOLEAN] /\ retainDrain' \in [Processes -> BOOLEAN]
      /\ UNCHANGED <<client, state, scheduleState, placementEpoch, placements, releasePending,
                     retentionEpoch, warmRetainers, slotProcess, slotEpoch, slotBudget,
                     generation, drainers, sentinel, completionClaimed, overflow, work,
                     regionsLeft, closing, completions, releases, callsLeft, rescan, todo, job,
                     probe, ret>>
  <2>1. needsDrain' \in [Processes -> BOOLEAN]
    BY <1>0, <1>k DEF DrainPublish, AnnounceProgress, TypeOK
  <2>2. retainDrain' \in [Processes -> BOOLEAN]
    BY <1>0, <1>k DEF DrainPublish, TypeOK
  <2>. QED
    BY <1>0, <1>c, <2>1, <2>2
    DEF DrainPublish, Goto, TypeOK, Pcs, DrainPcs, processVars, slotVars, clientVars, callVars,
       scanVars
<1>2. Slots' = Slots /\ Locals' = Locals
  BY <1>1 DEF Slots, Locals
<1>3. TypeOK'
  BY <1>0, <1>c, <1>1, <1>2, <1>k, ClientFacts DEF TypeOK, Locals
<1>4. LocalInv'
  <2>1. ASSUME NEW v \in Workers PROVE LocalOK(v)'
    <3>1. LocalOK(v)
      BY <1>0 DEF LocalInv
    <3>. QED
      BY <1>0, <1>c, <1>1, <1>2, <1>k, <3>1
      DEF LocalOK, Draining, Owning, OwnerPcs, Departed, DrainPcs, SchedulePcs, WarmPcs
  <2>2. ASSUME NEW u \in Threads PROVE JobOK(u)'
    <3>1. JobOK(u) /\ ret[u] \in {"wake", "rewake", "reclaim_wake"}
      BY <1>0 DEF LocalInv, TypeOK
    <3>. QED
      BY <1>0, <1>c, <1>1, <1>2, <1>k, <3>1 DEF JobOK, PlacePcs, SchedulePcs
  <2>. QED
    BY <2>1, <2>2 DEF LocalInv
<1>5. ReserveInv'
  BY <1>0, <1>c, <1>1, <1>2, <1>k, ReserveFramed DEF ReserveFrame
<1>6. CountInv'
  BY <1>0, <1>c, <1>1, <1>2, <1>k, CountFramed
  DEF CountFrame, Registered, Draining, DrainPcs, SchedulePcs
<1>7. HolderInv' /\ SentinelInv'
  BY <1>0, <1>c, <1>1, <1>2, <1>k, HolderFramed
  DEF HolderFrame, Holding, OwnerPcs, WarmPcs, Draining, DrainPcs, SchedulePcs
<1>8. PinInv'
  BY <1>0, <1>c, <1>1, <1>2, <1>k, PinFramed
  DEF PinFrame, Owning, OwnerPcs, WarmPcs, Draining, DrainPcs, SchedulePcs
<1>9. EpochInv'
  BY <1>0, <1>c, <1>1, <1>2, <1>k, EpochFramed DEF EpochFrame, Departed, SchedulePcs
<1>10. LocInv'
  BY <1>0, <1>c, <1>1, <1>2, <1>k, LocFramed
  DEF LocInv, LocFrame, Leaving, StillOurs, PlacePcs, SchedulePcs
<1>11. ClaimInv'
  BY <1>0, <1>c, <1>1, <1>2, <1>k, ClaimFramed DEF ClaimFrame, Departed, SchedulePcs
<1>12. WarmInv'
  BY <1>0, <1>c, <1>1, <1>2, <1>k, WarmFramed DEF WarmInv, WarmFrame, Warming, OwnerPcs, WarmPcs
<1>13. CompletionInv'
  BY <1>0, <1>c, <1>1, <1>2, <1>k, CompletionFramed
  DEF CompletionInv, CompletionFrame, Owning, OwnerPcs, WarmPcs, Draining, DrainPcs, SchedulePcs
<1>. QED
  BY <1>3, <1>4, <1>5, <1>6, <1>7, <1>8, <1>9, <1>10, <1>11, <1>12, <1>13 DEF Inv

LEMMA DrainReturnKeeps ==
  ASSUME Inv, NEW w \in Workers, DrainReturn(w) PROVE Inv'
<1>0. /\ TypeOK /\ LocalInv /\ ReserveInv /\ CountInv /\ HolderInv /\ SentinelInv /\ PinInv
      /\ EpochInv /\ LocInv /\ ClaimInv /\ WarmInv /\ CompletionInv
  BY DEF Inv
<1>c. /\ w \in Threads /\ Workers \cap Schedulers = {} /\ Workers \subseteq Threads /\ None \notin Processes
      /\ EMPTY \notin Processes /\ RESERVED \notin Processes /\ EMPTY # RESERVED
  BY Constants DEF Threads
<1>k. me[w].process \in Processes /\ ~me[w].entered /\ ~me[w].terminal
  <2>1. /\ JobOK(w) /\ (w \in Workers => LocalOK(w))
        /\ ret[w] \in {"wake", "rewake", "reclaim_wake"}
    BY <1>0, <1>c DEF LocalInv, TypeOK
  <2>. QED
    BY <2>1, <1>c
    DEF DrainReturn, Goto, JobOK, PlacePcs, SchedulePcs, LocalOK, Draining, Owning, OwnerPcs,
       Departed, DrainPcs, WarmPcs
<1>1. /\ w \in Threads /\ pc[w] = "drained" /\ pc'[w] \in {"claim", "publish", "retain", "exit", "leave"}
      /\ pc' \in [Threads -> Pcs]
      /\ \A u \in Threads : u # w => pc'[u] = pc[u]
      /\ me' \in [Workers -> Locals]
      /\ \A v \in Workers : v # w => me'[v] = me[v]
      /\ me'[w].slot = me[w].slot /\ me'[w].process = me[w].process
      /\ me'[w].epoch = me[w].epoch /\ me'[w].gen = me[w].gen /\ me'[w].result = me[w].result
      /\ me'[w].entered = me[w].entered /\ me'[w].rejoin = me[w].rejoin
      /\ me'[w].keepEpoch = me[w].keepEpoch /\ me'[w].didWork = me[w].didWork
      /\ state' \in [Processes -> {"SUSPENDED", "RUNNABLE", "COMPLETED"}]
      /\ (state' = state \/ (state' = [state EXCEPT ![me[w].process] = "COMPLETED"] /\ pc'[w] = "claim"))
      /\ (me'[w].terminal <=> pc'[w] = "claim")
      /\ retentionEpoch' \in [Processes -> Nat] /\ work' \in [Processes -> Nat]
      /\ UNCHANGED <<client, scheduleState, needsDrain, retainDrain, placementEpoch,
                     placements, releasePending, warmRetainers, slotProcess, slotEpoch,
                     slotBudget, generation, drainers, sentinel, completionClaimed, overflow,
                     regionsLeft, closing, completions, releases, callsLeft, rescan, todo, job,
                     probe, ret>>
  <2>1. PICK tm \in BOOLEAN : tm = (me[w].result = "closed" \/ me[w].result = "fail" \/ Terminal(me[w].process))
    OBVIOUS
  <2>m1. me \in [Workers -> Locals] /\ me[w] \in Locals
    BY <1>0 DEF TypeOK, Locals
  <2>m2. PICK l \in Locals : l = [me[w] EXCEPT !.terminal = tm]
    BY <2>m1, <2>1 DEF Locals, Results
  <2>m3. me' = [me EXCEPT ![w] = l]
    BY <2>m1, <2>m2, <2>1 DEF DrainReturn
  <2>m4. /\ me' \in [Workers -> Locals] /\ me'[w] = l
         /\ \A v \in Workers : v # w => me'[v] = me[v]
    BY <2>m1, <2>m3
  <2>m5. /\ l.slot = me[w].slot /\ l.process = me[w].process /\ l.epoch = me[w].epoch
        /\ l.gen = me[w].gen /\ l.result = me[w].result /\ l.terminal = tm
        /\ l.entered = me[w].entered /\ l.rejoin = me[w].rejoin /\ l.keepEpoch = me[w].keepEpoch
        /\ l.didWork = me[w].didWork
    BY <2>m1, <2>m2 DEF Locals
  <2>g. /\ pc[w] = "drained" /\ pc'[w] \in {"claim", "publish", "retain", "exit", "leave"} /\ pc' \in [Threads -> Pcs]
        /\ (tm <=> pc'[w] = "claim")
        /\ \A u \in Threads : u # w => pc'[u] = pc[u]
    BY <1>0, <1>c, <2>1 DEF DrainReturn, Goto, TypeOK, Pcs, DrainPcs
  <2>2. state' \in [Processes -> {"SUSPENDED", "RUNNABLE", "COMPLETED"}]
    BY <1>0, <1>k DEF DrainReturn, TypeOK
  <2>3. state' = state \/ (state' = [state EXCEPT ![me[w].process] = "COMPLETED"] /\ me[w].result = "fail")
    BY <1>0, <1>k DEF DrainReturn, TypeOK
  <2>4. retentionEpoch' \in [Processes -> Nat]
    BY <1>0, <1>k DEF DrainReturn, TypeOK
  <2>5. work' \in [Processes -> Nat]
    BY <1>0, <1>k DEF DrainReturn, TypeOK
  <2>. QED
    BY <1>c, <2>m4, <2>m5, <2>g, <2>1, <2>2, <2>3, <2>4, <2>5
    DEF DrainReturn, processVars, slotVars, clientVars, callVars, scanVars
<1>2. Slots' = Slots /\ Locals' = Locals
  BY <1>1 DEF Slots, Locals
<1>h. /\ me[w].process \in Processes /\ me[w].slot \in Slots
      /\ slotProcess[me[w].slot] = me[w].process
      /\ \A s \in Slots : slotProcess[s] = me[w].process => s = me[w].slot
      /\ InSlot(me[w].process) /\ ~InHand(me[w].process) /\ ~OnItsWay(me[w].process)
      /\ me[w].process \notin overflow /\ scheduleState[me[w].process] # "IDLE"
      /\ state[me[w].process] # "SUSPENDED"
  <2>1. Draining(w)
    BY <1>1 DEF Draining, DrainPcs, Owning, OwnerPcs, WarmPcs
  <2>. QED
    BY <2>1, Housed
<1>a. ASSUME NEW v \in Workers, Holding(v)
      PROVE  /\ me[v].slot # me[w].slot /\ ~sentinel[me[w].slot] /\ v # w
             /\ Owning(v) => me[v].process # me[w].process
  <2>1. Draining(w)
    BY <1>1 DEF Draining, DrainPcs
  <2>. QED
    BY <1>0, <1>a, <2>1, Apart DEF HolderInv
<1>m. /\ \A q \in Processes : q # me[w].process => state'[q] = state[q]
      /\ \A q \in Processes : state'[q] = "SUSPENDED" <=> state[q] = "SUSPENDED"
      /\ \A q \in Processes : state[q] = "COMPLETED" => state'[q] = "COMPLETED"
  BY <1>0, <1>1, <1>h DEF TypeOK
<1>3. TypeOK'
  BY <1>0, <1>c, <1>1, <1>2, <1>k, <1>h, <1>m, ClientFacts DEF TypeOK, Locals
<1>4. LocalInv'
  <2>1. ASSUME NEW v \in Workers PROVE LocalOK(v)'
    <3>1. LocalOK(v)
      BY <1>0 DEF LocalInv
    <3>. QED
      BY <1>0, <1>c, <1>1, <1>2, <1>k, <1>h, <1>m, <3>1
      DEF LocalOK, Draining, Owning, OwnerPcs, Departed, DrainPcs, SchedulePcs, WarmPcs
  <2>2. ASSUME NEW u \in Threads PROVE JobOK(u)'
    <3>1. JobOK(u) /\ ret[u] \in {"wake", "rewake", "reclaim_wake"}
      BY <1>0 DEF LocalInv, TypeOK
    <3>. QED
      BY <1>0, <1>c, <1>1, <1>2, <1>k, <1>h, <1>m, <3>1 DEF JobOK, PlacePcs, SchedulePcs
  <2>. QED
    BY <2>1, <2>2 DEF LocalInv
<1>5. ReserveInv'
  BY <1>0, <1>c, <1>1, <1>2, <1>k, <1>h, <1>m, ReserveFramed DEF ReserveFrame
<1>6. CountInv'
  BY <1>0, <1>c, <1>1, <1>2, <1>k, <1>h, <1>m, CountFramed
  DEF CountFrame, Registered, Draining, DrainPcs, SchedulePcs
<1>7. HolderInv' /\ SentinelInv'
  BY <1>0, <1>c, <1>1, <1>2, <1>k, <1>h, <1>m, HolderFramed
  DEF HolderFrame, Holding, OwnerPcs, WarmPcs, Draining, DrainPcs, SchedulePcs
<1>8. PinInv'
  BY <1>0, <1>c, <1>1, <1>2, <1>k, <1>h, <1>m, PinFramed
  DEF PinFrame, Owning, OwnerPcs, WarmPcs, Draining, DrainPcs, SchedulePcs
<1>9. EpochInv'
  BY <1>0, <1>c, <1>1, <1>2, <1>k, <1>h, <1>m, EpochFramed DEF EpochFrame, Departed, SchedulePcs
<1>10. LocInv'
  <2>1. ASSUME NEW v \in Workers, pc'[v] = "clear" \/ Leaving(v)'
        PROVE  /\ v # w /\ me[v].process # me[w].process
               /\ pc'[v] = pc[v] /\ me'[v] = me[v] /\ ret'[v] = ret[v] /\ (Leaving(v)' => Leaving(v))
    <3>1. /\ v # w /\ pc'[v] = pc[v] /\ me'[v] = me[v] /\ ret'[v] = ret[v]
          /\ (pc'[v] = "clear" => Owning(v) /\ Holding(v)) /\ (Leaving(v)' => Leaving(v))
      BY <1>0, <1>c, <1>1, <1>2, <1>k, <1>h, <1>m, <2>1
      DEF Leaving, StillOurs, Owning, OwnerPcs, Holding, SchedulePcs
    <3>2. Leaving(v) => me[v].process # me[w].process
      BY <1>h DEF OnItsWay, Leaves
    <3>. QED
      BY <1>a, <2>1, <3>1, <3>2
  <2>2. ASSUME NEW v \in Workers, pc'[v] = "clear" \/ Leaving(v)'
        PROVE  state'[me[v].process] = state[me[v].process]
    <3>1. me[v].process \in Processes /\ me[v].process # me[w].process
      BY <1>0, <1>c, <1>1, <1>2, <1>k, <1>h, <1>m, <2>1, <2>2
      DEF LocalInv, LocalOK, Owning, OwnerPcs, Departed, Leaving, SchedulePcs
    <3>. QED
      BY <1>0, <1>c, <1>1, <1>2, <1>k, <1>h, <1>m, <3>1, <2>1, <2>2
  <2>3. ASSUME NEW v \in Workers, pc'[v] = "idle" PROVE (StillOurs(v) /\ ~me[v].terminal)'
    BY <1>0, <1>c, <1>1, <1>2, <1>k, <1>h, <1>m, <2>3 DEF LocInv, StillOurs
  <2>4. \A u \in Threads : pc'[u] \in {"consume"} \cup PlacePcs =>
          pc[u] \in {"consume"} \cup PlacePcs /\ job'[u] = job[u]
    BY <1>0, <1>c, <1>1, <1>2, <1>k, <1>h, <1>m DEF PlacePcs
  <2>. QED
    BY <1>0, <1>c, <1>1, <1>2, <1>k, <1>h, <1>m, <2>1, <2>2, <2>3, <2>4, LocFramed DEF LocFrame
<1>11. ClaimInv'
  BY <1>0, <1>c, <1>1, <1>2, <1>k, <1>h, <1>m, ClaimFramed DEF ClaimFrame, Departed, SchedulePcs
<1>12. WarmInv'
  BY <1>0, <1>c, <1>1, <1>2, <1>k, <1>h, <1>m, WarmFramed
  DEF WarmInv, WarmFrame, Warming, OwnerPcs, WarmPcs
<1>13. CompletionInv'
  <2>1. CASE state' = state
    BY <1>0, <1>c, <1>1, <1>2, <1>k, <1>h, <1>m, <2>1, CompletionFramed
    DEF CompletionInv, CompletionFrame, Owning, OwnerPcs, WarmPcs, Draining, DrainPcs, SchedulePcs
  <2>2. CASE state' # state
    <3>1. pc'[w] = "claim" /\ me'[w].process = me[w].process /\ me'[w].slot = me[w].slot
      BY <1>0, <1>c, <1>1, <1>2, <1>k, <1>h, <1>m, <2>2
    <3>2. ASSUME NEW p \in Processes
          PROVE  (/\ completions[p] \in {0, 1} /\ (completions[p] = 1 => Terminal(p))
                  /\ Terminal(p) /\ completions[p] = 0 => Resolving(p)
                  /\ completions[p] = 0 /\ client.dependent[p] # None =>
                       state[client.dependent[p]] = "SUSPENDED")'
      <4>1. Resolving(p) => Resolving(p)'
        BY <1>0, <1>c, <1>1, <1>2, <1>k, <1>h, <1>m DEF Resolving
      <4>2. p = me[w].process => Resolving(p)'
        BY <3>1 DEF Resolving
      <4>3. Terminal(p)' => Terminal(p) \/ p = me[w].process
        BY <1>0, <1>c, <1>1, <1>2, <1>k, <1>h, <1>m DEF Terminal
      <4>4. client.dependent[p] # None => client.dependent[p] \in Processes
        BY <1>0, ClientFacts
      <4>. QED
        BY <1>0, <1>c, <1>1, <1>2, <1>k, <1>h, <1>m, <4>1, <4>2, <4>3, <4>4
        DEF CompletionInv, Terminal
    <3>3. ASSUME NEW v \in Workers
          PROVE  (/\ pc[v] = "complete" =>
                       /\ completions[me[v].process] = 0
                       /\ \A u \in Workers : pc[u] = "complete" /\ me[u].slot = me[v].slot => u = v
                  /\ Draining(v) /\ me[v].terminal /\ pc[v] # "claim" => completionClaimed[me[v].slot]
                  /\ (Owning(v) \/ pc[v] \in WarmPcs \cup {"final"}) /\ me[v].terminal =>
                       completions[me[v].process] = 1)'
      BY <1>0, <1>c, <1>1, <1>2, <1>k, <1>h, <1>m, <3>1
      DEF CompletionInv, Owning, OwnerPcs, WarmPcs, Draining, DrainPcs, SchedulePcs
    <3>4. ASSUME NEW s \in Slots
          PROVE  (/\ completionClaimed[s] /\ ~Resetting(s) =>
                       slotProcess[s] \in Processes /\ (completions[slotProcess[s]] = 1 \/ Completing(s))
                  /\ slotProcess[s] \in Processes =>
                       /\ completions[slotProcess[s]] = 1 \/ Completing(s) => completionClaimed[s]
                       /\ Resetting(s) => ~Terminal(slotProcess[s]))'
      <4>1. /\ Completing(s)' <=> Completing(s)
            /\ Resetting(s)' <=> Resetting(s)
        BY <1>0, <1>c, <1>1, <1>2, <1>k, <1>h, <1>m DEF Completing, Resetting
      <4>2. Resetting(s) => s # me[w].slot
        BY <1>a DEF Resetting, Holding
      <4>3. slotProcess[s] \in Processes /\ s # me[w].slot =>
              state'[slotProcess[s]] = state[slotProcess[s]]
        BY <1>0, <1>c, <1>1, <1>2, <1>k, <1>h, <1>m
      <4>. QED
        BY <1>0, <1>c, <1>1, <1>2, <1>k, <1>h, <1>m, <4>1, <4>2, <4>3 DEF CompletionInv, Terminal
    <3>. QED
      BY <1>2, <3>2, <3>3, <3>4 DEF CompletionInv
  <2>. QED
    BY <2>1, <2>2
<1>. QED
  BY <1>3, <1>4, <1>5, <1>6, <1>7, <1>8, <1>9, <1>10, <1>11, <1>12, <1>13 DEF Inv

LEMMA ClaimCompletionKeeps ==
  ASSUME Inv, NEW w \in Workers, ClaimCompletion(w) PROVE Inv'
<1>0. /\ TypeOK /\ LocalInv /\ ReserveInv /\ CountInv /\ HolderInv /\ SentinelInv /\ PinInv
      /\ EpochInv /\ LocInv /\ ClaimInv /\ WarmInv /\ CompletionInv
  BY DEF Inv
<1>c. /\ w \in Threads /\ Workers \cap Schedulers = {} /\ Workers \subseteq Threads /\ None \notin Processes
      /\ EMPTY \notin Processes /\ RESERVED \notin Processes /\ EMPTY # RESERVED
  BY Constants DEF Threads
<1>k. me[w].process \in Processes /\ ~me[w].entered
  <2>1. /\ JobOK(w) /\ (w \in Workers => LocalOK(w))
        /\ ret[w] \in {"wake", "rewake", "reclaim_wake"}
    BY <1>0, <1>c DEF LocalInv, TypeOK
  <2>. QED
    BY <2>1, <1>c
    DEF ClaimCompletion, Goto, JobOK, PlacePcs, SchedulePcs, LocalOK, Draining, Owning, OwnerPcs,
       Departed, DrainPcs, WarmPcs
<1>1. /\ w \in Threads /\ pc[w] = "claim" /\ pc'[w] \in {"complete", "leave"}
      /\ pc' \in [Threads -> Pcs]
      /\ \A u \in Threads : u # w => pc'[u] = pc[u]
      /\ me' = me
      /\ completionClaimed' \in [Slots -> BOOLEAN]
      /\ completionClaimed' = [completionClaimed EXCEPT ![me[w].slot] = TRUE]
      /\ (pc'[w] = "complete" <=> ~completionClaimed[me[w].slot])
      /\ UNCHANGED <<client, state, scheduleState, needsDrain, retainDrain, placementEpoch,
                     placements, releasePending, retentionEpoch, warmRetainers, slotProcess,
                     slotEpoch, slotBudget, generation, drainers, sentinel, overflow, work,
                     regionsLeft, closing, completions, releases, callsLeft, rescan, todo, job,
                     probe, ret>>
  <2>1. completionClaimed' \in [Slots -> BOOLEAN]
    BY <1>0 DEF ClaimCompletion, TypeOK
  <2>2. pc'[w] = "complete" <=> ~completionClaimed[me[w].slot]
    BY <1>0, <1>c DEF ClaimCompletion, WinsCompletion, Goto, TypeOK
  <2>g. /\ pc[w] = "claim" /\ pc'[w] \in {"complete", "leave"} /\ pc' \in [Threads -> Pcs]
        /\ \A u \in Threads : u # w => pc'[u] = pc[u]
    BY <1>0, <1>c
    DEF ClaimCompletion, Goto, TypeOK, Pcs, DrainPcs, SchedulePcs, WarmPcs, ReleasePcs
  <2>. QED
    BY <1>c, <2>1, <2>2, <2>g
    DEF ClaimCompletion, processVars, slotVars, clientVars, callVars, scanVars
<1>2. Slots' = Slots /\ Locals' = Locals
  BY <1>1 DEF Slots, Locals
<1>h. /\ me[w].process \in Processes /\ me[w].slot \in Slots
      /\ slotProcess[me[w].slot] = me[w].process
      /\ \A s \in Slots : slotProcess[s] = me[w].process => s = me[w].slot
      /\ InSlot(me[w].process) /\ ~InHand(me[w].process) /\ ~OnItsWay(me[w].process)
      /\ me[w].process \notin overflow /\ scheduleState[me[w].process] # "IDLE"
      /\ state[me[w].process] # "SUSPENDED"
  <2>1. Draining(w)
    BY <1>1 DEF Draining, DrainPcs, Owning, OwnerPcs, WarmPcs
  <2>. QED
    BY <2>1, Housed
<1>a. ASSUME NEW v \in Workers, Holding(v)
      PROVE  /\ me[v].slot # me[w].slot /\ ~sentinel[me[w].slot] /\ v # w
             /\ Owning(v) => me[v].process # me[w].process
  <2>1. Draining(w)
    BY <1>1 DEF Draining, DrainPcs
  <2>. QED
    BY <1>0, <1>a, <2>1, Apart DEF HolderInv
<1>3. TypeOK'
  BY <1>0, <1>c, <1>1, <1>2, <1>k, <1>h, ClientFacts DEF TypeOK, Locals
<1>4. LocalInv'
  <2>1. ASSUME NEW v \in Workers PROVE LocalOK(v)'
    <3>1. LocalOK(v)
      BY <1>0 DEF LocalInv
    <3>. QED
      BY <1>0, <1>c, <1>1, <1>2, <1>k, <1>h, <3>1
      DEF LocalOK, Draining, Owning, OwnerPcs, Departed, DrainPcs, SchedulePcs, WarmPcs
  <2>2. ASSUME NEW u \in Threads PROVE JobOK(u)'
    <3>1. JobOK(u) /\ ret[u] \in {"wake", "rewake", "reclaim_wake"}
      BY <1>0 DEF LocalInv, TypeOK
    <3>. QED
      BY <1>0, <1>c, <1>1, <1>2, <1>k, <1>h, <3>1 DEF JobOK, PlacePcs, SchedulePcs
  <2>. QED
    BY <2>1, <2>2 DEF LocalInv
<1>5. ReserveInv'
  BY <1>0, <1>c, <1>1, <1>2, <1>k, <1>h, ReserveFramed DEF ReserveFrame
<1>6. CountInv'
  BY <1>0, <1>c, <1>1, <1>2, <1>k, <1>h, CountFramed
  DEF CountFrame, Registered, Draining, DrainPcs, SchedulePcs
<1>7. HolderInv' /\ SentinelInv'
  BY <1>0, <1>c, <1>1, <1>2, <1>k, <1>h, HolderFramed
  DEF HolderFrame, Holding, OwnerPcs, WarmPcs, Draining, DrainPcs, SchedulePcs
<1>8. PinInv'
  BY <1>0, <1>c, <1>1, <1>2, <1>k, <1>h, PinFramed
  DEF PinFrame, Owning, OwnerPcs, WarmPcs, Draining, DrainPcs, SchedulePcs
<1>9. EpochInv'
  BY <1>0, <1>c, <1>1, <1>2, <1>k, <1>h, EpochFramed DEF EpochFrame, Departed, SchedulePcs
<1>10. LocInv'
  BY <1>0, <1>c, <1>1, <1>2, <1>k, <1>h, LocFramed
  DEF LocInv, LocFrame, Leaving, StillOurs, PlacePcs, SchedulePcs
<1>11. ClaimInv'
  BY <1>0, <1>c, <1>1, <1>2, <1>k, <1>h, ClaimFramed DEF ClaimFrame, Departed, SchedulePcs
<1>12. WarmInv'
  BY <1>0, <1>c, <1>1, <1>2, <1>k, <1>h, WarmFramed
  DEF WarmInv, WarmFrame, Warming, OwnerPcs, WarmPcs
<1>13. CompletionInv'
  <2>0. /\ completionClaimed'[me[w].slot]
        /\ \A s \in Slots : s # me[w].slot => completionClaimed'[s] = completionClaimed[s]
    BY <1>0, <1>c, <1>1, <1>2, <1>k, <1>h DEF TypeOK
  <2>1. ASSUME NEW s \in Slots
        PROVE  /\ Resetting(s)' <=> Resetting(s)
               /\ Completing(s)' <=> Completing(s) \/ (s = me[w].slot /\ pc'[w] = "complete")
    BY <1>0, <1>c, <1>1, <1>2, <1>k, <1>h DEF Resetting, Completing
  <2>2. ~Resetting(me[w].slot)
    BY <1>a DEF Resetting, Holding
  <2>3. CASE pc'[w] = "complete"
    <3>1. completions[me[w].process] # 1 /\ ~Completing(me[w].slot)
      BY <1>0, <1>c, <1>1, <1>2, <1>k, <1>h, <2>3 DEF CompletionInv
    <3>2. completions[me[w].process] = 0
      BY <1>0, <1>c, <1>1, <1>2, <1>k, <1>h, <3>1 DEF CompletionInv
    <3>3. ASSUME NEW p \in Processes
          PROVE  (/\ completions[p] \in {0, 1} /\ (completions[p] = 1 => Terminal(p))
                  /\ Terminal(p) /\ completions[p] = 0 => Resolving(p)
                  /\ completions[p] = 0 /\ client.dependent[p] # None =>
                       state[client.dependent[p]] = "SUSPENDED")'
      <4>1. Resolving(p) => Resolving(p)'
        BY <1>0, <1>c, <1>1, <1>2, <1>k, <1>h, <2>3 DEF Resolving
      <4>. QED
        BY <1>0, <1>c, <1>1, <1>2, <1>k, <1>h, <4>1 DEF CompletionInv, Terminal
    <3>4. ASSUME NEW v \in Workers
          PROVE  (/\ pc[v] = "complete" =>
                       /\ completions[me[v].process] = 0
                       /\ \A u \in Workers : pc[u] = "complete" /\ me[u].slot = me[v].slot => u = v
                  /\ Draining(v) /\ me[v].terminal /\ pc[v] # "claim" => completionClaimed[me[v].slot]
                  /\ (Owning(v) \/ pc[v] \in WarmPcs \cup {"final"}) /\ me[v].terminal =>
                       completions[me[v].process] = 1)'
      <4>1. pc'[v] = "complete" => completions[me[v].process] = 0
        BY <1>0, <1>c, <1>1, <1>2, <1>k, <1>h, <3>2 DEF CompletionInv
      <4>2. ASSUME pc'[v] = "complete", NEW u \in Workers, pc'[u] = "complete", me[u].slot = me[v].slot
            PROVE  u = v
        BY <1>0, <1>c, <1>1, <1>2, <1>k, <1>h, <3>1, <4>2 DEF CompletionInv, Completing
      <4>3. Draining(v)' /\ me[v].terminal /\ pc'[v] # "claim" => completionClaimed'[me[v].slot]
        <5>1. me[v].slot \in Slots
          BY <1>0 DEF TypeOK
        <5>. QED
          BY <1>0, <1>c, <1>1, <1>2, <1>k, <1>h, <2>0, <5>1
          DEF CompletionInv, Draining, DrainPcs, SchedulePcs
      <4>4. (Owning(v)' \/ pc'[v] \in WarmPcs \cup {"final"}) /\ me[v].terminal =>
              completions[me[v].process] = 1
        BY <1>0, <1>c, <1>1, <1>2, <1>k, <1>h DEF CompletionInv, Owning, OwnerPcs, WarmPcs
      <4>. QED
        BY <1>1, <4>1, <4>2, <4>3, <4>4
    <3>5. ASSUME NEW s \in Slots
          PROVE  (/\ completionClaimed[s] /\ ~Resetting(s) =>
                       slotProcess[s] \in Processes /\ (completions[slotProcess[s]] = 1 \/ Completing(s))
                  /\ slotProcess[s] \in Processes =>
                       /\ completions[slotProcess[s]] = 1 \/ Completing(s) => completionClaimed[s]
                       /\ Resetting(s) => ~Terminal(slotProcess[s]))'
      BY <1>0, <1>c, <1>1, <1>2, <1>k, <1>h, <2>0, <2>1, <2>2, <2>3 DEF CompletionInv, Terminal
    <3>. QED
      BY <1>2, <3>3, <3>4, <3>5 DEF CompletionInv
  <2>4. CASE pc'[w] = "leave"
    <3>1. completionClaimed' = completionClaimed /\ completionClaimed[me[w].slot]
      BY <1>0, <1>c, <1>1, <1>2, <1>k, <1>h, <2>4 DEF TypeOK
    <3>2. completions[me[w].process] = 1 \/ Completing(me[w].slot)
      BY <1>0, <1>c, <1>1, <1>2, <1>k, <1>h, <2>2, <3>1 DEF CompletionInv
    <3>3. ASSUME NEW p \in Processes
          PROVE  (/\ completions[p] \in {0, 1} /\ (completions[p] = 1 => Terminal(p))
                  /\ Terminal(p) /\ completions[p] = 0 => Resolving(p)
                  /\ completions[p] = 0 /\ client.dependent[p] # None =>
                       state[client.dependent[p]] = "SUSPENDED")'
      <4>1. ASSUME Resolving(p), completions[p] = 0 PROVE Resolving(p)'
        <5>1. PICK v \in Workers : pc[v] \in {"claim", "complete"} /\ me[v].process = p
          BY <4>1 DEF Resolving
        <5>2. CASE v # w
          BY <1>0, <1>c, <1>1, <1>2, <1>k, <1>h, <5>1, <5>2 DEF Resolving
        <5>3. CASE v = w
          <6>1. PICK u \in Workers : pc[u] = "complete" /\ me[u].slot = me[w].slot
            BY <3>2, <4>1, <5>1, <5>3 DEF Completing
          <6>2. Draining(u) /\ u # w
            BY <1>1, <6>1 DEF Draining, DrainPcs
          <6>3. me[u].process = p
            BY <1>0, <1>c, <1>1, <1>2, <1>k, <1>h, <5>1, <5>3, <6>1, <6>2 DEF PinInv
          <6>. QED
            BY <1>0, <1>c, <1>1, <1>2, <1>k, <1>h, <6>1, <6>2, <6>3 DEF Resolving
        <5>. QED
          BY <5>2, <5>3
      <4>. QED
        BY <1>0, <1>c, <1>1, <1>2, <1>k, <1>h, <4>1 DEF CompletionInv, Terminal
    <3>4. ASSUME NEW v \in Workers
          PROVE  (/\ pc[v] = "complete" =>
                       /\ completions[me[v].process] = 0
                       /\ \A u \in Workers : pc[u] = "complete" /\ me[u].slot = me[v].slot => u = v
                  /\ Draining(v) /\ me[v].terminal /\ pc[v] # "claim" => completionClaimed[me[v].slot]
                  /\ (Owning(v) \/ pc[v] \in WarmPcs \cup {"final"}) /\ me[v].terminal =>
                       completions[me[v].process] = 1)'
      BY <1>0, <1>c, <1>1, <1>2, <1>k, <1>h, <2>4, <3>1
      DEF CompletionInv, Owning, OwnerPcs, WarmPcs, Draining, DrainPcs, SchedulePcs
    <3>5. ASSUME NEW s \in Slots
          PROVE  (/\ completionClaimed[s] /\ ~Resetting(s) =>
                       slotProcess[s] \in Processes /\ (completions[slotProcess[s]] = 1 \/ Completing(s))
                  /\ slotProcess[s] \in Processes =>
                       /\ completions[slotProcess[s]] = 1 \/ Completing(s) => completionClaimed[s]
                       /\ Resetting(s) => ~Terminal(slotProcess[s]))'
      BY <1>0, <1>c, <1>1, <1>2, <1>k, <1>h, <2>1, <2>4, <3>1 DEF CompletionInv, Terminal
    <3>. QED
      BY <1>2, <3>3, <3>4, <3>5 DEF CompletionInv
  <2>. QED
    BY <1>1, <2>3, <2>4
<1>. QED
  BY <1>3, <1>4, <1>5, <1>6, <1>7, <1>8, <1>9, <1>10, <1>11, <1>12, <1>13 DEF Inv

LEMMA EagerCompleteKeeps ==
  ASSUME Inv, NEW w \in Workers, EagerComplete(w) PROVE Inv'
<1>0. /\ TypeOK /\ LocalInv /\ ReserveInv /\ CountInv /\ HolderInv /\ SentinelInv /\ PinInv
      /\ EpochInv /\ LocInv /\ ClaimInv /\ WarmInv /\ CompletionInv
  BY DEF Inv
<1>c. /\ w \in Threads /\ Workers \cap Schedulers = {} /\ Workers \subseteq Threads /\ None \notin Processes
      /\ EMPTY \notin Processes /\ RESERVED \notin Processes /\ EMPTY # RESERVED
  BY Constants DEF Threads
<1>k. me[w].process \in Processes /\ ~me[w].entered /\ ret[w] = "wake"
  <2>1. /\ JobOK(w) /\ (w \in Workers => LocalOK(w))
        /\ ret[w] \in {"wake", "rewake", "reclaim_wake"}
    BY <1>0, <1>c DEF LocalInv, TypeOK
  <2>. QED
    BY <2>1, <1>c
    DEF EagerComplete, Goto, JobOK, PlacePcs, SchedulePcs, LocalOK, Draining, Owning, OwnerPcs,
       Departed, DrainPcs, WarmPcs
<1>1. /\ w \in Threads /\ pc[w] = "complete" /\ pc'[w] \in {"leave", "sched"}
      /\ pc' \in [Threads -> Pcs]
      /\ \A u \in Threads : u # w => pc'[u] = pc[u]
      /\ me' = me
      /\ state' \in [Processes -> {"SUSPENDED", "RUNNABLE", "COMPLETED"}]
      /\ state' = [q \in Processes |-> IF q = me[w].process THEN "COMPLETED"
                        ELSE IF q = client.dependent[me[w].process] THEN "RUNNABLE" ELSE state[q]]
      /\ completions' \in [Processes -> Nat]
      /\ completions' = [completions EXCEPT ![me[w].process] = @ + 1]
      /\ job' \in [Threads -> Processes \cup {None}] /\ job'[w] = client.dependent[me[w].process]
      /\ (\A u \in Threads : u # w => job'[u] = job[u])
      /\ (pc'[w] = "sched" => job'[w] # None)
      /\ UNCHANGED <<client, scheduleState, needsDrain, retainDrain, placementEpoch,
                     placements, releasePending, retentionEpoch, warmRetainers, slotProcess,
                     slotEpoch, slotBudget, generation, drainers, sentinel, completionClaimed,
                     overflow, work, regionsLeft, closing, releases, callsLeft, rescan, todo,
                     probe, ret>>
  <2>1. state' \in [Processes -> {"SUSPENDED", "RUNNABLE", "COMPLETED"}]
    BY <1>0 DEF EagerComplete, TypeOK
  <2>2. completions' \in [Processes -> Nat]
    BY <1>0, <1>k DEF EagerComplete, TypeOK
  <2>3. /\ job' \in [Threads -> Processes \cup {None}] /\ job'[w] = client.dependent[me[w].process]
        /\ (\A u \in Threads : u # w => job'[u] = job[u])
    <3>1. client.dependent[me[w].process] \in Processes \cup {None}
      BY <1>0, <1>k, ClientFacts
    <3>. QED
      BY <1>0, <1>c, <3>1 DEF EagerComplete, TypeOK
  <2>4. pc'[w] = "sched" => client.dependent[me[w].process] # None
    BY <1>0, <1>c DEF EagerComplete, Goto, AfterComplete, TypeOK
  <2>g. /\ pc[w] = "complete" /\ pc'[w] \in {"leave", "sched"} /\ pc' \in [Threads -> Pcs]
        /\ \A u \in Threads : u # w => pc'[u] = pc[u]
    BY <1>0, <1>c
    DEF EagerComplete, Goto, TypeOK, Pcs, DrainPcs, SchedulePcs, WarmPcs, ReleasePcs,
       AfterComplete
  <2>. QED
    BY <1>c, <2>1, <2>2, <2>3, <2>4, <2>g
    DEF EagerComplete, processVars, slotVars, clientVars, callVars, scanVars
<1>2. Slots' = Slots /\ Locals' = Locals
  BY <1>1 DEF Slots, Locals
<1>h. /\ me[w].process \in Processes /\ me[w].slot \in Slots
      /\ slotProcess[me[w].slot] = me[w].process
      /\ \A s \in Slots : slotProcess[s] = me[w].process => s = me[w].slot
      /\ InSlot(me[w].process) /\ ~InHand(me[w].process) /\ ~OnItsWay(me[w].process)
      /\ me[w].process \notin overflow /\ scheduleState[me[w].process] # "IDLE"
      /\ state[me[w].process] # "SUSPENDED"
  <2>1. Draining(w)
    BY <1>1 DEF Draining, DrainPcs, Owning, OwnerPcs, WarmPcs
  <2>. QED
    BY <2>1, Housed
<1>a. ASSUME NEW v \in Workers, Holding(v)
      PROVE  /\ me[v].slot # me[w].slot /\ ~sentinel[me[w].slot] /\ v # w
             /\ Owning(v) => me[v].process # me[w].process
  <2>1. Draining(w)
    BY <1>1 DEF Draining, DrainPcs
  <2>. QED
    BY <1>0, <1>a, <2>1, Apart DEF HolderInv
<1>z. completions[me[w].process] = 0
  BY <1>0, <1>1 DEF CompletionInv
<1>d. client.dependent[me[w].process] # None =>
        /\ client.dependent[me[w].process] \in Processes
        /\ state[client.dependent[me[w].process]] = "SUSPENDED"
        /\ client.dependent[me[w].process] # me[w].process
  BY <1>0, <1>h, <1>z, ClientFacts DEF CompletionInv
<1>m. /\ state'[me[w].process] = "COMPLETED"
      /\ \A q \in Processes : q # me[w].process /\ q = client.dependent[me[w].process] =>
           state'[q] = "RUNNABLE" /\ state[q] = "SUSPENDED"
      /\ \A q \in Processes : q # me[w].process /\ q # client.dependent[me[w].process] => state'[q] = state[q]
      /\ \A q \in Processes : state'[q] = "SUSPENDED" => state[q] = "SUSPENDED"
      /\ \A q \in Processes : state[q] = "COMPLETED" => state'[q] = "COMPLETED"
      /\ completions'[me[w].process] = 1
      /\ \A q \in Processes : q # me[w].process => completions'[q] = completions[q]
  BY <1>0, <1>c, <1>1, <1>h, <1>z, <1>d DEF TypeOK
<1>3. TypeOK'
  BY <1>0, <1>c, <1>1, <1>2, <1>k, <1>h, <1>z, <1>d, <1>m, ClientFacts DEF TypeOK, Locals
<1>4. LocalInv'
  <2>1. ASSUME NEW v \in Workers PROVE LocalOK(v)'
    <3>1. LocalOK(v)
      BY <1>0 DEF LocalInv
    <3>. QED
      BY <1>0, <1>c, <1>1, <1>2, <1>k, <1>h, <1>z, <1>d, <1>m, <3>1
      DEF LocalOK, Draining, Owning, OwnerPcs, Departed, DrainPcs, SchedulePcs, WarmPcs
  <2>2. ASSUME NEW u \in Threads PROVE JobOK(u)'
    <3>1. JobOK(u) /\ ret[u] \in {"wake", "rewake", "reclaim_wake"}
      BY <1>0 DEF LocalInv, TypeOK
    <3>. QED
      BY <1>0, <1>c, <1>1, <1>2, <1>k, <1>h, <1>z, <1>d, <1>m, <3>1
      DEF JobOK, PlacePcs, SchedulePcs
  <2>. QED
    BY <2>1, <2>2 DEF LocalInv
<1>5. ReserveInv'
  BY <1>0, <1>c, <1>1, <1>2, <1>k, <1>h, <1>z, <1>d, <1>m, ReserveFramed DEF ReserveFrame
<1>6. CountInv'
  BY <1>0, <1>c, <1>1, <1>2, <1>k, <1>h, <1>z, <1>d, <1>m, CountFramed
  DEF CountFrame, Registered, Draining, DrainPcs, SchedulePcs
<1>7. HolderInv' /\ SentinelInv'
  BY <1>0, <1>c, <1>1, <1>2, <1>k, <1>h, <1>z, <1>d, <1>m, HolderFramed
  DEF HolderFrame, Holding, OwnerPcs, WarmPcs, Draining, DrainPcs, SchedulePcs
<1>8. PinInv'
  BY <1>0, <1>c, <1>1, <1>2, <1>k, <1>h, <1>z, <1>d, <1>m, PinFramed
  DEF PinFrame, Owning, OwnerPcs, WarmPcs, Draining, DrainPcs, SchedulePcs
<1>9. EpochInv'
  BY <1>0, <1>c, <1>1, <1>2, <1>k, <1>h, <1>z, <1>d, <1>m, EpochFramed
  DEF EpochFrame, Departed, SchedulePcs
<1>10. LocInv'
  <2>1. ASSUME NEW v \in Workers, pc'[v] = "clear" \/ Leaving(v)'
        PROVE  /\ v # w /\ me[v].process # me[w].process
               /\ pc'[v] = pc[v] /\ me'[v] = me[v] /\ ret'[v] = ret[v] /\ (Leaving(v)' => Leaving(v))
    <3>1. /\ v # w /\ pc'[v] = pc[v] /\ me'[v] = me[v] /\ ret'[v] = ret[v]
          /\ (pc'[v] = "clear" => Owning(v) /\ Holding(v)) /\ (Leaving(v)' => Leaving(v))
      BY <1>0, <1>c, <1>1, <1>2, <1>k, <1>h, <1>z, <1>d, <1>m, <2>1
      DEF Leaving, StillOurs, Owning, OwnerPcs, Holding, SchedulePcs
    <3>2. Leaving(v) => me[v].process # me[w].process
      BY <1>h DEF OnItsWay, Leaves
    <3>. QED
      BY <1>a, <2>1, <3>1, <3>2
  <2>2. ASSUME NEW v \in Workers, pc'[v] = "clear" \/ Leaving(v)'
        PROVE  state'[me[v].process] = state[me[v].process]
    <3>1. me[v].process \in Processes /\ me[v].process # me[w].process
      BY <1>0, <1>c, <1>1, <1>2, <1>k, <1>h, <1>z, <1>d, <1>m, <2>1, <2>2
      DEF LocalInv, LocalOK, Owning, OwnerPcs, Departed, Leaving, SchedulePcs
    <3>. QED
      <4>1. state[me[v].process] # "SUSPENDED"
        BY <1>0, <3>1 DEF LocalInv, LocalOK
      <4>. QED
        BY <3>1, <4>1, <1>m
  <2>3. ASSUME NEW v \in Workers, pc'[v] = "idle" PROVE (StillOurs(v) /\ ~me[v].terminal)'
    BY <1>0, <1>c, <1>1, <1>2, <1>k, <1>h, <1>z, <1>d, <1>m, <2>3 DEF LocInv, StillOurs
  <2>4. \A u \in Threads : pc'[u] \in {"consume"} \cup PlacePcs =>
          pc[u] \in {"consume"} \cup PlacePcs /\ job'[u] = job[u]
    BY <1>0, <1>c, <1>1, <1>2, <1>k, <1>h, <1>z, <1>d, <1>m DEF PlacePcs
  <2>. QED
    BY <1>0, <1>c, <1>1, <1>2, <1>k, <1>h, <1>z, <1>d, <1>m, <2>1, <2>2, <2>3, <2>4, LocFramed
    DEF LocFrame
<1>11. ClaimInv'
  BY <1>0, <1>c, <1>1, <1>2, <1>k, <1>h, <1>z, <1>d, <1>m, ClaimFramed
  DEF ClaimFrame, Departed, SchedulePcs
<1>12. WarmInv'
  BY <1>0, <1>c, <1>1, <1>2, <1>k, <1>h, <1>z, <1>d, <1>m, WarmFramed
  DEF WarmInv, WarmFrame, Warming, OwnerPcs, WarmPcs
<1>13. CompletionInv'
  <2>1. ASSUME NEW p \in Processes
        PROVE  (/\ completions[p] \in {0, 1} /\ (completions[p] = 1 => Terminal(p))
                /\ Terminal(p) /\ completions[p] = 0 => Resolving(p)
                /\ completions[p] = 0 /\ client.dependent[p] # None =>
                     state[client.dependent[p]] = "SUSPENDED")'
    <3>1. CASE p = me[w].process
      BY <1>0, <1>c, <1>1, <1>2, <1>k, <1>h, <1>z, <1>d, <1>m, <3>1 DEF Terminal
    <3>2. CASE p # me[w].process
      <4>1. Resolving(p) => Resolving(p)'
        BY <1>0, <1>c, <1>1, <1>2, <1>k, <1>h, <1>z, <1>d, <1>m, <3>2 DEF Resolving
      <4>2. Terminal(p)' <=> Terminal(p)
        BY <1>0, <1>c, <1>1, <1>2, <1>k, <1>h, <1>z, <1>d, <1>m, <3>2 DEF Terminal
      <4>3. ASSUME completions[p] = 0, client.dependent[p] # None
            PROVE  state'[client.dependent[p]] = "SUSPENDED"
        <5>1. /\ client.dependent[p] \in Processes /\ state[client.dependent[p]] = "SUSPENDED"
              /\ client.dependent[p] # me[w].process
              /\ client.dependent[p] # client.dependent[me[w].process]
          BY <1>0, <1>c, <1>1, <1>2, <1>k, <1>h, <1>z, <1>d, <1>m, <3>2, <4>3, ClientFacts
          DEF CompletionInv
        <5>. QED
          BY <5>1, <1>m
      <4>. QED
        BY <1>0, <1>c, <1>1, <1>2, <1>k, <1>h, <1>z, <1>d, <1>m, <3>2, <4>1, <4>2, <4>3
        DEF CompletionInv
    <3>. QED
      BY <3>1, <3>2
  <2>2. ASSUME NEW v \in Workers
        PROVE  (/\ pc[v] = "complete" =>
                     /\ completions[me[v].process] = 0
                     /\ \A u \in Workers : pc[u] = "complete" /\ me[u].slot = me[v].slot => u = v
                /\ Draining(v) /\ me[v].terminal /\ pc[v] # "claim" => completionClaimed[me[v].slot]
                /\ (Owning(v) \/ pc[v] \in WarmPcs \cup {"final"}) /\ me[v].terminal =>
                     completions[me[v].process] = 1)'
    <3>1. CASE v = w
      <4>1. completionClaimed[me[w].slot]
        <5>1. Completing(me[w].slot)
          BY <1>1 DEF Completing
        <5>. QED
          BY <1>0, <1>c, <1>1, <1>2, <1>k, <1>h, <1>z, <1>d, <1>m, <5>1 DEF CompletionInv
      <4>. QED
        BY <1>0, <1>c, <1>1, <1>2, <1>k, <1>h, <1>z, <1>d, <1>m, <3>1, <4>1
        DEF Owning, OwnerPcs, WarmPcs
    <3>2. CASE v # w
      <4>1. pc'[v] = "complete" => me[v].process # me[w].process /\ me[v].process \in Processes
        <5>1. SUFFICES ASSUME pc[v] = "complete"
                       PROVE  me[v].process # me[w].process /\ me[v].process \in Processes
          BY <1>0, <1>c, <1>1, <1>2, <1>k, <1>h, <1>z, <1>d, <1>m, <3>2
        <5>2. Draining(v) /\ me[v].slot \in Slots /\ me[v].slot # me[w].slot
          BY <1>0, <1>c, <1>1, <1>2, <1>k, <1>h, <1>z, <1>d, <1>m, <3>2, <5>1
          DEF Draining, DrainPcs, TypeOK, CompletionInv
        <5>. QED
          BY <1>h, <5>2, Housed
      <4>2. pc'[v] = "complete" =>
              /\ completions'[me[v].process] = 0
              /\ \A u \in Workers : pc'[u] = "complete" /\ me[u].slot = me[v].slot => u = v
        BY <1>0, <1>c, <1>1, <1>2, <1>k, <1>h, <1>z, <1>d, <1>m, <3>2, <4>1 DEF CompletionInv
      <4>3. Draining(v)' /\ me[v].terminal /\ pc'[v] # "claim" => completionClaimed[me[v].slot]
        BY <1>0, <1>c, <1>1, <1>2, <1>k, <1>h, <1>z, <1>d, <1>m, <3>2
        DEF CompletionInv, Draining, DrainPcs, SchedulePcs
      <4>4. ASSUME Owning(v)' \/ pc'[v] \in WarmPcs \cup {"final"}, me[v].terminal
            PROVE  completions'[me[v].process] = 1
        <5>1. me[v].process \in Processes /\ completions[me[v].process] = 1
          BY <1>0, <1>c, <1>1, <1>2, <1>k, <1>h, <1>z, <1>d, <1>m, <3>2, <4>4
          DEF CompletionInv, LocalInv, LocalOK, Owning, OwnerPcs, WarmPcs
        <5>. QED
          BY <5>1, <1>m, <1>z
      <4>. QED
        BY <1>1, <4>2, <4>3, <4>4
    <3>. QED
      BY <3>1, <3>2
  <2>3. ASSUME NEW s \in Slots
        PROVE  (/\ completionClaimed[s] /\ ~Resetting(s) =>
                     slotProcess[s] \in Processes /\ (completions[slotProcess[s]] = 1 \/ Completing(s))
                /\ slotProcess[s] \in Processes =>
                     /\ completions[slotProcess[s]] = 1 \/ Completing(s) => completionClaimed[s]
                     /\ Resetting(s) => ~Terminal(slotProcess[s]))'
    <3>1. Resetting(s)' <=> Resetting(s)
      BY <1>0, <1>c, <1>1, <1>2, <1>k, <1>h, <1>z, <1>d, <1>m DEF Resetting
    <3>2. CASE s = me[w].slot
      <4>1. Completing(s)
        BY <1>1, <3>2 DEF Completing
      <4>2. completionClaimed[s] /\ ~Resetting(s)
        BY <1>0, <1>c, <1>1, <1>2, <1>k, <1>h, <1>z, <1>d, <1>m, <1>a, <3>2, <4>1
        DEF CompletionInv, Resetting, Holding
      <4>. QED
        BY <1>0, <1>c, <1>1, <1>2, <1>k, <1>h, <1>z, <1>d, <1>m, <3>1, <3>2, <4>2
    <3>3. CASE s # me[w].slot
      <4>1. Completing(s)' <=> Completing(s)
        BY <1>0, <1>c, <1>1, <1>2, <1>k, <1>h, <1>z, <1>d, <1>m, <3>3 DEF Completing
      <4>2. slotProcess[s] \in Processes =>
              /\ slotProcess[s] # me[w].process
              /\ state'[slotProcess[s]] = "COMPLETED" => state[slotProcess[s]] = "COMPLETED"
        BY <1>0, <1>c, <1>1, <1>2, <1>k, <1>h, <1>z, <1>d, <1>m, <3>3
      <4>. QED
        BY <1>0, <1>c, <1>1, <1>2, <1>k, <1>h, <1>z, <1>d, <1>m, <3>1, <3>3, <4>1, <4>2
        DEF CompletionInv, Terminal
    <3>. QED
      BY <3>2, <3>3
  <2>. QED
    BY <1>2, <2>1, <2>2, <2>3 DEF CompletionInv
<1>. QED
  BY <1>3, <1>4, <1>5, <1>6, <1>7, <1>8, <1>9, <1>10, <1>11, <1>12, <1>13 DEF Inv

LEMMA TryRetainWarmKeeps ==
  ASSUME Inv, NEW w \in Workers, TryRetainWarm(w) PROVE Inv'
<1>0. /\ TypeOK /\ LocalInv /\ ReserveInv /\ CountInv /\ HolderInv /\ SentinelInv /\ PinInv
      /\ EpochInv /\ LocInv /\ ClaimInv /\ WarmInv /\ CompletionInv
  BY DEF Inv
<1>c. /\ w \in Threads /\ Workers \cap Schedulers = {} /\ Workers \subseteq Threads /\ None \notin Processes
      /\ EMPTY \notin Processes /\ RESERVED \notin Processes /\ EMPTY # RESERVED
  BY Constants DEF Threads
<1>k. me[w].process \in Processes /\ ~me[w].entered /\ ~me[w].terminal
  <2>1. /\ JobOK(w) /\ (w \in Workers => LocalOK(w))
        /\ ret[w] \in {"wake", "rewake", "reclaim_wake"}
    BY <1>0, <1>c DEF LocalInv, TypeOK
  <2>. QED
    BY <2>1, <1>c
    DEF TryRetainWarm, Goto, JobOK, PlacePcs, SchedulePcs, LocalOK, Draining, Owning, OwnerPcs,
       Departed, DrainPcs, WarmPcs
<1>1. /\ w \in Threads /\ pc[w] = "retain" /\ pc'[w] = "leave"
      /\ pc' \in [Threads -> Pcs]
      /\ \A u \in Threads : u # w => pc'[u] = pc[u]
      /\ me' \in [Workers -> Locals]
      /\ \A v \in Workers : v # w => me'[v] = me[v]
      /\ me'[w].slot = me[w].slot /\ me'[w].process = me[w].process
      /\ me'[w].epoch = me[w].epoch /\ me'[w].gen = me[w].gen /\ me'[w].result = me[w].result
      /\ me'[w].terminal = me[w].terminal /\ me'[w].rejoin = me[w].rejoin
      /\ me'[w].keepEpoch = me[w].keepEpoch
      /\ warmRetainers' \in [Processes -> Nat]
      /\ \/ me'[w].entered /\ warmRetainers' = [warmRetainers EXCEPT ![me[w].process] = @ + 1]
         \/ ~me'[w].entered /\ warmRetainers' = warmRetainers
      /\ UNCHANGED <<client, state, scheduleState, needsDrain, retainDrain, placementEpoch,
                     placements, releasePending, retentionEpoch, slotProcess, slotEpoch,
                     slotBudget, generation, drainers, sentinel, completionClaimed, overflow,
                     work, regionsLeft, closing, completions, releases, callsLeft, rescan,
                     todo, job, probe, ret>>
  <2>e. PICK e \in BOOLEAN : e = (warmRetainers[me[w].process] < (IF client.retainers > 0 THEN client.retainers ELSE Budget))
    <3>1. CASE warmRetainers[me[w].process] < (IF client.retainers > 0 THEN client.retainers ELSE Budget)
      <4>1. TRUE = (warmRetainers[me[w].process] < (IF client.retainers > 0 THEN client.retainers ELSE Budget))
        BY <3>1
      <4>2. TRUE \in BOOLEAN
        OBVIOUS
      <4>. QED
        BY <4>1, <4>2, Zenon
    <3>2. CASE ~(warmRetainers[me[w].process] < (IF client.retainers > 0 THEN client.retainers ELSE Budget))
      <4>1. FALSE = (warmRetainers[me[w].process] < (IF client.retainers > 0 THEN client.retainers ELSE Budget))
        BY <3>2
      <4>2. FALSE \in BOOLEAN
        OBVIOUS
      <4>. QED
        BY <4>1, <4>2, Zenon
    <3>. QED
      BY <3>1, <3>2
  <2>d. PICK d \in BOOLEAN : d = (me[w].didWork \/ e)
    OBVIOUS
  <2>m1. me \in [Workers -> Locals] /\ me[w] \in Locals
    BY <1>0 DEF TypeOK, Locals
  <2>m2. PICK l \in Locals : l = [me[w] EXCEPT !.entered = e, !.didWork = d]
    BY <2>m1, <2>e, <2>d DEF Locals, Results
  <2>m3. me' = [me EXCEPT ![w] = l]
    BY <2>m1, <2>m2, <2>e, <2>d DEF TryRetainWarm
  <2>m4. /\ me' \in [Workers -> Locals] /\ me'[w] = l
         /\ \A v \in Workers : v # w => me'[v] = me[v]
    BY <2>m1, <2>m3
  <2>m5. /\ l.slot = me[w].slot /\ l.process = me[w].process /\ l.epoch = me[w].epoch
        /\ l.gen = me[w].gen /\ l.result = me[w].result /\ l.terminal = me[w].terminal
        /\ l.entered = e /\ l.rejoin = me[w].rejoin /\ l.keepEpoch = me[w].keepEpoch
        /\ l.didWork = d
    BY <2>m1, <2>m2 DEF Locals
  <2>g. /\ pc[w] = "retain" /\ pc'[w] = "leave" /\ pc' \in [Threads -> Pcs]
        /\ \A u \in Threads : u # w => pc'[u] = pc[u]
    BY <1>0, <1>c DEF TryRetainWarm, Goto, TypeOK, Pcs, DrainPcs, SchedulePcs, WarmPcs, ReleasePcs
  <2>1. warmRetainers' = [warmRetainers EXCEPT ![me[w].process] = IF e THEN @ + 1 ELSE @]
    BY <2>e DEF TryRetainWarm
  <2>2. warmRetainers' \in [Processes -> Nat]
    BY <1>0, <1>k, <2>1 DEF TypeOK
  <2>3. \/ e /\ warmRetainers' = [warmRetainers EXCEPT ![me[w].process] = @ + 1]
        \/ ~e /\ warmRetainers' = warmRetainers
    BY <1>0, <1>k, <2>1 DEF TypeOK
  <2>. QED
    BY <1>c, <2>m4, <2>m5, <2>g, <2>2, <2>3
    DEF TryRetainWarm, processVars, slotVars, clientVars, callVars, scanVars
<1>2. Slots' = Slots /\ Locals' = Locals
  BY <1>1 DEF Slots, Locals
<1>h. /\ me[w].process \in Processes /\ me[w].slot \in Slots
      /\ slotProcess[me[w].slot] = me[w].process
      /\ \A s \in Slots : slotProcess[s] = me[w].process => s = me[w].slot
      /\ InSlot(me[w].process) /\ ~InHand(me[w].process) /\ ~OnItsWay(me[w].process)
      /\ me[w].process \notin overflow /\ scheduleState[me[w].process] # "IDLE"
      /\ state[me[w].process] # "SUSPENDED"
  <2>1. Draining(w)
    BY <1>1 DEF Draining, DrainPcs, Owning, OwnerPcs, WarmPcs
  <2>. QED
    BY <2>1, Housed
<1>a. ASSUME NEW v \in Workers, Holding(v)
      PROVE  /\ me[v].slot # me[w].slot /\ ~sentinel[me[w].slot] /\ v # w
             /\ Owning(v) => me[v].process # me[w].process
  <2>1. Draining(w)
    BY <1>1 DEF Draining, DrainPcs
  <2>. QED
    BY <1>0, <1>a, <2>1, Apart DEF HolderInv
<1>3. TypeOK'
  BY <1>0, <1>c, <1>1, <1>2, <1>k, <1>h, ClientFacts DEF TypeOK, Locals
<1>4. LocalInv'
  <2>1. ASSUME NEW v \in Workers PROVE LocalOK(v)'
    <3>1. LocalOK(v)
      BY <1>0 DEF LocalInv
    <3>. QED
      BY <1>0, <1>c, <1>1, <1>2, <1>k, <1>h, <3>1
      DEF LocalOK, Draining, Owning, OwnerPcs, Departed, DrainPcs, SchedulePcs, WarmPcs
  <2>2. ASSUME NEW u \in Threads PROVE JobOK(u)'
    <3>1. JobOK(u) /\ ret[u] \in {"wake", "rewake", "reclaim_wake"}
      BY <1>0 DEF LocalInv, TypeOK
    <3>. QED
      BY <1>0, <1>c, <1>1, <1>2, <1>k, <1>h, <3>1 DEF JobOK, PlacePcs, SchedulePcs
  <2>. QED
    BY <2>1, <2>2 DEF LocalInv
<1>5. ReserveInv'
  BY <1>0, <1>c, <1>1, <1>2, <1>k, <1>h, ReserveFramed DEF ReserveFrame
<1>6. CountInv'
  BY <1>0, <1>c, <1>1, <1>2, <1>k, <1>h, CountFramed
  DEF CountFrame, Registered, Draining, DrainPcs, SchedulePcs
<1>7. HolderInv' /\ SentinelInv'
  BY <1>0, <1>c, <1>1, <1>2, <1>k, <1>h, HolderFramed
  DEF HolderFrame, Holding, OwnerPcs, WarmPcs, Draining, DrainPcs, SchedulePcs
<1>8. PinInv'
  BY <1>0, <1>c, <1>1, <1>2, <1>k, <1>h, PinFramed
  DEF PinFrame, Owning, OwnerPcs, WarmPcs, Draining, DrainPcs, SchedulePcs
<1>9. EpochInv'
  BY <1>0, <1>c, <1>1, <1>2, <1>k, <1>h, EpochFramed DEF EpochFrame, Departed, SchedulePcs
<1>10. LocInv'
  BY <1>0, <1>c, <1>1, <1>2, <1>k, <1>h, LocFramed
  DEF LocInv, LocFrame, Leaving, StillOurs, PlacePcs, SchedulePcs
<1>11. ClaimInv'
  BY <1>0, <1>c, <1>1, <1>2, <1>k, <1>h, ClaimFramed DEF ClaimFrame, Departed, SchedulePcs
<1>12. WarmInv'
  <2>1. CASE ~me'[w].entered
    BY <1>0, <1>c, <1>1, <1>2, <1>k, <1>h, <2>1, WarmFramed
    DEF WarmInv, WarmFrame, Warming, OwnerPcs, WarmPcs
  <2>2. CASE me'[w].entered
    <3>1. ~Warming(w) /\ Warming(w)'
      BY <1>0, <1>c, <1>1, <1>2, <1>k, <1>h, <2>2 DEF Warming, WarmPcs, OwnerPcs
    <3>2. ASSUME NEW v \in Workers, v # w
          PROVE  (Warming(v)' <=> Warming(v)) /\ me'[v].process = me[v].process
      BY <1>0, <1>c, <1>1, <1>2, <1>k, <1>h, <3>2 DEF Warming
    <3>3. ASSUME NEW v \in Workers, pc'[v] \in {"release", "clear"}
          PROVE  warmRetainers'[me'[v].process] = 0
      <4>1. v # w /\ pc'[v] = pc[v] /\ me'[v] = me[v] /\ Owning(v) /\ Holding(v)
        BY <1>0, <1>c, <1>1, <1>2, <1>k, <1>h, <3>3 DEF Owning, Holding, OwnerPcs
      <4>2. me[v].process # me[w].process /\ me[v].process \in Processes
        BY <1>0, <1>a, <4>1 DEF LocalInv, LocalOK
      <4>. QED
        BY <1>0, <1>c, <1>1, <1>2, <1>k, <1>h, <2>2, <3>3, <4>1, <4>2 DEF WarmInv, TypeOK
    <3>4. WarmFrameBut(w)
      BY <3>2, <3>3 DEF WarmFrameBut
    <3>. QED
      BY <1>0, <1>c, <1>1, <1>2, <1>k, <1>h, <2>2, <3>1, <3>4, WarmEnters
  <2>. QED
    BY <2>1, <2>2
<1>13. CompletionInv'
  BY <1>0, <1>c, <1>1, <1>2, <1>k, <1>h, CompletionFramed
  DEF CompletionInv, CompletionFrame, Owning, OwnerPcs, WarmPcs, Draining, DrainPcs, SchedulePcs
<1>. QED
  BY <1>3, <1>4, <1>5, <1>6, <1>7, <1>8, <1>9, <1>10, <1>11, <1>12, <1>13 DEF Inv

LEMMA LeaveAndTryClaimKeeps ==
  ASSUME Inv, NEW w \in Workers, LeaveAndTryClaim(w) PROVE Inv'
<1>0. /\ TypeOK /\ LocalInv /\ ReserveInv /\ CountInv /\ HolderInv /\ SentinelInv /\ PinInv
      /\ EpochInv /\ LocInv /\ ClaimInv /\ WarmInv /\ CompletionInv
  BY DEF Inv
<1>c. /\ w \in Threads /\ Workers \cap Schedulers = {} /\ Workers \subseteq Threads /\ None \notin Processes
      /\ EMPTY \notin Processes /\ RESERVED \notin Processes /\ EMPTY # RESERVED
  BY Constants DEF Threads
<1>k. me[w].process \in Processes /\ (me[w].entered => ~me[w].terminal)
  <2>1. /\ JobOK(w) /\ (w \in Workers => LocalOK(w))
        /\ ret[w] \in {"wake", "rewake", "reclaim_wake"}
    BY <1>0, <1>c DEF LocalInv, TypeOK
  <2>. QED
    BY <2>1, <1>c
    DEF LeaveAndTryClaim, Goto, JobOK, PlacePcs, SchedulePcs, LocalOK, Draining, Owning,
       OwnerPcs, Departed, DrainPcs, WarmPcs
<1>1. /\ w \in Threads /\ pc[w] = "leave" /\ pc'[w] \in {"owner", "warm", "rest", "scan"}
      /\ pc' \in [Threads -> Pcs]
      /\ \A u \in Threads : u # w => pc'[u] = pc[u]
      /\ me' \in [Workers -> Locals]
      /\ \A v \in Workers : v # w => me'[v] = me[v]
      /\ me'[w].slot = me[w].slot /\ me'[w].process = me[w].process
      /\ me'[w].epoch = me[w].epoch /\ me'[w].gen = generation[me[w].slot]
      /\ me'[w].result = me[w].result /\ me'[w].terminal = me[w].terminal
      /\ me'[w].entered = me[w].entered /\ me'[w].rejoin = me[w].rejoin
      /\ me'[w].keepEpoch = me[w].keepEpoch /\ me'[w].didWork = me[w].didWork
      /\ drainers' \in [Slots -> Nat] /\ drainers' = [drainers EXCEPT ![me[w].slot] = @ - 1]
      /\ sentinel' \in [Slots -> BOOLEAN]
      /\ sentinel' = [sentinel EXCEPT ![me[w].slot] = @ \/ drainers[me[w].slot] = 1]
      /\ (pc'[w] = "owner" <=> drainers[me[w].slot] = 1)
      /\ (pc'[w] = "warm" => me[w].entered)
      /\ (pc'[w] \in {"rest", "scan"} => ~me[w].entered)
      /\ UNCHANGED <<client, state, scheduleState, needsDrain, retainDrain, placementEpoch,
                     placements, releasePending, retentionEpoch, warmRetainers, slotProcess,
                     slotEpoch, slotBudget, generation, completionClaimed, overflow, work,
                     regionsLeft, closing, completions, releases, callsLeft, rescan, todo, job,
                     probe, ret>>
  <2>d. /\ me[w].slot \in Slots /\ drainers[me[w].slot] = Cardinality(DrainersOn(me[w].slot))
        /\ w \in DrainersOn(me[w].slot) /\ DrainersOn(me[w].slot) \subseteq Workers
    BY <1>0
    DEF TypeOK, CountInv, DrainersOn, Registered, Draining, DrainPcs, LeaveAndTryClaim, Goto
  <2>e. drainers[me[w].slot] - 1 \in Nat
    <3>1. Cardinality(DrainersOn(me[w].slot)) \in Nat /\ Cardinality(DrainersOn(me[w].slot)) > 0
      BY <2>d, Loses
    <3>. QED
      BY <2>d, <3>1
  <2>f. drainers' \in [Slots -> Nat]
    BY <1>0, <2>d, <2>e DEF LeaveAndTryClaim, TypeOK
  <2>1. generation[me[w].slot] \in Nat
    BY <1>0, <2>d DEF TypeOK
  <2>m1. me \in [Workers -> Locals] /\ me[w] \in Locals
    BY <1>0 DEF TypeOK, Locals
  <2>m2. PICK l \in Locals : l = [me[w] EXCEPT !.gen = generation[me[w].slot]]
    BY <2>m1, <2>1 DEF Locals, Results
  <2>m3. me' = [me EXCEPT ![w] = l]
    BY <2>m1, <2>m2, <2>1 DEF LeaveAndTryClaim
  <2>m4. /\ me' \in [Workers -> Locals] /\ me'[w] = l
         /\ \A v \in Workers : v # w => me'[v] = me[v]
    BY <2>m1, <2>m3
  <2>m5. /\ l.slot = me[w].slot /\ l.process = me[w].process /\ l.epoch = me[w].epoch
        /\ l.gen = generation[me[w].slot] /\ l.result = me[w].result /\ l.terminal = me[w].terminal
        /\ l.entered = me[w].entered /\ l.rejoin = me[w].rejoin /\ l.keepEpoch = me[w].keepEpoch
        /\ l.didWork = me[w].didWork
    BY <2>m1, <2>m2 DEF Locals
  <2>2. sentinel' \in [Slots -> BOOLEAN]
    BY <1>0, <2>d DEF LeaveAndTryClaim, TypeOK
  <2>3. /\ (pc'[w] = "owner" <=> drainers[me[w].slot] = 1)
        /\ (pc'[w] = "warm" => me[w].entered)
        /\ (pc'[w] \in {"rest", "scan"} => ~me[w].entered)
    BY <1>0, <1>c DEF LeaveAndTryClaim, Onward, Goto, TypeOK
  <2>g. /\ pc[w] = "leave" /\ pc'[w] \in {"owner", "warm", "rest", "scan"} /\ pc' \in [Threads -> Pcs]
        /\ \A u \in Threads : u # w => pc'[u] = pc[u]
    BY <1>0, <1>c
    DEF LeaveAndTryClaim, Goto, TypeOK, Pcs, DrainPcs, SchedulePcs, WarmPcs, ReleasePcs, Onward
  <2>. QED
    BY <1>c, <2>m4, <2>m5, <2>g, <2>2, <2>3, <2>f
    DEF LeaveAndTryClaim, processVars, slotVars, clientVars, callVars, scanVars
<1>2. Slots' = Slots /\ Locals' = Locals
  BY <1>1 DEF Slots, Locals
<1>h. /\ me[w].process \in Processes /\ me[w].slot \in Slots
      /\ slotProcess[me[w].slot] = me[w].process
      /\ \A s \in Slots : slotProcess[s] = me[w].process => s = me[w].slot
      /\ InSlot(me[w].process) /\ ~InHand(me[w].process) /\ ~OnItsWay(me[w].process)
      /\ me[w].process \notin overflow /\ scheduleState[me[w].process] # "IDLE"
      /\ state[me[w].process] # "SUSPENDED"
  <2>1. Draining(w)
    BY <1>1 DEF Draining, DrainPcs, Owning, OwnerPcs, WarmPcs
  <2>. QED
    BY <2>1, Housed
<1>a. ASSUME NEW v \in Workers, Holding(v)
      PROVE  /\ me[v].slot # me[w].slot /\ ~sentinel[me[w].slot] /\ v # w
             /\ Owning(v) => me[v].process # me[w].process
  <2>1. Draining(w)
    BY <1>1 DEF Draining, DrainPcs
  <2>. QED
    BY <1>0, <1>a, <2>1, Apart DEF HolderInv
<1>s. /\ ~sentinel[me[w].slot]
      /\ \A s \in Slots : s # me[w].slot => sentinel'[s] = sentinel[s]
      /\ sentinel'[me[w].slot] <=> pc'[w] = "owner"
  <2>1. Draining(w) /\ me[w].slot \in Slots
    BY <1>0, <1>1 DEF Draining, DrainPcs, TypeOK
  <2>2. ~sentinel[me[w].slot]
    BY <1>0, <2>1 DEF HolderInv
  <2>. QED
    BY <1>0, <1>1, <2>1, <2>2 DEF TypeOK
<1>l. pc'[w] = "owner" => \A v \in Workers : Registered(v) /\ me[v].slot = me[w].slot => v = w
  <2>1. SUFFICES ASSUME drainers[me[w].slot] = 1
                 PROVE  \A v \in Workers : Registered(v) /\ me[v].slot = me[w].slot => v = w
    BY <1>1
  <2>2. /\ me[w].slot \in Slots /\ w \in DrainersOn(me[w].slot)
        /\ DrainersOn(me[w].slot) \subseteq Workers
    BY <1>0, <1>1 DEF TypeOK, DrainersOn, Registered, Draining, DrainPcs
  <2>3. Cardinality(DrainersOn(me[w].slot)) = 1
    BY <1>0, <2>1, <2>2 DEF CountInv
  <2>4. \A u, v \in DrainersOn(me[w].slot) : u = v
    BY <2>2, <2>3, Counts
  <2>. QED
    BY <2>2, <2>4 DEF DrainersOn
<1>3. TypeOK'
  BY <1>0, <1>c, <1>1, <1>2, <1>k, <1>h, <1>s, <1>l, ClientFacts DEF TypeOK, Locals
<1>4. LocalInv'
  <2>1. ASSUME NEW v \in Workers PROVE LocalOK(v)'
    <3>1. LocalOK(v)
      BY <1>0 DEF LocalInv
    <3>. QED
      BY <1>0, <1>c, <1>1, <1>2, <1>k, <1>h, <1>s, <1>l, <3>1
      DEF LocalOK, Draining, Owning, OwnerPcs, Departed, DrainPcs, SchedulePcs, WarmPcs
  <2>2. ASSUME NEW u \in Threads PROVE JobOK(u)'
    <3>1. JobOK(u) /\ ret[u] \in {"wake", "rewake", "reclaim_wake"}
      BY <1>0 DEF LocalInv, TypeOK
    <3>. QED
      BY <1>0, <1>c, <1>1, <1>2, <1>k, <1>h, <1>s, <1>l, <3>1 DEF JobOK, PlacePcs, SchedulePcs
  <2>. QED
    BY <2>1, <2>2 DEF LocalInv
<1>5. ReserveInv'
  BY <1>0, <1>c, <1>1, <1>2, <1>k, <1>h, <1>s, <1>l, ReserveFramed DEF ReserveFrame
<1>6. CountInv'
  <2>1. /\ me[w].slot \in Slots /\ drainers'[me[w].slot] = drainers[me[w].slot] - 1
        /\ \A s \in Slots : s # me[w].slot => drainers'[s] = drainers[s]
    BY <1>0, <1>1 DEF TypeOK
  <2>2. ASSUME NEW v \in Workers, v # w
        PROVE  (Registered(v)' <=> Registered(v)) /\ me'[v].slot = me[v].slot
    BY <1>0, <1>c, <1>1, <1>2, <1>k, <1>h, <1>s, <1>l, <2>2
    DEF Registered, Draining, DrainPcs, SchedulePcs
  <2>3. Registered(w) /\ ~Registered(w)' 
    BY <1>0, <1>c, <1>1, <1>2, <1>k, <1>h, <1>s, <1>l
    DEF Registered, Draining, DrainPcs, SchedulePcs
  <2>4. ASSUME NEW s \in Slots PROVE drainers'[s] = Cardinality(DrainersOn(s)')
    <3>1. DrainersOn(s) \subseteq Workers /\ drainers[s] = Cardinality(DrainersOn(s))
      BY <1>0 DEF DrainersOn, CountInv
    <3>2. CASE s = me[w].slot
      <4>1. DrainersOn(s)' = DrainersOn(s) \ {w} /\ w \in DrainersOn(s)
        BY <2>2, <2>3, <3>2 DEF DrainersOn
      <4>. QED
        BY <2>1, <3>1, <3>2, <4>1, Loses
    <3>3. CASE s # me[w].slot
      <4>1. DrainersOn(s)' = DrainersOn(s)
        BY <2>2, <2>3, <3>3 DEF DrainersOn
      <4>. QED
        BY <2>1, <3>1, <3>3, <4>1
    <3>. QED
      BY <3>2, <3>3
  <2>. QED
    BY <1>2, <2>4 DEF CountInv
<1>7. HolderInv' /\ SentinelInv'
  <2>1. ASSUME NEW v \in Workers, v # w
        PROVE  /\ Holding(v)' <=> Holding(v)
               /\ pc'[v] = "verify" \/ Draining(v)' => Registered(v) /\ (pc[v] = "verify" \/ Draining(v))
               /\ me'[v] = me[v] /\ pc'[v] = pc[v] /\ me[v].slot \in Slots
               /\ Holding(v) => me[v].slot # me[w].slot
    BY <1>0, <1>c, <1>1, <1>2, <1>k, <1>h, <1>s, <1>l, <1>a, <2>1
    DEF Holding, Draining, Registered, TypeOK
  <2>2. /\ ~Holding(w) /\ (Holding(w)' <=> pc'[w] = "owner")
        /\ ~(pc'[w] = "verify" \/ Draining(w)') /\ pc'[w] # "reset"
        /\ me'[w].slot = me[w].slot
    BY <1>0, <1>c, <1>1, <1>2, <1>k, <1>h, <1>s, <1>l
    DEF Holding, OwnerPcs, Draining, DrainPcs, SchedulePcs
  <2>3. ASSUME NEW v \in Workers, Holding(v)'
        PROVE  /\ sentinel'[me'[v].slot]
               /\ \A u \in Workers : Holding(u)' /\ me'[u].slot = me'[v].slot => u = v
    <3>1. CASE v = w
      BY <1>0, <1>c, <1>1, <1>2, <1>k, <1>h, <1>s, <1>l, <2>1, <2>2, <2>3, <3>1
    <3>2. CASE v # w
      BY <1>0, <1>c, <1>1, <1>2, <1>k, <1>h, <1>s, <1>l, <2>1, <2>2, <2>3, <3>2 DEF HolderInv
    <3>. QED
      BY <3>1, <3>2
  <2>4. ASSUME NEW v \in Workers, pc'[v] = "verify" \/ Draining(v)' PROVE ~sentinel'[me'[v].slot]
    BY <1>0, <1>c, <1>1, <1>2, <1>k, <1>h, <1>s, <1>l, <2>1, <2>2, <2>4 DEF HolderInv
  <2>5. ASSUME NEW v \in Workers, pc'[v] \in WarmPcs, NEW u \in Workers, pc'[u] = "reset"
        PROVE  me'[u].slot # me'[v].slot
    <3>1. u # w /\ pc[u] = "reset" /\ me'[u] = me[u] /\ Holding(u)
      BY <2>1, <2>2, <2>5 DEF Holding
    <3>2. CASE v = w
      BY <2>1, <2>2, <3>1, <3>2
    <3>3. CASE v # w
      BY <1>0, <2>1, <2>5, <3>1, <3>3 DEF HolderInv
    <3>. QED
      BY <3>2, <3>3
  <2>6. HolderInv'
    BY <2>3, <2>4, <2>5 DEF HolderInv
  <2>7. ASSUME NEW s \in Slots, sentinel'[s] PROVE \E v \in Workers : Holding(v)' /\ me'[v].slot = s
    <3>1. CASE s = me[w].slot
      BY <1>0, <1>c, <1>1, <1>2, <1>k, <1>h, <1>s, <1>l, <2>2, <2>7, <3>1
    <3>2. CASE s # me[w].slot
      <4>1. PICK v \in Workers : Holding(v) /\ me[v].slot = s
        BY <1>0, <1>c, <1>1, <1>2, <1>k, <1>h, <1>s, <1>l, <2>7, <3>2 DEF SentinelInv
      <4>. QED
        BY <2>1, <2>2, <4>1
    <3>. QED
      BY <3>1, <3>2
  <2>. QED
    BY <1>2, <2>6, <2>7 DEF SentinelInv
<1>8. PinInv'
  <2>1. ASSUME NEW v \in Workers
        PROVE  (/\ Draining(v) \/ Owning(v) \/ pc[v] \in WarmPcs => slotProcess[me[v].slot] = me[v].process
                /\ pc[v] \in WarmPcs \/ (Owning(v) /\ me[v].entered) => me[v].gen = generation[me[v].slot])'
    <3>1. CASE v = w
      BY <1>0, <1>c, <1>1, <1>2, <1>k, <1>h, <1>s, <1>l, <3>1
    <3>2. CASE v # w
      BY <1>0, <1>c, <1>1, <1>2, <1>k, <1>h, <1>s, <1>l, <3>2 DEF PinInv, Draining, Owning
    <3>. QED
      BY <3>1, <3>2
  <2>2. ASSUME NEW v \in Workers, pc'[v] = "final"
        PROVE  (/\ me[v].gen <= generation[me[v].slot]
                /\ me[v].gen = generation[me[v].slot] =>
                     slotProcess[me[v].slot] = me[v].process \/ Resetting(me[v].slot))'
    <3>1. v # w /\ pc[v] = "final" /\ me'[v] = me[v]
      BY <1>0, <1>c, <1>1, <1>2, <1>k, <1>h, <1>s, <1>l, <2>2
    <3>2. Resetting(me[v].slot) => Resetting(me[v].slot)'
      BY <1>0, <1>c, <1>1, <1>2, <1>k, <1>h, <1>s, <1>l, <3>1 DEF Resetting
    <3>. QED
      BY <1>0, <1>c, <1>1, <1>2, <1>k, <1>h, <1>s, <1>l, <3>1, <3>2 DEF PinInv
  <2>3. \A s \in Slots : Clearing(s) => Clearing(s)'
    BY <1>0, <1>c, <1>1, <1>2, <1>k, <1>h, <1>s, <1>l DEF Clearing
  <2>. QED
    BY <1>0, <1>c, <1>1, <1>2, <1>k, <1>h, <1>s, <1>l, <2>1, <2>2, <2>3 DEF PinInv
<1>9. EpochInv'
  BY <1>0, <1>c, <1>1, <1>2, <1>k, <1>h, <1>s, <1>l, EpochFramed
  DEF EpochFrame, Departed, SchedulePcs
<1>10. LocInv'
  BY <1>0, <1>c, <1>1, <1>2, <1>k, <1>h, <1>s, <1>l, LocFramed
  DEF LocInv, LocFrame, Leaving, StillOurs, PlacePcs, SchedulePcs
<1>11. ClaimInv'
  BY <1>0, <1>c, <1>1, <1>2, <1>k, <1>h, <1>s, <1>l, ClaimFramed
  DEF ClaimFrame, Departed, SchedulePcs
<1>12. WarmInv'
  BY <1>0, <1>c, <1>1, <1>2, <1>k, <1>h, <1>s, <1>l, WarmFramed
  DEF WarmInv, WarmFrame, Warming, OwnerPcs, WarmPcs
<1>13. CompletionInv'
  <2>1. ASSUME pc'[w] = "owner", me[w].terminal PROVE completions[me[w].process] = 1
    <3>1. completionClaimed[me[w].slot]
      BY <1>0, <1>c, <1>1, <1>2, <1>k, <1>h, <1>s, <1>l, <2>1
      DEF CompletionInv, Draining, DrainPcs
    <3>2. ~Resetting(me[w].slot)
      BY <1>a DEF Resetting, Holding
    <3>3. ~Completing(me[w].slot)
      BY <1>1, <1>l, <2>1 DEF Completing, Registered, Draining, DrainPcs
    <3>. QED
      BY <1>0, <1>c, <1>1, <1>2, <1>k, <1>h, <1>s, <1>l, <3>1, <3>2, <3>3 DEF CompletionInv
  <2>. QED
    BY <1>0, <1>c, <1>1, <1>2, <1>k, <1>h, <1>s, <1>l, <2>1, CompletionFramed
    DEF CompletionInv, CompletionFrame, Owning, OwnerPcs, WarmPcs, Draining, DrainPcs, SchedulePcs
<1>. QED
  BY <1>3, <1>4, <1>5, <1>6, <1>7, <1>8, <1>9, <1>10, <1>11, <1>12, <1>13 DEF Inv

LEMMA ExitDrainingKeeps ==
  ASSUME Inv, NEW w \in Workers, ExitDraining(w) PROVE Inv'
<1>0. /\ TypeOK /\ LocalInv /\ ReserveInv /\ CountInv /\ HolderInv /\ SentinelInv /\ PinInv
      /\ EpochInv /\ LocInv /\ ClaimInv /\ WarmInv /\ CompletionInv
  BY DEF Inv
<1>c. /\ w \in Threads /\ Workers \cap Schedulers = {} /\ Workers \subseteq Threads /\ None \notin Processes
      /\ EMPTY \notin Processes /\ RESERVED \notin Processes /\ EMPTY # RESERVED
  BY Constants DEF Threads
<1>k. me[w].process \in Processes /\ ~me[w].entered /\ ~me[w].terminal
  <2>1. /\ JobOK(w) /\ (w \in Workers => LocalOK(w))
        /\ ret[w] \in {"wake", "rewake", "reclaim_wake"}
    BY <1>0, <1>c DEF LocalInv, TypeOK
  <2>. QED
    BY <2>1, <1>c
    DEF ExitDraining, Goto, JobOK, PlacePcs, SchedulePcs, LocalOK, Draining, Owning, OwnerPcs,
       Departed, DrainPcs, WarmPcs
<1>1. /\ w \in Threads /\ pc[w] = "exit" /\ pc'[w] \in {"rest", "scan"}
      /\ pc' \in [Threads -> Pcs]
      /\ \A u \in Threads : u # w => pc'[u] = pc[u]
      /\ me' = me
      /\ drainers' \in [Slots -> Nat] /\ drainers' = [drainers EXCEPT ![me[w].slot] = @ - 1]
      /\ UNCHANGED <<client, state, scheduleState, needsDrain, retainDrain, placementEpoch,
                     placements, releasePending, retentionEpoch, warmRetainers, slotProcess,
                     slotEpoch, slotBudget, generation, sentinel, completionClaimed, overflow,
                     work, regionsLeft, closing, completions, releases, callsLeft, rescan,
                     todo, job, probe, ret>>
  <2>d. /\ me[w].slot \in Slots /\ drainers[me[w].slot] = Cardinality(DrainersOn(me[w].slot))
        /\ w \in DrainersOn(me[w].slot) /\ DrainersOn(me[w].slot) \subseteq Workers
    BY <1>0 DEF TypeOK, CountInv, DrainersOn, Registered, Draining, DrainPcs, ExitDraining, Goto
  <2>e. drainers[me[w].slot] - 1 \in Nat
    <3>1. Cardinality(DrainersOn(me[w].slot)) \in Nat /\ Cardinality(DrainersOn(me[w].slot)) > 0
      BY <2>d, Loses
    <3>. QED
      BY <2>d, <3>1
  <2>f. drainers' \in [Slots -> Nat]
    BY <1>0, <2>d, <2>e DEF ExitDraining, TypeOK
  <2>g. /\ pc[w] = "exit" /\ pc'[w] \in {"rest", "scan"} /\ pc' \in [Threads -> Pcs]
        /\ \A u \in Threads : u # w => pc'[u] = pc[u]
    BY <1>0, <1>c, <1>k
    DEF ExitDraining, Goto, TypeOK, Pcs, DrainPcs, SchedulePcs, WarmPcs, ReleasePcs, Onward
  <2>. QED
    BY <1>c, <2>g, <2>f DEF ExitDraining, processVars, slotVars, clientVars, callVars, scanVars
<1>2. Slots' = Slots /\ Locals' = Locals
  BY <1>1 DEF Slots, Locals
<1>3. TypeOK'
  BY <1>0, <1>c, <1>1, <1>2, <1>k, ClientFacts DEF TypeOK, Locals
<1>4. LocalInv'
  <2>1. ASSUME NEW v \in Workers PROVE LocalOK(v)'
    <3>1. LocalOK(v)
      BY <1>0 DEF LocalInv
    <3>. QED
      BY <1>0, <1>c, <1>1, <1>2, <1>k, <3>1
      DEF LocalOK, Draining, Owning, OwnerPcs, Departed, DrainPcs, SchedulePcs, WarmPcs
  <2>2. ASSUME NEW u \in Threads PROVE JobOK(u)'
    <3>1. JobOK(u) /\ ret[u] \in {"wake", "rewake", "reclaim_wake"}
      BY <1>0 DEF LocalInv, TypeOK
    <3>. QED
      BY <1>0, <1>c, <1>1, <1>2, <1>k, <3>1 DEF JobOK, PlacePcs, SchedulePcs
  <2>. QED
    BY <2>1, <2>2 DEF LocalInv
<1>5. ReserveInv'
  BY <1>0, <1>c, <1>1, <1>2, <1>k, ReserveFramed DEF ReserveFrame
<1>6. CountInv'
  <2>1. /\ me[w].slot \in Slots /\ drainers'[me[w].slot] = drainers[me[w].slot] - 1
        /\ \A s \in Slots : s # me[w].slot => drainers'[s] = drainers[s]
    BY <1>0, <1>1 DEF TypeOK
  <2>2. ASSUME NEW v \in Workers, v # w
        PROVE  (Registered(v)' <=> Registered(v)) /\ me'[v].slot = me[v].slot
    BY <1>0, <1>c, <1>1, <1>2, <1>k, <2>2 DEF Registered, Draining, DrainPcs, SchedulePcs
  <2>3. Registered(w) /\ ~Registered(w)' 
    BY <1>0, <1>c, <1>1, <1>2, <1>k DEF Registered, Draining, DrainPcs, SchedulePcs
  <2>4. ASSUME NEW s \in Slots PROVE drainers'[s] = Cardinality(DrainersOn(s)')
    <3>1. DrainersOn(s) \subseteq Workers /\ drainers[s] = Cardinality(DrainersOn(s))
      BY <1>0 DEF DrainersOn, CountInv
    <3>2. CASE s = me[w].slot
      <4>1. DrainersOn(s)' = DrainersOn(s) \ {w} /\ w \in DrainersOn(s)
        BY <2>2, <2>3, <3>2 DEF DrainersOn
      <4>. QED
        BY <2>1, <3>1, <3>2, <4>1, Loses
    <3>3. CASE s # me[w].slot
      <4>1. DrainersOn(s)' = DrainersOn(s)
        BY <2>2, <2>3, <3>3 DEF DrainersOn
      <4>. QED
        BY <2>1, <3>1, <3>3, <4>1
    <3>. QED
      BY <3>2, <3>3
  <2>. QED
    BY <1>2, <2>4 DEF CountInv
<1>7. HolderInv' /\ SentinelInv'
  BY <1>0, <1>c, <1>1, <1>2, <1>k, HolderFramed
  DEF HolderFrame, Holding, OwnerPcs, WarmPcs, Draining, DrainPcs, SchedulePcs
<1>8. PinInv'
  BY <1>0, <1>c, <1>1, <1>2, <1>k, PinFramed
  DEF PinFrame, Owning, OwnerPcs, WarmPcs, Draining, DrainPcs, SchedulePcs
<1>9. EpochInv'
  BY <1>0, <1>c, <1>1, <1>2, <1>k, EpochFramed DEF EpochFrame, Departed, SchedulePcs
<1>10. LocInv'
  BY <1>0, <1>c, <1>1, <1>2, <1>k, LocFramed
  DEF LocInv, LocFrame, Leaving, StillOurs, PlacePcs, SchedulePcs
<1>11. ClaimInv'
  BY <1>0, <1>c, <1>1, <1>2, <1>k, ClaimFramed DEF ClaimFrame, Departed, SchedulePcs
<1>12. WarmInv'
  BY <1>0, <1>c, <1>1, <1>2, <1>k, WarmFramed DEF WarmInv, WarmFrame, Warming, OwnerPcs, WarmPcs
<1>13. CompletionInv'
  BY <1>0, <1>c, <1>1, <1>2, <1>k, CompletionFramed
  DEF CompletionInv, CompletionFrame, Owning, OwnerPcs, WarmPcs, Draining, DrainPcs, SchedulePcs
<1>. QED
  BY <1>3, <1>4, <1>5, <1>6, <1>7, <1>8, <1>9, <1>10, <1>11, <1>12, <1>13 DEF Inv


----------------------------------------------------------------------------
(* Owning the slot.                                                        *)

LEMMA OwnerConsumeKeeps ==
  ASSUME Inv, NEW w \in Workers, OwnerConsume(w) PROVE Inv'
<1>0. /\ TypeOK /\ LocalInv /\ ReserveInv /\ CountInv /\ HolderInv /\ SentinelInv /\ PinInv
      /\ EpochInv /\ LocInv /\ ClaimInv /\ WarmInv /\ CompletionInv
  BY DEF Inv
<1>c. /\ w \in Threads /\ Workers \cap Schedulers = {} /\ Workers \subseteq Threads /\ None \notin Processes
      /\ EMPTY \notin Processes /\ RESERVED \notin Processes /\ EMPTY # RESERVED
  BY Constants DEF Threads
<1>k. me[w].process \in Processes
  <2>1. /\ JobOK(w) /\ (w \in Workers => LocalOK(w))
        /\ ret[w] \in {"wake", "rewake", "reclaim_wake"}
    BY <1>0, <1>c DEF LocalInv, TypeOK
  <2>. QED
    BY <2>1, <1>c
    DEF OwnerConsume, Goto, JobOK, PlacePcs, SchedulePcs, LocalOK, Draining, Owning, OwnerPcs,
       Departed, DrainPcs, WarmPcs
<1>1. /\ w \in Threads /\ pc[w] = "owner" /\ pc'[w] \in {"restore", "decide"}
      /\ pc' \in [Threads -> Pcs]
      /\ \A u \in Threads : u # w => pc'[u] = pc[u]
      /\ me' \in [Workers -> Locals]
      /\ \A v \in Workers : v # w => me'[v] = me[v]
      /\ me'[w].slot = me[w].slot /\ me'[w].process = me[w].process
      /\ me'[w].epoch = me[w].epoch /\ me'[w].gen = me[w].gen /\ me'[w].result = me[w].result
      /\ me'[w].entered = me[w].entered /\ me'[w].keepEpoch = me[w].keepEpoch
      /\ needsDrain' \in [Processes -> BOOLEAN]
      /\ (me'[w].terminal => me[w].terminal \/ Terminal(me[w].process))
      /\ UNCHANGED <<client, state, scheduleState, retainDrain, placementEpoch, placements,
                     releasePending, retentionEpoch, warmRetainers, slotProcess, slotEpoch,
                     slotBudget, generation, drainers, sentinel, completionClaimed, overflow,
                     work, regionsLeft, closing, completions, releases, callsLeft, rescan,
                     todo, job, probe, ret>>
  <2>t. PICK tm \in BOOLEAN : tm = (me[w].terminal \/ Terminal(me[w].process))
    OBVIOUS
  <2>a. PICK ag \in BOOLEAN : ag = (~tm /\ needsDrain[me[w].process])
    OBVIOUS
  <2>d. PICK d \in BOOLEAN : d = (me[w].didWork \/ ag)
    OBVIOUS
  <2>r. PICK r \in BOOLEAN : r = (ag /\ me[w].entered)
    OBVIOUS
  <2>m1. me \in [Workers -> Locals] /\ me[w] \in Locals
    BY <1>0 DEF TypeOK, Locals
  <2>m2. PICK l \in Locals : l = [me[w] EXCEPT !.terminal = tm, !.didWork = d, !.rejoin = r]
    BY <2>m1, <2>t, <2>a, <2>d, <2>r DEF Locals, Results
  <2>m3. me' = [me EXCEPT ![w] = l]
    BY <2>m1, <2>m2, <2>t, <2>a, <2>d, <2>r DEF OwnerConsume
  <2>m4. /\ me' \in [Workers -> Locals] /\ me'[w] = l
         /\ \A v \in Workers : v # w => me'[v] = me[v]
    BY <2>m1, <2>m3
  <2>m5. /\ l.slot = me[w].slot /\ l.process = me[w].process /\ l.epoch = me[w].epoch
        /\ l.gen = me[w].gen /\ l.result = me[w].result /\ l.terminal = tm
        /\ l.entered = me[w].entered /\ l.rejoin = r /\ l.keepEpoch = me[w].keepEpoch
        /\ l.didWork = d
    BY <2>m1, <2>m2 DEF Locals
  <2>1. needsDrain' \in [Processes -> BOOLEAN]
    BY <1>0, <1>k DEF OwnerConsume, TypeOK
  <2>g. /\ pc[w] = "owner" /\ pc'[w] \in {"restore", "decide"} /\ pc' \in [Threads -> Pcs]
        /\ \A u \in Threads : u # w => pc'[u] = pc[u]
    BY <1>0, <1>c DEF OwnerConsume, Goto, TypeOK, Pcs, DrainPcs, SchedulePcs, WarmPcs, ReleasePcs
  <2>. QED
    BY <1>c, <2>m4, <2>m5, <2>g, <2>1, <2>t
    DEF OwnerConsume, processVars, slotVars, clientVars, callVars, scanVars
<1>2. Slots' = Slots /\ Locals' = Locals
  BY <1>1 DEF Slots, Locals
<1>h. /\ me[w].process \in Processes /\ me[w].slot \in Slots
      /\ slotProcess[me[w].slot] = me[w].process
      /\ \A s \in Slots : slotProcess[s] = me[w].process => s = me[w].slot
      /\ InSlot(me[w].process) /\ ~InHand(me[w].process) /\ ~OnItsWay(me[w].process)
      /\ me[w].process \notin overflow /\ scheduleState[me[w].process] # "IDLE"
      /\ state[me[w].process] # "SUSPENDED"
  <2>1. Owning(w)
    BY <1>1 DEF Draining, DrainPcs, Owning, OwnerPcs, WarmPcs
  <2>. QED
    BY <2>1, Housed
<1>a. ASSUME NEW v \in Workers, Draining(v) \/ (Holding(v) /\ v # w)
      PROVE  /\ me[v].slot # me[w].slot
             /\ Draining(v) \/ Owning(v) => me[v].process # me[w].process
  <2>1. Owning(w) /\ Holding(w)
    BY <1>1 DEF Owning, Holding, OwnerPcs
  <2>. QED
    BY <1>a, <2>1, Apart
<1>t. Terminal(me[w].process) => completions[me[w].process] = 1
  <2>1. ~Resolving(me[w].process)
    BY <1>a DEF Resolving, Draining, DrainPcs
  <2>. QED
    BY <1>0, <1>h, <2>1 DEF CompletionInv
<1>3. TypeOK'
  BY <1>0, <1>c, <1>1, <1>2, <1>k, <1>t, ClientFacts DEF TypeOK, Locals
<1>4. LocalInv'
  <2>1. ASSUME NEW v \in Workers PROVE LocalOK(v)'
    <3>1. LocalOK(v)
      BY <1>0 DEF LocalInv
    <3>. QED
      BY <1>0, <1>c, <1>1, <1>2, <1>k, <1>t, <3>1
      DEF LocalOK, Draining, Owning, OwnerPcs, Departed, DrainPcs, SchedulePcs, WarmPcs
  <2>2. ASSUME NEW u \in Threads PROVE JobOK(u)'
    <3>1. JobOK(u) /\ ret[u] \in {"wake", "rewake", "reclaim_wake"}
      BY <1>0 DEF LocalInv, TypeOK
    <3>. QED
      BY <1>0, <1>c, <1>1, <1>2, <1>k, <1>t, <3>1 DEF JobOK, PlacePcs, SchedulePcs
  <2>. QED
    BY <2>1, <2>2 DEF LocalInv
<1>5. ReserveInv'
  BY <1>0, <1>c, <1>1, <1>2, <1>k, <1>t, ReserveFramed DEF ReserveFrame
<1>6. CountInv'
  BY <1>0, <1>c, <1>1, <1>2, <1>k, <1>t, CountFramed
  DEF CountFrame, Registered, Draining, DrainPcs, SchedulePcs
<1>7. HolderInv' /\ SentinelInv'
  BY <1>0, <1>c, <1>1, <1>2, <1>k, <1>t, HolderFramed
  DEF HolderFrame, Holding, OwnerPcs, WarmPcs, Draining, DrainPcs, SchedulePcs
<1>8. PinInv'
  BY <1>0, <1>c, <1>1, <1>2, <1>k, <1>t, PinFramed
  DEF PinFrame, Owning, OwnerPcs, WarmPcs, Draining, DrainPcs, SchedulePcs
<1>9. EpochInv'
  BY <1>0, <1>c, <1>1, <1>2, <1>k, <1>t, EpochFramed DEF EpochFrame, Departed, SchedulePcs
<1>10. LocInv'
  BY <1>0, <1>c, <1>1, <1>2, <1>k, <1>t, LocFramed
  DEF LocInv, LocFrame, Leaving, StillOurs, PlacePcs, SchedulePcs
<1>11. ClaimInv'
  BY <1>0, <1>c, <1>1, <1>2, <1>k, <1>t, ClaimFramed DEF ClaimFrame, Departed, SchedulePcs
<1>12. WarmInv'
  BY <1>0, <1>c, <1>1, <1>2, <1>k, <1>t, WarmFramed
  DEF WarmInv, WarmFrame, Warming, OwnerPcs, WarmPcs
<1>13. CompletionInv'
  BY <1>0, <1>c, <1>1, <1>2, <1>k, <1>t, CompletionFramed
  DEF CompletionInv, CompletionFrame, Owning, OwnerPcs, WarmPcs, Draining, DrainPcs, SchedulePcs,
     Terminal
<1>. QED
  BY <1>3, <1>4, <1>5, <1>6, <1>7, <1>8, <1>9, <1>10, <1>11, <1>12, <1>13 DEF Inv

LEMMA OwnerDecideKeeps ==
  ASSUME Inv, NEW w \in Workers, OwnerDecide(w) PROVE Inv'
<1>0. /\ TypeOK /\ LocalInv /\ ReserveInv /\ CountInv /\ HolderInv /\ SentinelInv /\ PinInv
      /\ EpochInv /\ LocInv /\ ClaimInv /\ WarmInv /\ CompletionInv
  BY DEF Inv
<1>c. /\ w \in Threads /\ Workers \cap Schedulers = {} /\ Workers \subseteq Threads /\ None \notin Processes
      /\ EMPTY \notin Processes /\ RESERVED \notin Processes /\ EMPTY # RESERVED
  BY Constants DEF Threads
<1>k. me[w].process \in Processes
  <2>1. /\ JobOK(w) /\ (w \in Workers => LocalOK(w))
        /\ ret[w] \in {"wake", "rewake", "reclaim_wake"}
    BY <1>0, <1>c DEF LocalInv, TypeOK
  <2>. QED
    BY <2>1, <1>c
    DEF OwnerDecide, Goto, JobOK, PlacePcs, SchedulePcs, LocalOK, Draining, Owning, OwnerPcs,
       Departed, DrainPcs, WarmPcs
<1>1. /\ w \in Threads /\ pc[w] = "decide" /\ pc'[w] \in {"restore", "release"}
      /\ pc' \in [Threads -> Pcs]
      /\ \A u \in Threads : u # w => pc'[u] = pc[u]
      /\ me' \in [Workers -> Locals]
      /\ \A v \in Workers : v # w => me'[v] = me[v]
      /\ me'[w].slot = me[w].slot /\ me'[w].process = me[w].process
      /\ me'[w].epoch = me[w].epoch /\ me'[w].gen = me[w].gen /\ me'[w].result = me[w].result
      /\ me'[w].terminal = me[w].terminal /\ me'[w].entered = me[w].entered
      /\ me'[w].keepEpoch = me[w].keepEpoch
      /\ retainDrain' \in [Processes -> BOOLEAN]
      /\ (pc'[w] = "release" => warmRetainers[me[w].process] = 0 /\ ~me[w].entered)
      /\ UNCHANGED <<client, state, scheduleState, needsDrain, placementEpoch, placements,
                     releasePending, retentionEpoch, warmRetainers, slotProcess, slotEpoch,
                     slotBudget, generation, drainers, sentinel, completionClaimed, overflow,
                     work, regionsLeft, closing, completions, releases, callsLeft, rescan,
                     todo, job, probe, ret>>
  <2>b. me[w].entered => warmRetainers[me[w].process] # 0
    <3>1. SUFFICES ASSUME me[w].entered PROVE warmRetainers[me[w].process] # 0
      OBVIOUS
    <3>2. Warming(w)
      BY <3>1 DEF Warming, OwnerPcs, OwnerDecide, Goto
    <3>. QED
      BY <1>0, <1>k, <3>2, WarmCounted DEF TypeOK
  <2>a. PICK ag \in BOOLEAN : ag = (~me[w].terminal /\ retainDrain[me[w].process])
    OBVIOUS
  <2>d. PICK d \in BOOLEAN : d = (me[w].didWork \/ ag)
    OBVIOUS
  <2>r. PICK r \in BOOLEAN : r = (ag /\ me[w].entered)
    OBVIOUS
  <2>m1. me \in [Workers -> Locals] /\ me[w] \in Locals
    BY <1>0 DEF TypeOK, Locals
  <2>m2. PICK l \in Locals : l = [me[w] EXCEPT !.didWork = d, !.rejoin = r]
    BY <2>m1, <2>a, <2>d, <2>r DEF Locals, Results
  <2>m3. me' = [me EXCEPT ![w] = l]
    BY <2>m1, <2>m2, <2>a, <2>d, <2>r DEF OwnerDecide
  <2>m4. /\ me' \in [Workers -> Locals] /\ me'[w] = l
         /\ \A v \in Workers : v # w => me'[v] = me[v]
    BY <2>m1, <2>m3
  <2>m5. /\ l.slot = me[w].slot /\ l.process = me[w].process /\ l.epoch = me[w].epoch
        /\ l.gen = me[w].gen /\ l.result = me[w].result /\ l.terminal = me[w].terminal
        /\ l.entered = me[w].entered /\ l.rejoin = r /\ l.keepEpoch = me[w].keepEpoch
        /\ l.didWork = d
    BY <2>m1, <2>m2 DEF Locals
  <2>1. retainDrain' \in [Processes -> BOOLEAN]
    BY <1>0, <1>k DEF OwnerDecide, TypeOK
  <2>2. pc'[w] = "release" => warmRetainers[me[w].process] = 0 /\ ~me[w].entered
    BY <1>0, <1>c, <2>b DEF OwnerDecide, HasRetainers, Goto, TypeOK
  <2>g. /\ pc[w] = "decide" /\ pc'[w] \in {"restore", "release"} /\ pc' \in [Threads -> Pcs]
        /\ \A u \in Threads : u # w => pc'[u] = pc[u]
    BY <1>0, <1>c DEF OwnerDecide, Goto, TypeOK, Pcs, DrainPcs, SchedulePcs, WarmPcs, ReleasePcs
  <2>. QED
    BY <1>c, <2>m4, <2>m5, <2>g, <2>1, <2>2
    DEF OwnerDecide, processVars, slotVars, clientVars, callVars, scanVars
<1>2. Slots' = Slots /\ Locals' = Locals
  BY <1>1 DEF Slots, Locals
<1>3. TypeOK'
  BY <1>0, <1>c, <1>1, <1>2, <1>k, ClientFacts DEF TypeOK, Locals
<1>4. LocalInv'
  <2>1. ASSUME NEW v \in Workers PROVE LocalOK(v)'
    <3>1. LocalOK(v)
      BY <1>0 DEF LocalInv
    <3>. QED
      BY <1>0, <1>c, <1>1, <1>2, <1>k, <3>1
      DEF LocalOK, Draining, Owning, OwnerPcs, Departed, DrainPcs, SchedulePcs, WarmPcs
  <2>2. ASSUME NEW u \in Threads PROVE JobOK(u)'
    <3>1. JobOK(u) /\ ret[u] \in {"wake", "rewake", "reclaim_wake"}
      BY <1>0 DEF LocalInv, TypeOK
    <3>. QED
      BY <1>0, <1>c, <1>1, <1>2, <1>k, <3>1 DEF JobOK, PlacePcs, SchedulePcs
  <2>. QED
    BY <2>1, <2>2 DEF LocalInv
<1>5. ReserveInv'
  BY <1>0, <1>c, <1>1, <1>2, <1>k, ReserveFramed DEF ReserveFrame
<1>6. CountInv'
  BY <1>0, <1>c, <1>1, <1>2, <1>k, CountFramed
  DEF CountFrame, Registered, Draining, DrainPcs, SchedulePcs
<1>7. HolderInv' /\ SentinelInv'
  BY <1>0, <1>c, <1>1, <1>2, <1>k, HolderFramed
  DEF HolderFrame, Holding, OwnerPcs, WarmPcs, Draining, DrainPcs, SchedulePcs
<1>8. PinInv'
  BY <1>0, <1>c, <1>1, <1>2, <1>k, PinFramed
  DEF PinFrame, Owning, OwnerPcs, WarmPcs, Draining, DrainPcs, SchedulePcs
<1>9. EpochInv'
  BY <1>0, <1>c, <1>1, <1>2, <1>k, EpochFramed DEF EpochFrame, Departed, SchedulePcs
<1>10. LocInv'
  BY <1>0, <1>c, <1>1, <1>2, <1>k, LocFramed
  DEF LocInv, LocFrame, Leaving, StillOurs, PlacePcs, SchedulePcs
<1>11. ClaimInv'
  BY <1>0, <1>c, <1>1, <1>2, <1>k, ClaimFramed DEF ClaimFrame, Departed, SchedulePcs
<1>12. WarmInv'
  BY <1>0, <1>c, <1>1, <1>2, <1>k, WarmFramed DEF WarmInv, WarmFrame, Warming, OwnerPcs, WarmPcs
<1>13. CompletionInv'
  BY <1>0, <1>c, <1>1, <1>2, <1>k, CompletionFramed
  DEF CompletionInv, CompletionFrame, Owning, OwnerPcs, WarmPcs, Draining, DrainPcs, SchedulePcs
<1>. QED
  BY <1>3, <1>4, <1>5, <1>6, <1>7, <1>8, <1>9, <1>10, <1>11, <1>12, <1>13 DEF Inv

LEMMA RestoreKeeps ==
  ASSUME Inv, NEW w \in Workers, Restore(w) PROVE Inv'
<1>0. /\ TypeOK /\ LocalInv /\ ReserveInv /\ CountInv /\ HolderInv /\ SentinelInv /\ PinInv
      /\ EpochInv /\ LocInv /\ ClaimInv /\ WarmInv /\ CompletionInv
  BY DEF Inv
<1>c. /\ w \in Threads /\ Workers \cap Schedulers = {} /\ Workers \subseteq Threads /\ None \notin Processes
      /\ EMPTY \notin Processes /\ RESERVED \notin Processes /\ EMPTY # RESERVED
  BY Constants DEF Threads
<1>k. me[w].process \in Processes
  <2>1. /\ JobOK(w) /\ (w \in Workers => LocalOK(w))
        /\ ret[w] \in {"wake", "rewake", "reclaim_wake"}
    BY <1>0, <1>c DEF LocalInv, TypeOK
  <2>. QED
    BY <2>1, <1>c
    DEF Restore, Goto, JobOK, PlacePcs, SchedulePcs, LocalOK, Draining, Owning, OwnerPcs,
       Departed, DrainPcs, WarmPcs
<1>1. /\ w \in Threads /\ pc[w] = "restore" /\ pc'[w] \in {"warm", "rest", "scan"}
      /\ pc' \in [Threads -> Pcs]
      /\ \A u \in Threads : u # w => pc'[u] = pc[u]
      /\ me' = me
      /\ sentinel' \in [Slots -> BOOLEAN] /\ sentinel' = [sentinel EXCEPT ![me[w].slot] = FALSE]
      /\ (pc'[w] = "warm" <=> me[w].entered)
      /\ UNCHANGED <<client, state, scheduleState, needsDrain, retainDrain, placementEpoch,
                     placements, releasePending, retentionEpoch, warmRetainers, slotProcess,
                     slotEpoch, slotBudget, generation, drainers, completionClaimed, overflow,
                     work, regionsLeft, closing, completions, releases, callsLeft, rescan,
                     todo, job, probe, ret>>
  <2>1. sentinel' \in [Slots -> BOOLEAN]
    BY <1>0 DEF Restore, TypeOK
  <2>2. pc'[w] = "warm" <=> me[w].entered
    BY <1>0, <1>c DEF Restore, Onward, Goto, TypeOK
  <2>g. /\ pc[w] = "restore" /\ pc'[w] \in {"warm", "rest", "scan"} /\ pc' \in [Threads -> Pcs]
        /\ \A u \in Threads : u # w => pc'[u] = pc[u]
    BY <1>0, <1>c
    DEF Restore, Goto, TypeOK, Pcs, DrainPcs, SchedulePcs, WarmPcs, ReleasePcs, Onward
  <2>. QED
    BY <1>c, <2>1, <2>2, <2>g DEF Restore, processVars, slotVars, clientVars, callVars, scanVars
<1>2. Slots' = Slots /\ Locals' = Locals
  BY <1>1 DEF Slots, Locals
<1>h. /\ me[w].process \in Processes /\ me[w].slot \in Slots
      /\ slotProcess[me[w].slot] = me[w].process
      /\ \A s \in Slots : slotProcess[s] = me[w].process => s = me[w].slot
      /\ InSlot(me[w].process) /\ ~InHand(me[w].process) /\ ~OnItsWay(me[w].process)
      /\ me[w].process \notin overflow /\ scheduleState[me[w].process] # "IDLE"
      /\ state[me[w].process] # "SUSPENDED"
  <2>1. Owning(w)
    BY <1>1 DEF Draining, DrainPcs, Owning, OwnerPcs, WarmPcs
  <2>. QED
    BY <2>1, Housed
<1>a. ASSUME NEW v \in Workers, Draining(v) \/ (Holding(v) /\ v # w)
      PROVE  /\ me[v].slot # me[w].slot
             /\ Draining(v) \/ Owning(v) => me[v].process # me[w].process
  <2>1. Owning(w) /\ Holding(w)
    BY <1>1 DEF Owning, Holding, OwnerPcs
  <2>. QED
    BY <1>a, <2>1, Apart
<1>3. TypeOK'
  BY <1>0, <1>c, <1>1, <1>2, <1>k, ClientFacts DEF TypeOK, Locals
<1>4. LocalInv'
  <2>1. ASSUME NEW v \in Workers PROVE LocalOK(v)'
    <3>1. LocalOK(v)
      BY <1>0 DEF LocalInv
    <3>. QED
      BY <1>0, <1>c, <1>1, <1>2, <1>k, <3>1
      DEF LocalOK, Draining, Owning, OwnerPcs, Departed, DrainPcs, SchedulePcs, WarmPcs
  <2>2. ASSUME NEW u \in Threads PROVE JobOK(u)'
    <3>1. JobOK(u) /\ ret[u] \in {"wake", "rewake", "reclaim_wake"}
      BY <1>0 DEF LocalInv, TypeOK
    <3>. QED
      BY <1>0, <1>c, <1>1, <1>2, <1>k, <3>1 DEF JobOK, PlacePcs, SchedulePcs
  <2>. QED
    BY <2>1, <2>2 DEF LocalInv
<1>5. ReserveInv'
  BY <1>0, <1>c, <1>1, <1>2, <1>k, ReserveFramed DEF ReserveFrame
<1>6. CountInv'
  BY <1>0, <1>c, <1>1, <1>2, <1>k, CountFramed
  DEF CountFrame, Registered, Draining, DrainPcs, SchedulePcs
<1>7. HolderInv' /\ SentinelInv'
  <2>0. /\ ~sentinel'[me[w].slot] /\ me[w].slot \in Slots
        /\ \A s \in Slots : s # me[w].slot => sentinel'[s] = sentinel[s]
    BY <1>0, <1>c, <1>1, <1>2, <1>k DEF TypeOK
  <2>1. ASSUME NEW v \in Workers, v # w
        PROVE  /\ Holding(v)' <=> Holding(v)
               /\ pc'[v] = "verify" \/ Draining(v)' => pc[v] = "verify" \/ Draining(v)
               /\ me'[v] = me[v] /\ pc'[v] = pc[v] /\ me[v].slot \in Slots
               /\ Holding(v) => me[v].slot # me[w].slot
    BY <1>0, <1>c, <1>1, <1>2, <1>k, <1>a, <2>1 DEF Holding, Draining, TypeOK
  <2>2. /\ ~Holding(w)' /\ ~(pc'[w] = "verify" \/ Draining(w)') /\ pc'[w] # "reset"
        /\ me'[w].slot = me[w].slot
    BY <1>0, <1>c, <1>1, <1>2, <1>k DEF Holding, OwnerPcs, Draining, DrainPcs, SchedulePcs
  <2>3. ASSUME NEW v \in Workers, Holding(v)'
        PROVE  /\ sentinel'[me'[v].slot]
               /\ \A u \in Workers : Holding(u)' /\ me'[u].slot = me'[v].slot => u = v
    BY <1>0, <1>c, <1>1, <1>2, <1>k, <2>0, <2>1, <2>2, <2>3 DEF HolderInv
  <2>4. ASSUME NEW v \in Workers, pc'[v] = "verify" \/ Draining(v)' PROVE ~sentinel'[me'[v].slot]
    BY <1>0, <1>c, <1>1, <1>2, <1>k, <2>0, <2>1, <2>2, <2>4 DEF HolderInv
  <2>5. ASSUME NEW v \in Workers, pc'[v] \in WarmPcs, NEW u \in Workers, pc'[u] = "reset"
        PROVE  me'[u].slot # me'[v].slot
    <3>1. u # w /\ pc[u] = "reset" /\ me'[u] = me[u] /\ Holding(u)
      BY <2>1, <2>2, <2>5 DEF Holding
    <3>2. CASE v = w
      BY <2>1, <2>2, <3>1, <3>2
    <3>3. CASE v # w
      BY <1>0, <2>1, <2>5, <3>1, <3>3 DEF HolderInv
    <3>. QED
      BY <3>2, <3>3
  <2>6. HolderInv'
    BY <2>3, <2>4, <2>5 DEF HolderInv
  <2>7. ASSUME NEW s \in Slots, sentinel'[s] PROVE \E v \in Workers : Holding(v)' /\ me'[v].slot = s
    <3>1. s # me[w].slot /\ sentinel[s]
      BY <2>0, <2>7
    <3>2. PICK v \in Workers : Holding(v) /\ me[v].slot = s
      BY <1>0, <3>1 DEF SentinelInv
    <3>. QED
      BY <2>1, <2>2, <3>1, <3>2
  <2>. QED
    BY <1>2, <2>6, <2>7 DEF SentinelInv
<1>8. PinInv'
  BY <1>0, <1>c, <1>1, <1>2, <1>k, PinFramed
  DEF PinFrame, Owning, OwnerPcs, WarmPcs, Draining, DrainPcs, SchedulePcs
<1>9. EpochInv'
  BY <1>0, <1>c, <1>1, <1>2, <1>k, EpochFramed DEF EpochFrame, Departed, SchedulePcs
<1>10. LocInv'
  BY <1>0, <1>c, <1>1, <1>2, <1>k, LocFramed
  DEF LocInv, LocFrame, Leaving, StillOurs, PlacePcs, SchedulePcs
<1>11. ClaimInv'
  BY <1>0, <1>c, <1>1, <1>2, <1>k, ClaimFramed DEF ClaimFrame, Departed, SchedulePcs
<1>12. WarmInv'
  BY <1>0, <1>c, <1>1, <1>2, <1>k, WarmFramed DEF WarmInv, WarmFrame, Warming, OwnerPcs, WarmPcs
<1>13. CompletionInv'
  BY <1>0, <1>c, <1>1, <1>2, <1>k, CompletionFramed
  DEF CompletionInv, CompletionFrame, Owning, OwnerPcs, WarmPcs, Draining, DrainPcs, SchedulePcs
<1>. QED
  BY <1>3, <1>4, <1>5, <1>6, <1>7, <1>8, <1>9, <1>10, <1>11, <1>12, <1>13 DEF Inv


----------------------------------------------------------------------------
(* Waiting warm.                                                           *)

LEMMA WarmTestKeeps ==
  ASSUME Inv, NEW w \in Workers, WarmTest(w) PROVE Inv'
<1>0. /\ TypeOK /\ LocalInv /\ ReserveInv /\ CountInv /\ HolderInv /\ SentinelInv /\ PinInv
      /\ EpochInv /\ LocInv /\ ClaimInv /\ WarmInv /\ CompletionInv
  BY DEF Inv
<1>c. /\ w \in Threads /\ Workers \cap Schedulers = {} /\ Workers \subseteq Threads /\ None \notin Processes
      /\ EMPTY \notin Processes /\ RESERVED \notin Processes /\ EMPTY # RESERVED
  BY Constants DEF Threads
<1>k. me[w].process \in Processes
  <2>1. /\ JobOK(w) /\ (w \in Workers => LocalOK(w))
        /\ ret[w] \in {"wake", "rewake", "reclaim_wake"}
    BY <1>0, <1>c DEF LocalInv, TypeOK
  <2>. QED
    BY <2>1, <1>c
    DEF WarmTest, Goto, JobOK, PlacePcs, SchedulePcs, LocalOK, Draining, Owning, OwnerPcs,
       Departed, DrainPcs, WarmPcs
<1>1. /\ w \in Threads /\ pc[w] = "warm" /\ pc'[w] \in {"try_rejoin", "drop", "warm_sleep"}
      /\ pc' \in [Threads -> Pcs]
      /\ \A u \in Threads : u # w => pc'[u] = pc[u]
      /\ me' \in [Workers -> Locals]
      /\ \A v \in Workers : v # w => me'[v] = me[v]
      /\ me'[w].slot = me[w].slot /\ me'[w].process = me[w].process
      /\ me'[w].epoch = me[w].epoch /\ me'[w].gen = me[w].gen /\ me'[w].result = me[w].result
      /\ me'[w].terminal = me[w].terminal /\ me'[w].entered = FALSE /\ me'[w].rejoin = FALSE
      /\ me'[w].keepEpoch = me[w].keepEpoch /\ me'[w].didWork = me[w].didWork
      /\ UNCHANGED <<client, state, scheduleState, needsDrain, retainDrain, placementEpoch,
                     placements, releasePending, retentionEpoch, warmRetainers, slotProcess,
                     slotEpoch, slotBudget, generation, drainers, sentinel, completionClaimed,
                     overflow, work, regionsLeft, closing, completions, releases, callsLeft,
                     rescan, todo, job, probe, ret>>
  <2>m1. me \in [Workers -> Locals] /\ me[w] \in Locals
    BY <1>0 DEF TypeOK, Locals
  <2>m2. PICK l \in Locals : l = [me[w] EXCEPT !.rejoin = FALSE, !.entered = FALSE]
    BY <2>m1 DEF Locals, Results
  <2>m3. me' = [me EXCEPT ![w] = l]
    BY <2>m1, <2>m2 DEF WarmTest
  <2>m4. /\ me' \in [Workers -> Locals] /\ me'[w] = l
         /\ \A v \in Workers : v # w => me'[v] = me[v]
    BY <2>m1, <2>m3
  <2>m5. /\ l.slot = me[w].slot /\ l.process = me[w].process /\ l.epoch = me[w].epoch
        /\ l.gen = me[w].gen /\ l.result = me[w].result /\ l.terminal = me[w].terminal
        /\ l.entered = FALSE /\ l.rejoin = FALSE /\ l.keepEpoch = me[w].keepEpoch
        /\ l.didWork = me[w].didWork
    BY <2>m1, <2>m2 DEF Locals
  <2>1. Goto(w, "warm", "try_rejoin") \/ Goto(w, "warm", "drop") \/ Goto(w, "warm", "warm_sleep")
    BY DEF WarmTest
  <2>g. /\ pc[w] = "warm" /\ pc'[w] \in {"try_rejoin", "drop", "warm_sleep"} /\ pc' \in [Threads -> Pcs]
        /\ \A u \in Threads : u # w => pc'[u] = pc[u]
    BY <1>0, <1>c, <2>1 DEF Goto, TypeOK, Pcs, DrainPcs, SchedulePcs, WarmPcs, ReleasePcs
  <2>. QED
    BY <1>c, <2>m4, <2>m5, <2>g
    DEF WarmTest, processVars, slotVars, clientVars, callVars, scanVars
<1>2. Slots' = Slots /\ Locals' = Locals
  BY <1>1 DEF Slots, Locals
<1>3. TypeOK'
  BY <1>0, <1>c, <1>1, <1>2, <1>k, ClientFacts DEF TypeOK, Locals
<1>4. LocalInv'
  <2>1. ASSUME NEW v \in Workers PROVE LocalOK(v)'
    <3>1. LocalOK(v)
      BY <1>0 DEF LocalInv
    <3>. QED
      BY <1>0, <1>c, <1>1, <1>2, <1>k, <3>1
      DEF LocalOK, Draining, Owning, OwnerPcs, Departed, DrainPcs, SchedulePcs, WarmPcs
  <2>2. ASSUME NEW u \in Threads PROVE JobOK(u)'
    <3>1. JobOK(u) /\ ret[u] \in {"wake", "rewake", "reclaim_wake"}
      BY <1>0 DEF LocalInv, TypeOK
    <3>. QED
      BY <1>0, <1>c, <1>1, <1>2, <1>k, <3>1 DEF JobOK, PlacePcs, SchedulePcs
  <2>. QED
    BY <2>1, <2>2 DEF LocalInv
<1>5. ReserveInv'
  BY <1>0, <1>c, <1>1, <1>2, <1>k, ReserveFramed DEF ReserveFrame
<1>6. CountInv'
  BY <1>0, <1>c, <1>1, <1>2, <1>k, CountFramed
  DEF CountFrame, Registered, Draining, DrainPcs, SchedulePcs
<1>7. HolderInv' /\ SentinelInv'
  BY <1>0, <1>c, <1>1, <1>2, <1>k, HolderFramed
  DEF HolderFrame, Holding, OwnerPcs, WarmPcs, Draining, DrainPcs, SchedulePcs
<1>8. PinInv'
  BY <1>0, <1>c, <1>1, <1>2, <1>k, PinFramed
  DEF PinFrame, Owning, OwnerPcs, WarmPcs, Draining, DrainPcs, SchedulePcs
<1>9. EpochInv'
  BY <1>0, <1>c, <1>1, <1>2, <1>k, EpochFramed DEF EpochFrame, Departed, SchedulePcs
<1>10. LocInv'
  BY <1>0, <1>c, <1>1, <1>2, <1>k, LocFramed
  DEF LocInv, LocFrame, Leaving, StillOurs, PlacePcs, SchedulePcs
<1>11. ClaimInv'
  BY <1>0, <1>c, <1>1, <1>2, <1>k, ClaimFramed DEF ClaimFrame, Departed, SchedulePcs
<1>12. WarmInv'
  BY <1>0, <1>c, <1>1, <1>2, <1>k, WarmFramed DEF WarmInv, WarmFrame, Warming, OwnerPcs, WarmPcs
<1>13. CompletionInv'
  BY <1>0, <1>c, <1>1, <1>2, <1>k, CompletionFramed
  DEF CompletionInv, CompletionFrame, Owning, OwnerPcs, WarmPcs, Draining, DrainPcs, SchedulePcs
<1>. QED
  BY <1>3, <1>4, <1>5, <1>6, <1>7, <1>8, <1>9, <1>10, <1>11, <1>12, <1>13 DEF Inv

LEMMA WarmSleepKeeps ==
  ASSUME Inv, NEW w \in Workers, WarmSleep(w) PROVE Inv'
<1>0. /\ TypeOK /\ LocalInv /\ ReserveInv /\ CountInv /\ HolderInv /\ SentinelInv /\ PinInv
      /\ EpochInv /\ LocInv /\ ClaimInv /\ WarmInv /\ CompletionInv
  BY DEF Inv
<1>c. /\ w \in Threads /\ Workers \cap Schedulers = {} /\ Workers \subseteq Threads /\ None \notin Processes
      /\ EMPTY \notin Processes /\ RESERVED \notin Processes /\ EMPTY # RESERVED
  BY Constants DEF Threads
<1>k. me[w].process \in Processes /\ ~me[w].entered
  <2>1. /\ JobOK(w) /\ (w \in Workers => LocalOK(w))
        /\ ret[w] \in {"wake", "rewake", "reclaim_wake"}
    BY <1>0, <1>c DEF LocalInv, TypeOK
  <2>. QED
    BY <2>1, <1>c
    DEF WarmSleep, Goto, JobOK, PlacePcs, SchedulePcs, LocalOK, Draining, Owning, OwnerPcs,
       Departed, DrainPcs, WarmPcs
<1>1. /\ w \in Threads /\ pc[w] = "warm_sleep" /\ pc'[w] \in {"try_rejoin", "warm"}
      /\ pc' \in [Threads -> Pcs]
      /\ \A u \in Threads : u # w => pc'[u] = pc[u]
      /\ me' = me
      /\ UNCHANGED <<client, state, scheduleState, needsDrain, retainDrain, placementEpoch,
                     placements, releasePending, retentionEpoch, warmRetainers, slotProcess,
                     slotEpoch, slotBudget, generation, drainers, sentinel, completionClaimed,
                     overflow, work, regionsLeft, closing, completions, releases, callsLeft,
                     rescan, todo, job, probe, ret>>
  <2>g. /\ pc[w] = "warm_sleep" /\ pc'[w] \in {"try_rejoin", "warm"} /\ pc' \in [Threads -> Pcs]
        /\ \A u \in Threads : u # w => pc'[u] = pc[u]
    BY <1>0, <1>c DEF WarmSleep, Goto, TypeOK, Pcs, DrainPcs, SchedulePcs, WarmPcs, ReleasePcs
  <2>. QED
    BY <1>c, <2>g DEF WarmSleep, processVars, slotVars, clientVars, callVars, scanVars
<1>2. Slots' = Slots /\ Locals' = Locals
  BY <1>1 DEF Slots, Locals
<1>3. TypeOK'
  BY <1>0, <1>c, <1>1, <1>2, <1>k, ClientFacts DEF TypeOK, Locals
<1>4. LocalInv'
  <2>1. ASSUME NEW v \in Workers PROVE LocalOK(v)'
    <3>1. LocalOK(v)
      BY <1>0 DEF LocalInv
    <3>. QED
      BY <1>0, <1>c, <1>1, <1>2, <1>k, <3>1
      DEF LocalOK, Draining, Owning, OwnerPcs, Departed, DrainPcs, SchedulePcs, WarmPcs
  <2>2. ASSUME NEW u \in Threads PROVE JobOK(u)'
    <3>1. JobOK(u) /\ ret[u] \in {"wake", "rewake", "reclaim_wake"}
      BY <1>0 DEF LocalInv, TypeOK
    <3>. QED
      BY <1>0, <1>c, <1>1, <1>2, <1>k, <3>1 DEF JobOK, PlacePcs, SchedulePcs
  <2>. QED
    BY <2>1, <2>2 DEF LocalInv
<1>5. ReserveInv'
  BY <1>0, <1>c, <1>1, <1>2, <1>k, ReserveFramed DEF ReserveFrame
<1>6. CountInv'
  BY <1>0, <1>c, <1>1, <1>2, <1>k, CountFramed
  DEF CountFrame, Registered, Draining, DrainPcs, SchedulePcs
<1>7. HolderInv' /\ SentinelInv'
  BY <1>0, <1>c, <1>1, <1>2, <1>k, HolderFramed
  DEF HolderFrame, Holding, OwnerPcs, WarmPcs, Draining, DrainPcs, SchedulePcs
<1>8. PinInv'
  BY <1>0, <1>c, <1>1, <1>2, <1>k, PinFramed
  DEF PinFrame, Owning, OwnerPcs, WarmPcs, Draining, DrainPcs, SchedulePcs
<1>9. EpochInv'
  BY <1>0, <1>c, <1>1, <1>2, <1>k, EpochFramed DEF EpochFrame, Departed, SchedulePcs
<1>10. LocInv'
  BY <1>0, <1>c, <1>1, <1>2, <1>k, LocFramed
  DEF LocInv, LocFrame, Leaving, StillOurs, PlacePcs, SchedulePcs
<1>11. ClaimInv'
  BY <1>0, <1>c, <1>1, <1>2, <1>k, ClaimFramed DEF ClaimFrame, Departed, SchedulePcs
<1>12. WarmInv'
  BY <1>0, <1>c, <1>1, <1>2, <1>k, WarmFramed DEF WarmInv, WarmFrame, Warming, OwnerPcs, WarmPcs
<1>13. CompletionInv'
  BY <1>0, <1>c, <1>1, <1>2, <1>k, CompletionFramed
  DEF CompletionInv, CompletionFrame, Owning, OwnerPcs, WarmPcs, Draining, DrainPcs, SchedulePcs
<1>. QED
  BY <1>3, <1>4, <1>5, <1>6, <1>7, <1>8, <1>9, <1>10, <1>11, <1>12, <1>13 DEF Inv

LEMMA PublishRejoinKeeps ==
  ASSUME Inv, NEW w \in Workers, PublishRejoin(w) PROVE Inv'
<1>0. /\ TypeOK /\ LocalInv /\ ReserveInv /\ CountInv /\ HolderInv /\ SentinelInv /\ PinInv
      /\ EpochInv /\ LocInv /\ ClaimInv /\ WarmInv /\ CompletionInv
  BY DEF Inv
<1>c. /\ w \in Threads /\ Workers \cap Schedulers = {} /\ Workers \subseteq Threads /\ None \notin Processes
      /\ EMPTY \notin Processes /\ RESERVED \notin Processes /\ EMPTY # RESERVED
  BY Constants DEF Threads
<1>k. me[w].process \in Processes /\ ~me[w].entered
  <2>1. /\ JobOK(w) /\ (w \in Workers => LocalOK(w))
        /\ ret[w] \in {"wake", "rewake", "reclaim_wake"}
    BY <1>0, <1>c DEF LocalInv, TypeOK
  <2>. QED
    BY <2>1, <1>c
    DEF PublishRejoin, Goto, JobOK, PlacePcs, SchedulePcs, LocalOK, Draining, Owning, OwnerPcs,
       Departed, DrainPcs, WarmPcs
<1>1. /\ w \in Threads /\ pc[w] = "rejoin" /\ pc'[w] = "drop"
      /\ pc' \in [Threads -> Pcs]
      /\ \A u \in Threads : u # w => pc'[u] = pc[u]
      /\ me' \in [Workers -> Locals]
      /\ \A v \in Workers : v # w => me'[v] = me[v]
      /\ me'[w].slot = me[w].slot /\ me'[w].process = me[w].process
      /\ me'[w].epoch = me[w].epoch /\ me'[w].gen = me[w].gen /\ me'[w].result = me[w].result
      /\ me'[w].terminal = me[w].terminal /\ me'[w].entered = me[w].entered
      /\ me'[w].rejoin = TRUE /\ me'[w].keepEpoch = me[w].keepEpoch
      /\ me'[w].didWork = me[w].didWork
      /\ needsDrain' \in [Processes -> BOOLEAN]
      /\ UNCHANGED <<client, state, scheduleState, retainDrain, placementEpoch, placements,
                     releasePending, retentionEpoch, warmRetainers, slotProcess, slotEpoch,
                     slotBudget, generation, drainers, sentinel, completionClaimed, overflow,
                     work, regionsLeft, closing, completions, releases, callsLeft, rescan,
                     todo, job, probe, ret>>
  <2>1. needsDrain' \in [Processes -> BOOLEAN]
    BY <1>0, <1>k DEF PublishRejoin, TypeOK
  <2>m1. me \in [Workers -> Locals] /\ me[w] \in Locals
    BY <1>0 DEF TypeOK, Locals
  <2>m2. PICK l \in Locals : l = [me[w] EXCEPT !.rejoin = TRUE]
    BY <2>m1 DEF Locals, Results
  <2>m3. me' = [me EXCEPT ![w] = l]
    BY <2>m1, <2>m2 DEF PublishRejoin
  <2>m4. /\ me' \in [Workers -> Locals] /\ me'[w] = l
         /\ \A v \in Workers : v # w => me'[v] = me[v]
    BY <2>m1, <2>m3
  <2>m5. /\ l.slot = me[w].slot /\ l.process = me[w].process /\ l.epoch = me[w].epoch
        /\ l.gen = me[w].gen /\ l.result = me[w].result /\ l.terminal = me[w].terminal
        /\ l.entered = me[w].entered /\ l.rejoin = TRUE /\ l.keepEpoch = me[w].keepEpoch
        /\ l.didWork = me[w].didWork
    BY <2>m1, <2>m2 DEF Locals
  <2>g. /\ pc[w] = "rejoin" /\ pc'[w] = "drop" /\ pc' \in [Threads -> Pcs]
        /\ \A u \in Threads : u # w => pc'[u] = pc[u]
    BY <1>0, <1>c DEF PublishRejoin, Goto, TypeOK, Pcs, DrainPcs, SchedulePcs, WarmPcs, ReleasePcs
  <2>. QED
    BY <1>c, <2>m4, <2>m5, <2>g, <2>1
    DEF PublishRejoin, processVars, slotVars, clientVars, callVars, scanVars
<1>2. Slots' = Slots /\ Locals' = Locals
  BY <1>1 DEF Slots, Locals
<1>3. TypeOK'
  BY <1>0, <1>c, <1>1, <1>2, <1>k, ClientFacts DEF TypeOK, Locals
<1>4. LocalInv'
  <2>1. ASSUME NEW v \in Workers PROVE LocalOK(v)'
    <3>1. LocalOK(v)
      BY <1>0 DEF LocalInv
    <3>. QED
      BY <1>0, <1>c, <1>1, <1>2, <1>k, <3>1
      DEF LocalOK, Draining, Owning, OwnerPcs, Departed, DrainPcs, SchedulePcs, WarmPcs
  <2>2. ASSUME NEW u \in Threads PROVE JobOK(u)'
    <3>1. JobOK(u) /\ ret[u] \in {"wake", "rewake", "reclaim_wake"}
      BY <1>0 DEF LocalInv, TypeOK
    <3>. QED
      BY <1>0, <1>c, <1>1, <1>2, <1>k, <3>1 DEF JobOK, PlacePcs, SchedulePcs
  <2>. QED
    BY <2>1, <2>2 DEF LocalInv
<1>5. ReserveInv'
  BY <1>0, <1>c, <1>1, <1>2, <1>k, ReserveFramed DEF ReserveFrame
<1>6. CountInv'
  BY <1>0, <1>c, <1>1, <1>2, <1>k, CountFramed
  DEF CountFrame, Registered, Draining, DrainPcs, SchedulePcs
<1>7. HolderInv' /\ SentinelInv'
  BY <1>0, <1>c, <1>1, <1>2, <1>k, HolderFramed
  DEF HolderFrame, Holding, OwnerPcs, WarmPcs, Draining, DrainPcs, SchedulePcs
<1>8. PinInv'
  BY <1>0, <1>c, <1>1, <1>2, <1>k, PinFramed
  DEF PinFrame, Owning, OwnerPcs, WarmPcs, Draining, DrainPcs, SchedulePcs
<1>9. EpochInv'
  BY <1>0, <1>c, <1>1, <1>2, <1>k, EpochFramed DEF EpochFrame, Departed, SchedulePcs
<1>10. LocInv'
  BY <1>0, <1>c, <1>1, <1>2, <1>k, LocFramed
  DEF LocInv, LocFrame, Leaving, StillOurs, PlacePcs, SchedulePcs
<1>11. ClaimInv'
  BY <1>0, <1>c, <1>1, <1>2, <1>k, ClaimFramed DEF ClaimFrame, Departed, SchedulePcs
<1>12. WarmInv'
  BY <1>0, <1>c, <1>1, <1>2, <1>k, WarmFramed DEF WarmInv, WarmFrame, Warming, OwnerPcs, WarmPcs
<1>13. CompletionInv'
  BY <1>0, <1>c, <1>1, <1>2, <1>k, CompletionFramed
  DEF CompletionInv, CompletionFrame, Owning, OwnerPcs, WarmPcs, Draining, DrainPcs, SchedulePcs
<1>. QED
  BY <1>3, <1>4, <1>5, <1>6, <1>7, <1>8, <1>9, <1>10, <1>11, <1>12, <1>13 DEF Inv

LEMMA TryRejoinKeeps ==
  ASSUME Inv, NEW w \in Workers, TryRejoin(w) PROVE Inv'
<1>0. /\ TypeOK /\ LocalInv /\ ReserveInv /\ CountInv /\ HolderInv /\ SentinelInv /\ PinInv
      /\ EpochInv /\ LocInv /\ ClaimInv /\ WarmInv /\ CompletionInv
  BY DEF Inv
<1>c. /\ w \in Threads /\ Workers \cap Schedulers = {} /\ Workers \subseteq Threads /\ None \notin Processes
      /\ EMPTY \notin Processes /\ RESERVED \notin Processes /\ EMPTY # RESERVED
  BY Constants DEF Threads
<1>k. me[w].process \in Processes /\ ~me[w].entered
  <2>1. /\ JobOK(w) /\ (w \in Workers => LocalOK(w))
        /\ ret[w] \in {"wake", "rewake", "reclaim_wake"}
    BY <1>0, <1>c DEF LocalInv, TypeOK
  <2>. QED
    BY <2>1, <1>c
    DEF TryRejoin, Goto, JobOK, PlacePcs, SchedulePcs, LocalOK, Draining, Owning, OwnerPcs,
       Departed, DrainPcs, WarmPcs
<1>1. /\ w \in Threads /\ pc[w] = "try_rejoin" /\ pc'[w] \in {"rest", "rejoin"}
      /\ pc' \in [Threads -> Pcs]
      /\ \A u \in Threads : u # w => pc'[u] = pc[u]
      /\ me' = me
      /\ warmRetainers' \in [Processes -> Nat]
      /\ \/ pc'[w] = "rest" /\ warmRetainers' = [warmRetainers EXCEPT ![me[w].process] = @ - 1]
         \/ pc'[w] = "rejoin" /\ warmRetainers' = warmRetainers
      /\ UNCHANGED <<client, state, scheduleState, needsDrain, retainDrain, placementEpoch,
                     placements, releasePending, retentionEpoch, slotProcess, slotEpoch,
                     slotBudget, generation, drainers, sentinel, completionClaimed, overflow,
                     work, regionsLeft, closing, completions, releases, callsLeft, rescan,
                     todo, job, probe, ret>>
  <2>p. warmRetainers[me[w].process] > 0
    <3>1. Warming(w)
      BY DEF Warming, WarmPcs, TryRejoin, Goto
    <3>. QED
      BY <1>k, <3>1, WarmCounted
  <2>q. warmRetainers[me[w].process] \in Nat /\ warmRetainers[me[w].process] - 1 \in Nat
    <3>1. warmRetainers[me[w].process] \in Nat
      BY <1>0, <1>k DEF TypeOK
    <3>. QED
      BY <2>p, <3>1
  <2>w. warmRetainers' \in [Processes -> Nat]
    BY <1>0, <1>k, <2>q DEF TryRejoin, TypeOK
  <2>1. PICK e \in BOOLEAN : e <=> warmRetainers[me[w].process] > Budget
    OBVIOUS
  <2>2. \/ pc'[w] = "rest" /\ warmRetainers' = [warmRetainers EXCEPT ![me[w].process] = @ - 1]
        \/ pc'[w] = "rejoin" /\ warmRetainers' = warmRetainers
    <3>1. CASE e
      BY <1>0, <1>c, <1>k, <2>1, <3>1 DEF TryRejoin, Goto, TypeOK
    <3>2. CASE ~e
      BY <1>0, <1>c, <1>k, <2>1, <3>2 DEF TryRejoin, Goto, TypeOK
    <3>. QED
      BY <3>1, <3>2
  <2>g. /\ pc[w] = "try_rejoin" /\ pc'[w] \in {"rest", "rejoin"} /\ pc' \in [Threads -> Pcs]
        /\ \A u \in Threads : u # w => pc'[u] = pc[u]
    BY <1>0, <1>c DEF TryRejoin, Goto, TypeOK, Pcs, DrainPcs, SchedulePcs, WarmPcs, ReleasePcs
  <2>. QED
    BY <1>c, <2>w, <2>2, <2>g DEF TryRejoin, processVars, slotVars, clientVars, callVars, scanVars
<1>2. Slots' = Slots /\ Locals' = Locals
  BY <1>1 DEF Slots, Locals
<1>p. warmRetainers[me[w].process] > 0
  <2>1. Warming(w)
    BY DEF Warming, WarmPcs, TryRejoin, Goto
  <2>. QED
    BY <1>k, <2>1, WarmCounted
<1>3. TypeOK'
  BY <1>0, <1>c, <1>1, <1>2, <1>k, ClientFacts DEF TypeOK, Locals
<1>4. LocalInv'
  <2>1. ASSUME NEW v \in Workers PROVE LocalOK(v)'
    <3>1. LocalOK(v)
      BY <1>0 DEF LocalInv
    <3>. QED
      BY <1>0, <1>c, <1>1, <1>2, <1>k, <3>1
      DEF LocalOK, Draining, Owning, OwnerPcs, Departed, DrainPcs, SchedulePcs, WarmPcs
  <2>2. ASSUME NEW u \in Threads PROVE JobOK(u)'
    <3>1. JobOK(u) /\ ret[u] \in {"wake", "rewake", "reclaim_wake"}
      BY <1>0 DEF LocalInv, TypeOK
    <3>. QED
      BY <1>0, <1>c, <1>1, <1>2, <1>k, <3>1 DEF JobOK, PlacePcs, SchedulePcs
  <2>. QED
    BY <2>1, <2>2 DEF LocalInv
<1>5. ReserveInv'
  BY <1>0, <1>c, <1>1, <1>2, <1>k, ReserveFramed DEF ReserveFrame
<1>6. CountInv'
  BY <1>0, <1>c, <1>1, <1>2, <1>k, CountFramed
  DEF CountFrame, Registered, Draining, DrainPcs, SchedulePcs
<1>7. HolderInv' /\ SentinelInv'
  BY <1>0, <1>c, <1>1, <1>2, <1>k, HolderFramed
  DEF HolderFrame, Holding, OwnerPcs, WarmPcs, Draining, DrainPcs, SchedulePcs
<1>8. PinInv'
  BY <1>0, <1>c, <1>1, <1>2, <1>k, PinFramed
  DEF PinFrame, Owning, OwnerPcs, WarmPcs, Draining, DrainPcs, SchedulePcs
<1>9. EpochInv'
  BY <1>0, <1>c, <1>1, <1>2, <1>k, EpochFramed DEF EpochFrame, Departed, SchedulePcs
<1>10. LocInv'
  BY <1>0, <1>c, <1>1, <1>2, <1>k, LocFramed
  DEF LocInv, LocFrame, Leaving, StillOurs, PlacePcs, SchedulePcs
<1>11. ClaimInv'
  BY <1>0, <1>c, <1>1, <1>2, <1>k, ClaimFramed DEF ClaimFrame, Departed, SchedulePcs
<1>12. WarmInv'
  <2>1. CASE pc'[w] = "rejoin"
    BY <1>0, <1>c, <1>1, <1>2, <1>k, <2>1, WarmFramed
    DEF WarmInv, WarmFrame, Warming, OwnerPcs, WarmPcs
  <2>2. CASE pc'[w] = "rest"
    <3>1. Warming(w) /\ ~Warming(w)'
      BY <1>0, <1>c, <1>1, <1>2, <1>k, <2>2 DEF Warming, WarmPcs, OwnerPcs
    <3>2. ASSUME NEW v \in Workers, v # w
          PROVE  (Warming(v)' <=> Warming(v)) /\ me'[v].process = me[v].process
      BY <1>0, <1>c, <1>1, <1>2, <1>k, <3>2 DEF Warming
    <3>3. ASSUME NEW v \in Workers, pc'[v] \in {"release", "clear"}
          PROVE  warmRetainers'[me'[v].process] = 0
      <4>1. v # w /\ pc'[v] = pc[v] /\ me'[v] = me[v] /\ Owning(v)
        BY <1>0, <1>c, <1>1, <1>2, <1>k, <3>3 DEF Owning, OwnerPcs
      <4>2. me[v].process \in Processes /\ warmRetainers[me[v].process] = 0
        BY <1>0, <3>3, <4>1 DEF LocalInv, LocalOK, WarmInv
      <4>3. me[v].process # me[w].process
        BY <1>p, <4>2
      <4>. QED
        BY <1>0, <1>c, <1>1, <1>2, <1>k, <4>1, <4>2, <4>3 DEF TypeOK
    <3>4. WarmFrameBut(w)
      BY <3>2, <3>3 DEF WarmFrameBut
    <3>. QED
      BY <1>0, <1>c, <1>1, <1>2, <1>k, <2>2, <3>1, <3>4, WarmLeaves
  <2>. QED
    BY <1>1, <2>1, <2>2
<1>13. CompletionInv'
  BY <1>0, <1>c, <1>1, <1>2, <1>k, CompletionFramed
  DEF CompletionInv, CompletionFrame, Owning, OwnerPcs, WarmPcs, Draining, DrainPcs, SchedulePcs
<1>. QED
  BY <1>3, <1>4, <1>5, <1>6, <1>7, <1>8, <1>9, <1>10, <1>11, <1>12, <1>13 DEF Inv

LEMMA DropWarmKeeps ==
  ASSUME Inv, NEW w \in Workers, DropWarm(w) PROVE Inv'
<1>0. /\ TypeOK /\ LocalInv /\ ReserveInv /\ CountInv /\ HolderInv /\ SentinelInv /\ PinInv
      /\ EpochInv /\ LocInv /\ ClaimInv /\ WarmInv /\ CompletionInv
  BY DEF Inv
<1>c. /\ w \in Threads /\ Workers \cap Schedulers = {} /\ Workers \subseteq Threads /\ None \notin Processes
      /\ EMPTY \notin Processes /\ RESERVED \notin Processes /\ EMPTY # RESERVED
  BY Constants DEF Threads
<1>k. me[w].process \in Processes /\ ~me[w].entered
  <2>1. /\ JobOK(w) /\ (w \in Workers => LocalOK(w))
        /\ ret[w] \in {"wake", "rewake", "reclaim_wake"}
    BY <1>0, <1>c DEF LocalInv, TypeOK
  <2>. QED
    BY <2>1, <1>c
    DEF DropWarm, Goto, JobOK, PlacePcs, SchedulePcs, LocalOK, Draining, Owning, OwnerPcs,
       Departed, DrainPcs, WarmPcs
<1>1. /\ w \in Threads /\ pc[w] = "drop" /\ pc'[w] \in {"final", "rest"}
      /\ pc' \in [Threads -> Pcs]
      /\ \A u \in Threads : u # w => pc'[u] = pc[u]
      /\ me' = me
      /\ warmRetainers' \in [Processes -> Nat]
      /\ warmRetainers' = [warmRetainers EXCEPT ![me[w].process] = @ - 1]
      /\ UNCHANGED <<client, state, scheduleState, needsDrain, retainDrain, placementEpoch,
                     placements, releasePending, retentionEpoch, slotProcess, slotEpoch,
                     slotBudget, generation, drainers, sentinel, completionClaimed, overflow,
                     work, regionsLeft, closing, completions, releases, callsLeft, rescan,
                     todo, job, probe, ret>>
  <2>p. warmRetainers[me[w].process] > 0
    <3>1. Warming(w)
      BY DEF Warming, WarmPcs, DropWarm, Goto
    <3>. QED
      BY <1>k, <3>1, WarmCounted
  <2>q. warmRetainers[me[w].process] \in Nat /\ warmRetainers[me[w].process] - 1 \in Nat
    <3>1. warmRetainers[me[w].process] \in Nat
      BY <1>0, <1>k DEF TypeOK
    <3>. QED
      BY <2>p, <3>1
  <2>w. warmRetainers' \in [Processes -> Nat]
    BY <1>0, <1>k, <2>q DEF DropWarm, TypeOK
  <2>g. /\ pc[w] = "drop" /\ pc'[w] \in {"final", "rest"} /\ pc' \in [Threads -> Pcs]
        /\ \A u \in Threads : u # w => pc'[u] = pc[u]
    BY <1>0, <1>c DEF DropWarm, Goto, TypeOK, Pcs, DrainPcs, SchedulePcs, WarmPcs, ReleasePcs
  <2>. QED
    BY <1>c, <2>w, <2>g DEF DropWarm, processVars, slotVars, clientVars, callVars, scanVars
<1>2. Slots' = Slots /\ Locals' = Locals
  BY <1>1 DEF Slots, Locals
<1>p. warmRetainers[me[w].process] > 0
  <2>1. Warming(w)
    BY DEF Warming, WarmPcs, DropWarm, Goto
  <2>. QED
    BY <1>k, <2>1, WarmCounted
<1>3. TypeOK'
  BY <1>0, <1>c, <1>1, <1>2, <1>k, ClientFacts DEF TypeOK, Locals
<1>4. LocalInv'
  <2>1. ASSUME NEW v \in Workers PROVE LocalOK(v)'
    <3>1. LocalOK(v)
      BY <1>0 DEF LocalInv
    <3>. QED
      BY <1>0, <1>c, <1>1, <1>2, <1>k, <3>1
      DEF LocalOK, Draining, Owning, OwnerPcs, Departed, DrainPcs, SchedulePcs, WarmPcs
  <2>2. ASSUME NEW u \in Threads PROVE JobOK(u)'
    <3>1. JobOK(u) /\ ret[u] \in {"wake", "rewake", "reclaim_wake"}
      BY <1>0 DEF LocalInv, TypeOK
    <3>. QED
      BY <1>0, <1>c, <1>1, <1>2, <1>k, <3>1 DEF JobOK, PlacePcs, SchedulePcs
  <2>. QED
    BY <2>1, <2>2 DEF LocalInv
<1>5. ReserveInv'
  BY <1>0, <1>c, <1>1, <1>2, <1>k, ReserveFramed DEF ReserveFrame
<1>6. CountInv'
  BY <1>0, <1>c, <1>1, <1>2, <1>k, CountFramed
  DEF CountFrame, Registered, Draining, DrainPcs, SchedulePcs
<1>7. HolderInv' /\ SentinelInv'
  BY <1>0, <1>c, <1>1, <1>2, <1>k, HolderFramed
  DEF HolderFrame, Holding, OwnerPcs, WarmPcs, Draining, DrainPcs, SchedulePcs
<1>8. PinInv'
  <2>1. ASSUME NEW v \in Workers
        PROVE  (/\ Draining(v) \/ Owning(v) \/ pc[v] \in WarmPcs => slotProcess[me[v].slot] = me[v].process
                /\ pc[v] \in WarmPcs \/ (Owning(v) /\ me[v].entered) => me[v].gen = generation[me[v].slot])'
    BY <1>0, <1>c, <1>1, <1>2, <1>k
    DEF PinInv, Draining, Owning, OwnerPcs, WarmPcs, DrainPcs, SchedulePcs
  <2>2. ASSUME NEW v \in Workers, pc'[v] = "final"
        PROVE  (/\ me[v].gen <= generation[me[v].slot]
                /\ me[v].gen = generation[me[v].slot] =>
                     slotProcess[me[v].slot] = me[v].process \/ Resetting(me[v].slot))'
    <3>1. CASE v = w
      <4>1. pc[w] \in WarmPcs /\ generation[me[w].slot] \in Nat
        BY <1>0, <1>1 DEF WarmPcs, TypeOK
      <4>2. me[w].gen = generation[me[w].slot] /\ slotProcess[me[w].slot] = me[w].process
        BY <1>0, <4>1 DEF PinInv
      <4>. QED
        BY <1>0, <1>c, <1>1, <1>2, <1>k, <3>1, <4>1, <4>2
    <3>2. CASE v # w
      <4>1. Resetting(me[v].slot) => Resetting(me[v].slot)'
        BY <1>0, <1>c, <1>1, <1>2, <1>k DEF Resetting
      <4>. QED
        BY <1>0, <1>c, <1>1, <1>2, <1>k, <2>2, <3>2, <4>1 DEF PinInv
    <3>. QED
      BY <3>1, <3>2
  <2>3. \A s \in Slots : Clearing(s) => Clearing(s)'
    BY <1>0, <1>c, <1>1, <1>2, <1>k DEF Clearing
  <2>. QED
    BY <1>0, <1>c, <1>1, <1>2, <1>k, <2>1, <2>2, <2>3 DEF PinInv
<1>9. EpochInv'
  BY <1>0, <1>c, <1>1, <1>2, <1>k, EpochFramed DEF EpochFrame, Departed, SchedulePcs
<1>10. LocInv'
  BY <1>0, <1>c, <1>1, <1>2, <1>k, LocFramed
  DEF LocInv, LocFrame, Leaving, StillOurs, PlacePcs, SchedulePcs
<1>11. ClaimInv'
  BY <1>0, <1>c, <1>1, <1>2, <1>k, ClaimFramed DEF ClaimFrame, Departed, SchedulePcs
<1>12. WarmInv'
  <2>1. Warming(w) /\ ~Warming(w)'
    BY <1>0, <1>c, <1>1, <1>2, <1>k DEF Warming, WarmPcs, OwnerPcs
  <2>2. ASSUME NEW v \in Workers, v # w
        PROVE  (Warming(v)' <=> Warming(v)) /\ me'[v].process = me[v].process
    BY <1>0, <1>c, <1>1, <1>2, <1>k, <2>2 DEF Warming
  <2>3. ASSUME NEW v \in Workers, pc'[v] \in {"release", "clear"}
        PROVE  warmRetainers'[me'[v].process] = 0
    <3>1. v # w /\ pc'[v] = pc[v] /\ me'[v] = me[v] /\ Owning(v)
      BY <1>0, <1>c, <1>1, <1>2, <1>k, <2>3 DEF Owning, OwnerPcs
    <3>2. me[v].process \in Processes /\ warmRetainers[me[v].process] = 0
      BY <1>0, <2>3, <3>1 DEF LocalInv, LocalOK, WarmInv
    <3>3. me[v].process # me[w].process
      BY <1>p, <3>2
    <3>. QED
      BY <1>0, <1>c, <1>1, <1>2, <1>k, <3>1, <3>2, <3>3 DEF TypeOK
  <2>4. WarmFrameBut(w)
    BY <2>2, <2>3 DEF WarmFrameBut
  <2>. QED
    BY <1>0, <1>c, <1>1, <1>2, <1>k, <2>1, <2>4, WarmLeaves
<1>13. CompletionInv'
  BY <1>0, <1>c, <1>1, <1>2, <1>k, CompletionFramed
  DEF CompletionInv, CompletionFrame, Owning, OwnerPcs, WarmPcs, Draining, DrainPcs, SchedulePcs
<1>. QED
  BY <1>3, <1>4, <1>5, <1>6, <1>7, <1>8, <1>9, <1>10, <1>11, <1>12, <1>13 DEF Inv

LEMMA FinalPassKeeps ==
  ASSUME Inv, NEW w \in Workers, FinalClaim(w), pc'[w] = "rest" PROVE Inv'
<1>0. /\ TypeOK /\ LocalInv /\ ReserveInv /\ CountInv /\ HolderInv /\ SentinelInv /\ PinInv
      /\ EpochInv /\ LocInv /\ ClaimInv /\ WarmInv /\ CompletionInv
  BY DEF Inv
<1>c. /\ w \in Threads /\ Workers \cap Schedulers = {} /\ Workers \subseteq Threads /\ None \notin Processes
      /\ EMPTY \notin Processes /\ RESERVED \notin Processes /\ EMPTY # RESERVED
  BY Constants DEF Threads
<1>k. me[w].process \in Processes /\ ~me[w].entered
  <2>1. /\ JobOK(w) /\ (w \in Workers => LocalOK(w))
        /\ ret[w] \in {"wake", "rewake", "reclaim_wake"}
    BY <1>0, <1>c DEF LocalInv, TypeOK
  <2>. QED
    BY <2>1, <1>c
    DEF FinalClaim, Goto, JobOK, PlacePcs, SchedulePcs, LocalOK, Draining, Owning, OwnerPcs,
       Departed, DrainPcs, WarmPcs
<1>1. /\ w \in Threads /\ pc[w] = "final" /\ pc'[w] = "rest"
      /\ pc' \in [Threads -> Pcs]
      /\ \A u \in Threads : u # w => pc'[u] = pc[u]
      /\ me' = me
      /\ UNCHANGED <<client, state, scheduleState, needsDrain, retainDrain, placementEpoch,
                     placements, releasePending, retentionEpoch, warmRetainers, slotProcess,
                     slotEpoch, slotBudget, generation, drainers, sentinel, completionClaimed,
                     overflow, work, regionsLeft, closing, completions, releases, callsLeft,
                     rescan, todo, job, probe, ret>>
  <2>1. Goto(w, "final", "rest") /\ sentinel' = sentinel
    BY <1>0, <1>c DEF FinalClaim, Goto, TypeOK
  <2>. QED
    BY <1>0, <1>c, <2>1
    DEF FinalClaim, Goto, TypeOK, Pcs, processVars, slotVars, clientVars, callVars, scanVars
<1>2. Slots' = Slots /\ Locals' = Locals
  BY <1>1 DEF Slots, Locals
<1>3. TypeOK'
  BY <1>0, <1>c, <1>1, <1>2, <1>k, ClientFacts DEF TypeOK, Locals
<1>4. LocalInv'
  <2>1. ASSUME NEW v \in Workers PROVE LocalOK(v)'
    <3>1. LocalOK(v)
      BY <1>0 DEF LocalInv
    <3>. QED
      BY <1>0, <1>c, <1>1, <1>2, <1>k, <3>1
      DEF LocalOK, Draining, Owning, OwnerPcs, Departed, DrainPcs, SchedulePcs, WarmPcs
  <2>2. ASSUME NEW u \in Threads PROVE JobOK(u)'
    <3>1. JobOK(u) /\ ret[u] \in {"wake", "rewake", "reclaim_wake"}
      BY <1>0 DEF LocalInv, TypeOK
    <3>. QED
      BY <1>0, <1>c, <1>1, <1>2, <1>k, <3>1 DEF JobOK, PlacePcs, SchedulePcs
  <2>. QED
    BY <2>1, <2>2 DEF LocalInv
<1>5. ReserveInv'
  BY <1>0, <1>c, <1>1, <1>2, <1>k, ReserveFramed DEF ReserveFrame
<1>6. CountInv'
  BY <1>0, <1>c, <1>1, <1>2, <1>k, CountFramed
  DEF CountFrame, Registered, Draining, DrainPcs, SchedulePcs
<1>7. HolderInv' /\ SentinelInv'
  BY <1>0, <1>c, <1>1, <1>2, <1>k, HolderFramed
  DEF HolderFrame, Holding, OwnerPcs, WarmPcs, Draining, DrainPcs, SchedulePcs
<1>8. PinInv'
  BY <1>0, <1>c, <1>1, <1>2, <1>k, PinFramed
  DEF PinFrame, Owning, OwnerPcs, WarmPcs, Draining, DrainPcs, SchedulePcs
<1>9. EpochInv'
  BY <1>0, <1>c, <1>1, <1>2, <1>k, EpochFramed DEF EpochFrame, Departed, SchedulePcs
<1>10. LocInv'
  BY <1>0, <1>c, <1>1, <1>2, <1>k, LocFramed
  DEF LocInv, LocFrame, Leaving, StillOurs, PlacePcs, SchedulePcs
<1>11. ClaimInv'
  BY <1>0, <1>c, <1>1, <1>2, <1>k, ClaimFramed DEF ClaimFrame, Departed, SchedulePcs
<1>12. WarmInv'
  BY <1>0, <1>c, <1>1, <1>2, <1>k, WarmFramed DEF WarmInv, WarmFrame, Warming, OwnerPcs, WarmPcs
<1>13. CompletionInv'
  BY <1>0, <1>c, <1>1, <1>2, <1>k, CompletionFramed
  DEF CompletionInv, CompletionFrame, Owning, OwnerPcs, WarmPcs, Draining, DrainPcs, SchedulePcs
<1>. QED
  BY <1>3, <1>4, <1>5, <1>6, <1>7, <1>8, <1>9, <1>10, <1>11, <1>12, <1>13 DEF Inv

LEMMA FinalClaimKeeps ==
  ASSUME Inv, NEW w \in Workers, FinalClaim(w), pc'[w] # "rest" PROVE Inv'
<1>0. /\ TypeOK /\ LocalInv /\ ReserveInv /\ CountInv /\ HolderInv /\ SentinelInv /\ PinInv
      /\ EpochInv /\ LocInv /\ ClaimInv /\ WarmInv /\ CompletionInv
  BY DEF Inv
<1>c. /\ w \in Threads /\ Workers \cap Schedulers = {} /\ Workers \subseteq Threads /\ None \notin Processes
      /\ EMPTY \notin Processes /\ RESERVED \notin Processes /\ EMPTY # RESERVED
  BY Constants DEF Threads
<1>k. me[w].process \in Processes /\ ~me[w].entered
  <2>1. /\ JobOK(w) /\ (w \in Workers => LocalOK(w))
        /\ ret[w] \in {"wake", "rewake", "reclaim_wake"}
    BY <1>0, <1>c DEF LocalInv, TypeOK
  <2>. QED
    BY <2>1, <1>c
    DEF FinalClaim, Goto, JobOK, PlacePcs, SchedulePcs, LocalOK, Draining, Owning, OwnerPcs,
       Departed, DrainPcs, WarmPcs
<1>1. /\ w \in Threads /\ pc[w] = "final" /\ pc'[w] = "final_check"
      /\ pc' \in [Threads -> Pcs]
      /\ \A u \in Threads : u # w => pc'[u] = pc[u]
      /\ me' = me
      /\ sentinel' \in [Slots -> BOOLEAN] /\ sentinel' = [sentinel EXCEPT ![me[w].slot] = TRUE]
      /\ ~sentinel[me[w].slot] /\ drainers[me[w].slot] = 0 /\ generation[me[w].slot] = me[w].gen
      /\ UNCHANGED <<client, state, scheduleState, needsDrain, retainDrain, placementEpoch,
                     placements, releasePending, retentionEpoch, warmRetainers, slotProcess,
                     slotEpoch, slotBudget, generation, drainers, completionClaimed, overflow,
                     work, regionsLeft, closing, completions, releases, callsLeft, rescan,
                     todo, job, probe, ret>>
  <2>1. /\ Goto(w, "final", "final_check") /\ sentinel' = [sentinel EXCEPT ![me[w].slot] = TRUE]
        /\ ~sentinel[me[w].slot] /\ drainers[me[w].slot] = 0 /\ generation[me[w].slot] = me[w].gen
    BY <1>0, <1>c DEF FinalClaim, Goto, TypeOK
  <2>2. sentinel' \in [Slots -> BOOLEAN]
    BY <1>0, <2>1 DEF TypeOK
  <2>. QED
    BY <1>0, <1>c, <2>1, <2>2
    DEF FinalClaim, Goto, TypeOK, Pcs, processVars, slotVars, clientVars, callVars, scanVars
<1>2. Slots' = Slots /\ Locals' = Locals
  BY <1>1 DEF Slots, Locals
<1>e. me[w].slot \in Slots /\ sentinel'[me[w].slot]
      /\ \A s \in Slots : s # me[w].slot => sentinel'[s] = sentinel[s]
  BY <1>0, <1>1 DEF TypeOK
<1>n. \A v \in Workers : Registered(v) => me[v].slot # me[w].slot
  <2>1. DrainersOn(me[w].slot) \subseteq Workers /\ Cardinality(DrainersOn(me[w].slot)) = 0
    BY <1>0, <1>1, <1>e DEF DrainersOn, CountInv
  <2>2. DrainersOn(me[w].slot) = {}
    BY <2>1, Counts
  <2>. QED
    BY <2>2 DEF DrainersOn
<1>o. \A v \in Workers : Holding(v) => me[v].slot # me[w].slot
  BY <1>0, <1>1 DEF HolderInv
<1>p. slotProcess[me[w].slot] = me[w].process
  <2>1. ~Resetting(me[w].slot)
    BY <1>o DEF Resetting, Holding
  <2>. QED
    BY <1>0, <1>1, <2>1 DEF PinInv
<1>3. TypeOK'
  BY <1>0, <1>c, <1>1, <1>2, <1>k, <1>e, <1>n, <1>o, <1>p, ClientFacts DEF TypeOK, Locals
<1>4. LocalInv'
  <2>1. ASSUME NEW v \in Workers PROVE LocalOK(v)'
    <3>1. LocalOK(v)
      BY <1>0 DEF LocalInv
    <3>. QED
      BY <1>0, <1>c, <1>1, <1>2, <1>k, <1>e, <1>n, <1>o, <1>p, <3>1
      DEF LocalOK, Draining, Owning, OwnerPcs, Departed, DrainPcs, SchedulePcs, WarmPcs
  <2>2. ASSUME NEW u \in Threads PROVE JobOK(u)'
    <3>1. JobOK(u) /\ ret[u] \in {"wake", "rewake", "reclaim_wake"}
      BY <1>0 DEF LocalInv, TypeOK
    <3>. QED
      BY <1>0, <1>c, <1>1, <1>2, <1>k, <1>e, <1>n, <1>o, <1>p, <3>1
      DEF JobOK, PlacePcs, SchedulePcs
  <2>. QED
    BY <2>1, <2>2 DEF LocalInv
<1>5. ReserveInv'
  BY <1>0, <1>c, <1>1, <1>2, <1>k, <1>e, <1>n, <1>o, <1>p, ReserveFramed DEF ReserveFrame
<1>6. CountInv'
  BY <1>0, <1>c, <1>1, <1>2, <1>k, <1>e, <1>n, <1>o, <1>p, CountFramed
  DEF CountFrame, Registered, Draining, DrainPcs, SchedulePcs
<1>7. HolderInv' /\ SentinelInv'
  <2>1. ASSUME NEW v \in Workers
        PROVE  /\ Holding(v)' <=> Holding(v) \/ v = w
               /\ pc'[v] = "verify" \/ Draining(v)' => Registered(v) /\ (pc[v] = "verify" \/ Draining(v))
               /\ pc'[v] \in WarmPcs => pc[v] \in WarmPcs
               /\ pc'[v] = "reset" => pc[v] = "reset"
               /\ me[v].slot \in Slots
    BY <1>0, <1>c, <1>1, <1>2, <1>k, <1>e, <1>n, <1>o, <1>p
    DEF Holding, OwnerPcs, WarmPcs, Registered, Draining, DrainPcs, SchedulePcs, TypeOK
  <2>2. ASSUME NEW v \in Workers
        PROVE  /\ Holding(v)' => /\ sentinel'[me[v].slot]
                                 /\ \A u \in Workers : Holding(u)' /\ me[u].slot = me[v].slot => u = v
               /\ pc'[v] = "verify" \/ Draining(v)' => ~sentinel'[me[v].slot]
               /\ pc'[v] \in WarmPcs => \A u \in Workers : pc'[u] = "reset" => me[u].slot # me[v].slot
    <3>1. Holding(v)' => sentinel'[me[v].slot]
      BY <1>0, <1>c, <1>1, <1>2, <1>k, <1>e, <1>n, <1>o, <1>p, <2>1 DEF HolderInv
    <3>2. ASSUME Holding(v)', NEW u \in Workers, Holding(u)', me[u].slot = me[v].slot PROVE u = v
      BY <1>0, <1>c, <1>1, <1>2, <1>k, <1>e, <1>n, <1>o, <1>p, <2>1, <3>2 DEF HolderInv
    <3>3. pc'[v] = "verify" \/ Draining(v)' => ~sentinel'[me[v].slot]
      BY <1>0, <1>c, <1>1, <1>2, <1>k, <1>e, <1>n, <1>o, <1>p, <2>1 DEF HolderInv
    <3>. QED
      BY <1>0, <2>1, <3>1, <3>2, <3>3 DEF HolderInv
  <2>3. HolderInv'
    BY <1>1, <2>2 DEF HolderInv
  <2>4. ASSUME NEW s \in Slots, sentinel'[s] PROVE \E v \in Workers : Holding(v)' /\ me[v].slot = s
    <3>1. CASE s = me[w].slot
      BY <2>1, <3>1
    <3>2. CASE s # me[w].slot
      <4>1. PICK v \in Workers : Holding(v) /\ me[v].slot = s
        BY <1>0, <1>c, <1>1, <1>2, <1>k, <1>e, <1>n, <1>o, <1>p, <2>4, <3>2 DEF SentinelInv
      <4>. QED
        BY <2>1, <4>1
    <3>. QED
      BY <3>1, <3>2
  <2>. QED
    BY <1>1, <1>2, <2>3, <2>4 DEF SentinelInv
<1>8. PinInv'
  <2>1. ASSUME NEW v \in Workers
        PROVE  (/\ Draining(v) \/ Owning(v) \/ pc[v] \in WarmPcs => slotProcess[me[v].slot] = me[v].process
                /\ pc[v] \in WarmPcs \/ (Owning(v) /\ me[v].entered) => me[v].gen = generation[me[v].slot])'
    BY <1>0, <1>c, <1>1, <1>2, <1>k, <1>e, <1>n, <1>o, <1>p
    DEF PinInv, Draining, Owning, OwnerPcs, WarmPcs, DrainPcs, SchedulePcs
  <2>2. ASSUME NEW v \in Workers, pc'[v] = "final"
        PROVE  (/\ me[v].gen <= generation[me[v].slot]
                /\ me[v].gen = generation[me[v].slot] =>
                     slotProcess[me[v].slot] = me[v].process \/ Resetting(me[v].slot))'
    <3>1. Resetting(me[v].slot) => Resetting(me[v].slot)'
      BY <1>0, <1>c, <1>1, <1>2, <1>k, <1>e, <1>n, <1>o, <1>p DEF Resetting
    <3>. QED
      BY <1>0, <1>c, <1>1, <1>2, <1>k, <1>e, <1>n, <1>o, <1>p, <2>2, <3>1 DEF PinInv
  <2>3. \A s \in Slots : Clearing(s) => Clearing(s)'
    BY <1>0, <1>c, <1>1, <1>2, <1>k, <1>e, <1>n, <1>o, <1>p DEF Clearing
  <2>. QED
    BY <1>0, <1>c, <1>1, <1>2, <1>k, <1>e, <1>n, <1>o, <1>p, <2>1, <2>2, <2>3 DEF PinInv
<1>9. EpochInv'
  BY <1>0, <1>c, <1>1, <1>2, <1>k, <1>e, <1>n, <1>o, <1>p, EpochFramed
  DEF EpochFrame, Departed, SchedulePcs
<1>10. LocInv'
  BY <1>0, <1>c, <1>1, <1>2, <1>k, <1>e, <1>n, <1>o, <1>p, LocFramed
  DEF LocInv, LocFrame, Leaving, StillOurs, PlacePcs, SchedulePcs
<1>11. ClaimInv'
  BY <1>0, <1>c, <1>1, <1>2, <1>k, <1>e, <1>n, <1>o, <1>p, ClaimFramed
  DEF ClaimFrame, Departed, SchedulePcs
<1>12. WarmInv'
  BY <1>0, <1>c, <1>1, <1>2, <1>k, <1>e, <1>n, <1>o, <1>p, WarmFramed
  DEF WarmInv, WarmFrame, Warming, OwnerPcs, WarmPcs
<1>13. CompletionInv'
  BY <1>0, <1>c, <1>1, <1>2, <1>k, <1>e, <1>n, <1>o, <1>p, CompletionFramed
  DEF CompletionInv, CompletionFrame, Owning, OwnerPcs, WarmPcs, Draining, DrainPcs, SchedulePcs
<1>. QED
  BY <1>3, <1>4, <1>5, <1>6, <1>7, <1>8, <1>9, <1>10, <1>11, <1>12, <1>13 DEF Inv

LEMMA FinalCheckKeeps ==
  ASSUME Inv, NEW w \in Workers, FinalCheck(w) PROVE Inv'
<1>0. /\ TypeOK /\ LocalInv /\ ReserveInv /\ CountInv /\ HolderInv /\ SentinelInv /\ PinInv
      /\ EpochInv /\ LocInv /\ ClaimInv /\ WarmInv /\ CompletionInv
  BY DEF Inv
<1>c. /\ w \in Threads /\ Workers \cap Schedulers = {} /\ Workers \subseteq Threads /\ None \notin Processes
      /\ EMPTY \notin Processes /\ RESERVED \notin Processes /\ EMPTY # RESERVED
  BY Constants DEF Threads
<1>k. me[w].process \in Processes /\ ~me[w].entered
  <2>1. /\ JobOK(w) /\ (w \in Workers => LocalOK(w))
        /\ ret[w] \in {"wake", "rewake", "reclaim_wake"}
    BY <1>0, <1>c DEF LocalInv, TypeOK
  <2>. QED
    BY <2>1, <1>c
    DEF FinalCheck, Goto, JobOK, PlacePcs, SchedulePcs, LocalOK, Draining, Owning, OwnerPcs,
       Departed, DrainPcs, WarmPcs
<1>1. /\ w \in Threads /\ pc[w] = "final_check" /\ pc'[w] \in {"restore", "release"}
      /\ pc' \in [Threads -> Pcs]
      /\ \A u \in Threads : u # w => pc'[u] = pc[u]
      /\ me' \in [Workers -> Locals]
      /\ \A v \in Workers : v # w => me'[v] = me[v]
      /\ me'[w].slot = me[w].slot /\ me'[w].process = me[w].process
      /\ me'[w].epoch = me[w].epoch /\ me'[w].gen = me[w].gen /\ me'[w].result = me[w].result
      /\ me'[w].terminal = FALSE /\ me'[w].entered = me[w].entered
      /\ me'[w].rejoin = me[w].rejoin /\ me'[w].keepEpoch = me[w].keepEpoch
      /\ me'[w].didWork = me[w].didWork
      /\ (pc'[w] = "release" => warmRetainers[me[w].process] = 0)
      /\ UNCHANGED <<client, state, scheduleState, needsDrain, retainDrain, placementEpoch,
                     placements, releasePending, retentionEpoch, warmRetainers, slotProcess,
                     slotEpoch, slotBudget, generation, drainers, sentinel, completionClaimed,
                     overflow, work, regionsLeft, closing, completions, releases, callsLeft,
                     rescan, todo, job, probe, ret>>
  <2>m1. me \in [Workers -> Locals] /\ me[w] \in Locals
    BY <1>0 DEF TypeOK, Locals
  <2>m2. PICK l \in Locals : l = [me[w] EXCEPT !.terminal = FALSE]
    BY <2>m1 DEF Locals, Results
  <2>m3. me' = [me EXCEPT ![w] = l]
    BY <2>m1, <2>m2 DEF FinalCheck
  <2>m4. /\ me' \in [Workers -> Locals] /\ me'[w] = l
         /\ \A v \in Workers : v # w => me'[v] = me[v]
    BY <2>m1, <2>m3
  <2>m5. /\ l.slot = me[w].slot /\ l.process = me[w].process /\ l.epoch = me[w].epoch
        /\ l.gen = me[w].gen /\ l.result = me[w].result /\ l.terminal = FALSE
        /\ l.entered = me[w].entered /\ l.rejoin = me[w].rejoin /\ l.keepEpoch = me[w].keepEpoch
        /\ l.didWork = me[w].didWork
    BY <2>m1, <2>m2 DEF Locals
  <2>1. pc'[w] = "release" => warmRetainers[me[w].process] = 0
    BY <1>0, <1>c DEF FinalCheck, HasRetainers, Goto, TypeOK
  <2>g. /\ pc[w] = "final_check" /\ pc'[w] \in {"restore", "release"} /\ pc' \in [Threads -> Pcs]
        /\ \A u \in Threads : u # w => pc'[u] = pc[u]
    BY <1>0, <1>c DEF FinalCheck, Goto, TypeOK, Pcs, DrainPcs, SchedulePcs, WarmPcs, ReleasePcs
  <2>. QED
    BY <1>c, <2>m4, <2>m5, <2>g, <2>1
    DEF FinalCheck, processVars, slotVars, clientVars, callVars, scanVars
<1>2. Slots' = Slots /\ Locals' = Locals
  BY <1>1 DEF Slots, Locals
<1>3. TypeOK'
  BY <1>0, <1>c, <1>1, <1>2, <1>k, ClientFacts DEF TypeOK, Locals
<1>4. LocalInv'
  <2>1. ASSUME NEW v \in Workers PROVE LocalOK(v)'
    <3>1. LocalOK(v)
      BY <1>0 DEF LocalInv
    <3>. QED
      BY <1>0, <1>c, <1>1, <1>2, <1>k, <3>1
      DEF LocalOK, Draining, Owning, OwnerPcs, Departed, DrainPcs, SchedulePcs, WarmPcs
  <2>2. ASSUME NEW u \in Threads PROVE JobOK(u)'
    <3>1. JobOK(u) /\ ret[u] \in {"wake", "rewake", "reclaim_wake"}
      BY <1>0 DEF LocalInv, TypeOK
    <3>. QED
      BY <1>0, <1>c, <1>1, <1>2, <1>k, <3>1 DEF JobOK, PlacePcs, SchedulePcs
  <2>. QED
    BY <2>1, <2>2 DEF LocalInv
<1>5. ReserveInv'
  BY <1>0, <1>c, <1>1, <1>2, <1>k, ReserveFramed DEF ReserveFrame
<1>6. CountInv'
  BY <1>0, <1>c, <1>1, <1>2, <1>k, CountFramed
  DEF CountFrame, Registered, Draining, DrainPcs, SchedulePcs
<1>7. HolderInv' /\ SentinelInv'
  BY <1>0, <1>c, <1>1, <1>2, <1>k, HolderFramed
  DEF HolderFrame, Holding, OwnerPcs, WarmPcs, Draining, DrainPcs, SchedulePcs
<1>8. PinInv'
  BY <1>0, <1>c, <1>1, <1>2, <1>k, PinFramed
  DEF PinFrame, Owning, OwnerPcs, WarmPcs, Draining, DrainPcs, SchedulePcs
<1>9. EpochInv'
  BY <1>0, <1>c, <1>1, <1>2, <1>k, EpochFramed DEF EpochFrame, Departed, SchedulePcs
<1>10. LocInv'
  BY <1>0, <1>c, <1>1, <1>2, <1>k, LocFramed
  DEF LocInv, LocFrame, Leaving, StillOurs, PlacePcs, SchedulePcs
<1>11. ClaimInv'
  BY <1>0, <1>c, <1>1, <1>2, <1>k, ClaimFramed DEF ClaimFrame, Departed, SchedulePcs
<1>12. WarmInv'
  BY <1>0, <1>c, <1>1, <1>2, <1>k, WarmFramed DEF WarmInv, WarmFrame, Warming, OwnerPcs, WarmPcs
<1>13. CompletionInv'
  BY <1>0, <1>c, <1>1, <1>2, <1>k, CompletionFramed
  DEF CompletionInv, CompletionFrame, Owning, OwnerPcs, WarmPcs, Draining, DrainPcs, SchedulePcs
<1>. QED
  BY <1>3, <1>4, <1>5, <1>6, <1>7, <1>8, <1>9, <1>10, <1>11, <1>12, <1>13 DEF Inv


----------------------------------------------------------------------------
(* Releasing the slot.                                                     *)

LEMMA ReleaseStartKeeps ==
  ASSUME Inv, NEW w \in Workers, ReleaseStart(w) PROVE Inv'
<1>0. /\ TypeOK /\ LocalInv /\ ReserveInv /\ CountInv /\ HolderInv /\ SentinelInv /\ PinInv
      /\ EpochInv /\ LocInv /\ ClaimInv /\ WarmInv /\ CompletionInv
  BY DEF Inv
<1>c. /\ w \in Threads /\ Workers \cap Schedulers = {} /\ Workers \subseteq Threads /\ None \notin Processes
      /\ EMPTY \notin Processes /\ RESERVED \notin Processes /\ EMPTY # RESERVED
  BY Constants DEF Threads
<1>k. me[w].process \in Processes /\ ~me[w].entered
  <2>1. /\ JobOK(w) /\ (w \in Workers => LocalOK(w))
        /\ ret[w] \in {"wake", "rewake", "reclaim_wake"}
    BY <1>0, <1>c DEF LocalInv, TypeOK
  <2>. QED
    BY <2>1, <1>c
    DEF ReleaseStart, Goto, JobOK, PlacePcs, SchedulePcs, LocalOK, Draining, Owning, OwnerPcs,
       Departed, DrainPcs, WarmPcs
<1>1. /\ w \in Threads /\ pc[w] = "release" /\ pc'[w] = "clear"
      /\ pc' \in [Threads -> Pcs]
      /\ \A u \in Threads : u # w => pc'[u] = pc[u]
      /\ me' \in [Workers -> Locals]
      /\ \A v \in Workers : v # w => me'[v] = me[v]
      /\ me'[w].slot = me[w].slot /\ me'[w].process = me[w].process
      /\ me'[w].epoch = slotEpoch[me[w].slot] /\ me'[w].gen = me[w].gen
      /\ me'[w].result = me[w].result /\ me'[w].entered = me[w].entered
      /\ me'[w].rejoin = me[w].rejoin /\ me'[w].keepEpoch = me[w].keepEpoch
      /\ me'[w].didWork = me[w].didWork
      /\ (me'[w].terminal <=> me[w].terminal \/ Terminal(me[w].process))
      /\ slotEpoch' \in [Slots -> Nat] /\ slotBudget' \in [Slots -> Nat]
      /\ slotEpoch' = [slotEpoch EXCEPT ![me[w].slot] = 0]
      /\ UNCHANGED <<client, state, scheduleState, needsDrain, retainDrain, placementEpoch,
                     placements, releasePending, retentionEpoch, warmRetainers, slotProcess,
                     generation, drainers, sentinel, completionClaimed, overflow, work,
                     regionsLeft, closing, completions, releases, callsLeft, rescan, todo, job,
                     probe, ret>>
  <2>t. PICK tm \in BOOLEAN : tm = (me[w].terminal \/ Terminal(me[w].process))
    OBVIOUS
  <2>e. PICK e \in Nat : e = slotEpoch[me[w].slot]
    BY <1>0 DEF TypeOK
  <2>m1. me \in [Workers -> Locals] /\ me[w] \in Locals
    BY <1>0 DEF TypeOK, Locals
  <2>m2. PICK l \in Locals : l = [me[w] EXCEPT !.epoch = e, !.terminal = tm]
    BY <2>m1, <2>t, <2>e DEF Locals, Results
  <2>m3. me' = [me EXCEPT ![w] = l]
    BY <2>m1, <2>m2, <2>t, <2>e DEF ReleaseStart
  <2>m4. /\ me' \in [Workers -> Locals] /\ me'[w] = l
         /\ \A v \in Workers : v # w => me'[v] = me[v]
    BY <2>m1, <2>m3
  <2>m5. /\ l.slot = me[w].slot /\ l.process = me[w].process /\ l.epoch = e
        /\ l.gen = me[w].gen /\ l.result = me[w].result /\ l.terminal = tm
        /\ l.entered = me[w].entered /\ l.rejoin = me[w].rejoin /\ l.keepEpoch = me[w].keepEpoch
        /\ l.didWork = me[w].didWork
    BY <2>m1, <2>m2 DEF Locals
  <2>1. slotEpoch' \in [Slots -> Nat] /\ slotBudget' \in [Slots -> Nat]
    BY <1>0 DEF ReleaseStart, TypeOK
  <2>g. /\ pc[w] = "release" /\ pc'[w] = "clear" /\ pc' \in [Threads -> Pcs]
        /\ \A u \in Threads : u # w => pc'[u] = pc[u]
    BY <1>0, <1>c DEF ReleaseStart, Goto, TypeOK, Pcs, DrainPcs, SchedulePcs, WarmPcs, ReleasePcs
  <2>. QED
    BY <1>c, <2>m4, <2>m5, <2>g, <2>1, <2>t, <2>e
    DEF ReleaseStart, processVars, slotVars, clientVars, callVars, scanVars
<1>2. Slots' = Slots /\ Locals' = Locals
  BY <1>1 DEF Slots, Locals
<1>h. /\ me[w].process \in Processes /\ me[w].slot \in Slots
      /\ slotProcess[me[w].slot] = me[w].process
      /\ \A s \in Slots : slotProcess[s] = me[w].process => s = me[w].slot
      /\ InSlot(me[w].process) /\ ~InHand(me[w].process) /\ ~OnItsWay(me[w].process)
      /\ me[w].process \notin overflow /\ scheduleState[me[w].process] # "IDLE"
      /\ state[me[w].process] # "SUSPENDED"
  <2>1. Owning(w)
    BY <1>1 DEF Draining, DrainPcs, Owning, OwnerPcs, WarmPcs
  <2>. QED
    BY <2>1, Housed
<1>a. ASSUME NEW v \in Workers, Draining(v) \/ (Holding(v) /\ v # w)
      PROVE  /\ me[v].slot # me[w].slot
             /\ Draining(v) \/ Owning(v) => me[v].process # me[w].process
  <2>1. Owning(w) /\ Holding(w)
    BY <1>1 DEF Owning, Holding, OwnerPcs
  <2>. QED
    BY <1>a, <2>1, Apart
<1>t. Terminal(me[w].process) => completions[me[w].process] = 1
  <2>1. ~Resolving(me[w].process)
    BY <1>a DEF Resolving, Draining, DrainPcs
  <2>. QED
    BY <1>0, <1>h, <2>1 DEF CompletionInv
<1>s. /\ slotEpoch'[me[w].slot] = 0
      /\ \A s \in Slots : s # me[w].slot => slotEpoch'[s] = slotEpoch[s]
  BY <1>0, <1>1, <1>h DEF TypeOK
<1>e. slotEpoch[me[w].slot] = placementEpoch[me[w].process]
  <2>1. ~Clearing(me[w].slot)
    <3>1. SUFFICES ASSUME NEW v \in Workers, pc[v] = "clear", me[v].slot = me[w].slot PROVE FALSE
      BY DEF Clearing
    <3>2. v # w /\ Holding(v)
      BY <1>1, <3>1 DEF Holding, OwnerPcs
    <3>. QED
      BY <1>a, <3>1, <3>2
  <2>. QED
    BY <1>0, <1>h, <2>1 DEF PinInv
<1>3. TypeOK'
  BY <1>0, <1>c, <1>1, <1>2, <1>k, <1>t, <1>h, <1>s, <1>e, ClientFacts DEF TypeOK, Locals
<1>4. LocalInv'
  <2>1. ASSUME NEW v \in Workers PROVE LocalOK(v)'
    <3>1. LocalOK(v)
      BY <1>0 DEF LocalInv
    <3>. QED
      BY <1>0, <1>c, <1>1, <1>2, <1>k, <1>t, <1>h, <1>s, <1>e, <3>1
      DEF LocalOK, Draining, Owning, OwnerPcs, Departed, DrainPcs, SchedulePcs, WarmPcs
  <2>2. ASSUME NEW u \in Threads PROVE JobOK(u)'
    <3>1. JobOK(u) /\ ret[u] \in {"wake", "rewake", "reclaim_wake"}
      BY <1>0 DEF LocalInv, TypeOK
    <3>. QED
      BY <1>0, <1>c, <1>1, <1>2, <1>k, <1>t, <1>h, <1>s, <1>e, <3>1
      DEF JobOK, PlacePcs, SchedulePcs
  <2>. QED
    BY <2>1, <2>2 DEF LocalInv
<1>5. ReserveInv'
  BY <1>0, <1>c, <1>1, <1>2, <1>k, <1>t, <1>h, <1>s, <1>e, ReserveFramed DEF ReserveFrame
<1>6. CountInv'
  BY <1>0, <1>c, <1>1, <1>2, <1>k, <1>t, <1>h, <1>s, <1>e, CountFramed
  DEF CountFrame, Registered, Draining, DrainPcs, SchedulePcs
<1>7. HolderInv' /\ SentinelInv'
  BY <1>0, <1>c, <1>1, <1>2, <1>k, <1>t, <1>h, <1>s, <1>e, HolderFramed
  DEF HolderFrame, Holding, OwnerPcs, WarmPcs, Draining, DrainPcs, SchedulePcs
<1>8. PinInv'
  <2>1. ASSUME NEW v \in Workers
        PROVE  (/\ Draining(v) \/ Owning(v) \/ pc[v] \in WarmPcs => slotProcess[me[v].slot] = me[v].process
                /\ pc[v] \in WarmPcs \/ (Owning(v) /\ me[v].entered) => me[v].gen = generation[me[v].slot])'
    BY <1>0, <1>c, <1>1, <1>2, <1>k, <1>t, <1>h, <1>s, <1>e
    DEF PinInv, Draining, Owning, OwnerPcs, WarmPcs, DrainPcs, SchedulePcs
  <2>2. ASSUME NEW v \in Workers, pc'[v] = "final"
        PROVE  (/\ me[v].gen <= generation[me[v].slot]
                /\ me[v].gen = generation[me[v].slot] =>
                     slotProcess[me[v].slot] = me[v].process \/ Resetting(me[v].slot))'
    <3>1. v # w /\ pc[v] = "final" /\ me'[v] = me[v]
      BY <1>0, <1>c, <1>1, <1>2, <1>k, <1>t, <1>h, <1>s, <1>e, <2>2
    <3>2. Resetting(me[v].slot) => Resetting(me[v].slot)'
      BY <1>0, <1>c, <1>1, <1>2, <1>k, <1>t, <1>h, <1>s, <1>e, <3>1 DEF Resetting
    <3>. QED
      BY <1>0, <1>c, <1>1, <1>2, <1>k, <1>t, <1>h, <1>s, <1>e, <3>1, <3>2 DEF PinInv
  <2>3. ASSUME NEW s \in Slots, slotProcess[s] \in Processes
        PROVE  slotEpoch'[s] = placementEpoch[slotProcess[s]] \/ Clearing(s)'
    <3>1. CASE s = me[w].slot
      BY <1>0, <1>c, <1>1, <1>2, <1>k, <1>t, <1>h, <1>s, <1>e, <3>1 DEF Clearing
    <3>2. CASE s # me[w].slot
      <4>1. Clearing(s) => Clearing(s)'
        BY <1>0, <1>c, <1>1, <1>2, <1>k, <1>t, <1>h, <1>s, <1>e DEF Clearing
      <4>. QED
        BY <1>0, <1>c, <1>1, <1>2, <1>k, <1>t, <1>h, <1>s, <1>e, <2>3, <3>2, <4>1 DEF PinInv
    <3>. QED
      BY <3>1, <3>2
  <2>. QED
    BY <1>0, <1>c, <1>1, <1>2, <1>k, <1>t, <1>h, <1>s, <1>e, <2>1, <2>2, <2>3 DEF PinInv
<1>9. EpochInv'
  <2>1. ASSUME NEW v \in Workers
        PROVE  (/\ pc[v] = "clear" => me[v].epoch = placementEpoch[me[v].process]
                /\ Departed(v) => me[v].epoch <= placementEpoch[me[v].process])'
    BY <1>0, <1>c, <1>1, <1>2, <1>k, <1>t, <1>h, <1>s, <1>e DEF EpochInv, Departed, SchedulePcs
  <2>. QED
    BY <2>1 DEF EpochInv
<1>10. LocInv'
  <2>1. ASSUME NEW p \in Processes PROVE LocOK(p)'
    <3>1. LocOK(p)
      BY <1>0 DEF LocInv
    <3>2. /\ \A u \in Threads : Places(u, p)' <=> Places(u, p)
          /\ \A v \in Workers : Leaves(v, p)' => Leaves(v, p)
          /\ InSlot(p)' <=> InSlot(p)
          /\ Terminal(p)' <=> Terminal(p)
      BY <1>0, <1>c, <1>1, <1>2, <1>k, <1>t, <1>h, <1>s, <1>e
      DEF Places, Leaves, Leaving, StillOurs, InSlot, Terminal, PlacePcs, SchedulePcs
    <3>3. (OnItsWay(p)' => OnItsWay(p)) /\ (InHand(p)' <=> InHand(p))
      BY <3>2 DEF OnItsWay, InHand
    <3>. QED
      BY <1>0, <1>c, <1>1, <1>2, <1>k, <1>t, <1>h, <1>s, <1>e, <3>1, <3>2, <3>3 DEF LocOK
  <2>2. ASSUME NEW v \in Workers
        PROVE  (/\ pc[v] = "clear" \/ Leaving(v) => (Terminal(me[v].process) => me[v].terminal)
                /\ pc[v] = "idle" => StillOurs(v) /\ ~me[v].terminal)'
    BY <1>0, <1>c, <1>1, <1>2, <1>k, <1>t, <1>h, <1>s, <1>e
    DEF LocInv, Leaving, StillOurs, Terminal, SchedulePcs
  <2>. QED
    BY <2>1, <2>2 DEF LocInv
<1>11. ClaimInv'
  BY <1>0, <1>c, <1>1, <1>2, <1>k, <1>t, <1>h, <1>s, <1>e, ClaimFramed
  DEF ClaimFrame, Departed, SchedulePcs
<1>12. WarmInv'
  BY <1>0, <1>c, <1>1, <1>2, <1>k, <1>t, <1>h, <1>s, <1>e, WarmFramed
  DEF WarmInv, WarmFrame, Warming, OwnerPcs, WarmPcs
<1>13. CompletionInv'
  BY <1>0, <1>c, <1>1, <1>2, <1>k, <1>t, <1>h, <1>s, <1>e, CompletionFramed
  DEF CompletionInv, CompletionFrame, Owning, OwnerPcs, WarmPcs, Draining, DrainPcs, SchedulePcs,
     Terminal
<1>. QED
  BY <1>3, <1>4, <1>5, <1>6, <1>7, <1>8, <1>9, <1>10, <1>11, <1>12, <1>13 DEF Inv

LEMMA ReleaseClearKeeps ==
  ASSUME Inv, NEW w \in Workers, ReleaseClear(w) PROVE Inv'
<1>0. /\ TypeOK /\ LocalInv /\ ReserveInv /\ CountInv /\ HolderInv /\ SentinelInv /\ PinInv
      /\ EpochInv /\ LocInv /\ ClaimInv /\ WarmInv /\ CompletionInv
  BY DEF Inv
<1>c. /\ w \in Threads /\ Workers \cap Schedulers = {} /\ Workers \subseteq Threads /\ None \notin Processes
      /\ EMPTY \notin Processes /\ RESERVED \notin Processes /\ EMPTY # RESERVED
  BY Constants DEF Threads
<1>k. me[w].process \in Processes /\ ~me[w].entered
  <2>1. /\ JobOK(w) /\ (w \in Workers => LocalOK(w))
        /\ ret[w] \in {"wake", "rewake", "reclaim_wake"}
    BY <1>0, <1>c DEF LocalInv, TypeOK
  <2>. QED
    BY <2>1, <1>c
    DEF ReleaseClear, Goto, JobOK, PlacePcs, SchedulePcs, LocalOK, Draining, Owning, OwnerPcs,
       Departed, DrainPcs, WarmPcs
<1>1. /\ w \in Threads /\ pc[w] = "clear" /\ pc'[w] = "reset"
      /\ pc' \in [Threads -> Pcs]
      /\ \A u \in Threads : u # w => pc'[u] = pc[u]
      /\ me' = me
      /\ slotProcess' \in [Slots -> Processes \cup {EMPTY, RESERVED}]
      /\ slotProcess' = [slotProcess EXCEPT ![me[w].slot] = EMPTY]
      /\ UNCHANGED <<client, state, scheduleState, needsDrain, retainDrain, placementEpoch,
                     placements, releasePending, retentionEpoch, warmRetainers, slotEpoch,
                     slotBudget, generation, drainers, sentinel, completionClaimed, overflow,
                     work, regionsLeft, closing, completions, releases, callsLeft, rescan,
                     todo, job, probe, ret>>
  <2>1. slotProcess' \in [Slots -> Processes \cup {EMPTY, RESERVED}]
    BY <1>0 DEF ReleaseClear, TypeOK
  <2>g. /\ pc[w] = "clear" /\ pc'[w] = "reset" /\ pc' \in [Threads -> Pcs]
        /\ \A u \in Threads : u # w => pc'[u] = pc[u]
    BY <1>0, <1>c DEF ReleaseClear, Goto, TypeOK, Pcs, DrainPcs, SchedulePcs, WarmPcs, ReleasePcs
  <2>. QED
    BY <1>c, <2>1, <2>g DEF ReleaseClear, processVars, slotVars, clientVars, callVars, scanVars
<1>2. Slots' = Slots /\ Locals' = Locals
  BY <1>1 DEF Slots, Locals
<1>h. /\ me[w].process \in Processes /\ me[w].slot \in Slots
      /\ slotProcess[me[w].slot] = me[w].process
      /\ \A s \in Slots : slotProcess[s] = me[w].process => s = me[w].slot
      /\ InSlot(me[w].process) /\ ~InHand(me[w].process) /\ ~OnItsWay(me[w].process)
      /\ me[w].process \notin overflow /\ scheduleState[me[w].process] # "IDLE"
      /\ state[me[w].process] # "SUSPENDED"
  <2>1. Owning(w)
    BY <1>1 DEF Draining, DrainPcs, Owning, OwnerPcs, WarmPcs
  <2>. QED
    BY <2>1, Housed
<1>a. ASSUME NEW v \in Workers, Draining(v) \/ (Holding(v) /\ v # w)
      PROVE  /\ me[v].slot # me[w].slot
             /\ Draining(v) \/ Owning(v) => me[v].process # me[w].process
  <2>1. Owning(w) /\ Holding(w)
    BY <1>1 DEF Owning, Holding, OwnerPcs
  <2>. QED
    BY <1>a, <2>1, Apart
<1>s. /\ slotProcess'[me[w].slot] = EMPTY
      /\ \A s \in Slots : s # me[w].slot => slotProcess'[s] = slotProcess[s]
  BY <1>0, <1>1, <1>h DEF TypeOK
<1>w. ASSUME NEW v \in Workers, Draining(v) \/ (Owning(v) /\ v # w) \/ pc[v] \in WarmPcs
      PROVE  me[v].slot # me[w].slot
  <2>1. CASE Draining(v) \/ (Owning(v) /\ v # w)
    BY <1>a, <2>1 DEF Owning, Holding
  <2>2. CASE pc[v] \in WarmPcs
    <3>1. /\ me[v].process \in Processes /\ slotProcess[me[v].slot] = me[v].process
          /\ Warming(v)
      BY <2>2, Housed DEF Warming
    <3>2. warmRetainers[me[v].process] > 0 /\ warmRetainers[me[w].process] = 0
      BY <1>0, <1>1, <3>1, WarmCounted DEF WarmInv
    <3>. QED
      BY <1>h, <3>1, <3>2
  <2>. QED
    BY <1>w, <2>1, <2>2
<1>e. me[w].epoch = placementEpoch[me[w].process] /\ placementEpoch[me[w].process] \in Nat
  BY <1>0, <1>1, <1>h DEF EpochInv, TypeOK
<1>i. ASSUME NEW p \in Processes PROVE InSlot(p)' <=> InSlot(p) /\ p # me[w].process
  BY <1>2, <1>s, <1>h, <1>c DEF InSlot
<1>v. /\ ~Departed(w) /\ Departed(w)' /\ Leaving(w)' /\ ~Leaving(w)
      /\ \A v \in Workers : v # w => (Departed(v)' <=> Departed(v)) /\ (Leaving(v)' <=> Leaving(v))
  BY <1>c, <1>1, <1>e DEF Departed, Leaving, StillOurs, SchedulePcs
<1>3. TypeOK'
  BY <1>0, <1>c, <1>1, <1>2, <1>k, <1>h, <1>s, <1>e, <1>v, ClientFacts DEF TypeOK, Locals
<1>4. LocalInv'
  <2>1. ASSUME NEW v \in Workers PROVE LocalOK(v)'
    <3>1. LocalOK(v)
      BY <1>0 DEF LocalInv
    <3>. QED
      BY <1>0, <1>c, <1>1, <1>2, <1>k, <1>h, <1>s, <1>e, <1>v, <3>1
      DEF LocalOK, Draining, Owning, OwnerPcs, Departed, DrainPcs, SchedulePcs, WarmPcs
  <2>2. ASSUME NEW u \in Threads PROVE JobOK(u)'
    <3>1. JobOK(u) /\ ret[u] \in {"wake", "rewake", "reclaim_wake"}
      BY <1>0 DEF LocalInv, TypeOK
    <3>. QED
      BY <1>0, <1>c, <1>1, <1>2, <1>k, <1>h, <1>s, <1>e, <1>v, <3>1
      DEF JobOK, PlacePcs, SchedulePcs
  <2>. QED
    BY <2>1, <2>2 DEF LocalInv
<1>5. ReserveInv'
  <2>1. \A u \in Threads : pc'[u] \in {"hold", "fill"} => pc[u] \in {"hold", "fill"} /\ probe[u] \in Slots
    BY <1>0, <1>c, <1>1, <1>2, <1>k, <1>h, <1>s, <1>e, <1>v DEF TypeOK
  <2>2. \A u \in Threads : pc[u] \in {"hold", "fill"} => slotProcess[probe[u]] = RESERVED
    BY <1>0 DEF ReserveInv
  <2>3. \A u \in Threads : pc'[u] \in {"hold", "fill"} => slotProcess'[probe[u]] = RESERVED
    BY <1>c, <1>h, <1>s, <2>1, <2>2
  <2>. QED
    BY <1>0, <1>1, <2>1, <2>3 DEF ReserveInv
<1>6. CountInv'
  BY <1>0, <1>c, <1>1, <1>2, <1>k, <1>h, <1>s, <1>e, <1>v, CountFramed
  DEF CountFrame, Registered, Draining, DrainPcs, SchedulePcs
<1>7. HolderInv' /\ SentinelInv'
  <2>1. ASSUME NEW v \in Workers
        PROVE  /\ Holding(v)' <=> Holding(v)
               /\ Draining(v)' <=> Draining(v)
               /\ pc'[v] = "verify" <=> pc[v] = "verify"
               /\ pc'[v] \in WarmPcs <=> pc[v] \in WarmPcs
               /\ pc'[v] = "reset" <=> pc[v] = "reset" \/ v = w
    BY <1>0, <1>c, <1>1, <1>2, <1>k, <1>h, <1>s, <1>e, <1>v
    DEF Holding, OwnerPcs, WarmPcs, Draining, DrainPcs, SchedulePcs
  <2>2. \A v \in Workers : pc'[v] \in WarmPcs =>
          \A u \in Workers : pc'[u] = "reset" => me[u].slot # me[v].slot
    BY <1>0, <1>w, <2>1 DEF HolderInv
  <2>3. HolderInv'
    BY <1>0, <1>1, <2>1, <2>2 DEF HolderInv
  <2>4. SentinelInv'
    BY <1>0, <1>1, <1>2, <2>1 DEF SentinelInv
  <2>. QED
    BY <2>3, <2>4
<1>8. PinInv'
  <2>1. ASSUME NEW v \in Workers
        PROVE  (/\ Draining(v) \/ Owning(v) \/ pc[v] \in WarmPcs => slotProcess[me[v].slot] = me[v].process
                /\ pc[v] \in WarmPcs \/ (Owning(v) /\ me[v].entered) => me[v].gen = generation[me[v].slot])'
    <3>1. /\ Draining(v)' => Draining(v)
          /\ Owning(v)' => Owning(v) /\ v # w
          /\ pc'[v] \in WarmPcs => pc[v] \in WarmPcs
          /\ me[v].slot \in Slots
      BY <1>0, <1>c, <1>1, <1>2, <1>k, <1>h, <1>s, <1>e, <1>v
      DEF Draining, Owning, OwnerPcs, WarmPcs, DrainPcs, SchedulePcs, TypeOK
    <3>. QED
      BY <1>0, <1>c, <1>1, <1>2, <1>k, <1>h, <1>s, <1>e, <1>v, <1>w, <3>1 DEF PinInv
  <2>2. ASSUME NEW v \in Workers, pc'[v] = "final"
        PROVE  (/\ me[v].gen <= generation[me[v].slot]
                /\ me[v].gen = generation[me[v].slot] =>
                     slotProcess[me[v].slot] = me[v].process \/ Resetting(me[v].slot))'
    <3>1. v # w /\ pc[v] = "final" /\ me[v].slot \in Slots
      BY <1>0, <1>c, <1>1, <1>2, <1>k, <1>h, <1>s, <1>e, <1>v, <2>2 DEF TypeOK
    <3>2. Resetting(me[v].slot) \/ me[v].slot = me[w].slot => Resetting(me[v].slot)'
      BY <1>0, <1>c, <1>1, <1>2, <1>k, <1>h, <1>s, <1>e, <1>v, <3>1 DEF Resetting
    <3>. QED
      BY <1>0, <1>c, <1>1, <1>2, <1>k, <1>h, <1>s, <1>e, <1>v, <3>1, <3>2 DEF PinInv
  <2>3. ASSUME NEW s \in Slots, slotProcess'[s] \in Processes
        PROVE  slotEpoch[s] = placementEpoch[slotProcess'[s]] \/ Clearing(s)'
    <3>1. s # me[w].slot
      BY <1>0, <1>c, <1>1, <1>2, <1>k, <1>h, <1>s, <1>e, <1>v, <2>3
    <3>2. Clearing(s) => Clearing(s)'
      BY <1>0, <1>c, <1>1, <1>2, <1>k, <1>h, <1>s, <1>e, <1>v, <3>1 DEF Clearing
    <3>. QED
      BY <1>0, <1>c, <1>1, <1>2, <1>k, <1>h, <1>s, <1>e, <1>v, <2>3, <3>1, <3>2 DEF PinInv
  <2>. QED
    BY <1>0, <1>c, <1>1, <1>2, <1>k, <1>h, <1>s, <1>e, <1>v, <2>1, <2>2, <2>3 DEF PinInv
<1>9. EpochInv'
  <2>1. ASSUME NEW v \in Workers
        PROVE  (/\ pc[v] = "clear" => me[v].epoch = placementEpoch[me[v].process]
                /\ Departed(v) => me[v].epoch <= placementEpoch[me[v].process])'
    <3>1. CASE v = w
      BY <1>0, <1>c, <1>1, <1>2, <1>k, <1>h, <1>s, <1>e, <1>v, <3>1
    <3>2. CASE v # w
      BY <1>0, <1>c, <1>1, <1>2, <1>k, <1>h, <1>s, <1>e, <1>v, <3>2 DEF EpochInv
    <3>. QED
      BY <3>1, <3>2
  <2>. QED
    BY <2>1 DEF EpochInv
<1>10. LocInv'
  <2>1. ASSUME NEW p \in Processes PROVE LocOK(p)'
    <3>1. LocOK(p)
      BY <1>0 DEF LocInv
    <3>2. /\ \A u \in Threads : Places(u, p)' <=> Places(u, p)
          /\ \A v \in Workers : Leaves(v, p)' <=> Leaves(v, p) \/ (v = w /\ p = me[w].process)
          /\ \A s \in Slots : slotProcess'[s] = p => slotProcess[s] = p
          /\ InSlot(p)' <=> InSlot(p) /\ p # me[w].process
          /\ Terminal(p)' <=> Terminal(p)
      BY <1>0, <1>c, <1>1, <1>2, <1>k, <1>h, <1>s, <1>e, <1>v, <1>i
      DEF Places, Leaves, Terminal, PlacePcs
    <3>3. InHand(p)' <=> InHand(p)
      BY <3>2 DEF InHand
    <3>4. CASE p = me[w].process
      <4>1. \A v \in Workers : Leaves(v, p)' => v = w
        BY <1>h, <3>2, <3>4 DEF OnItsWay
      <4>. QED
        BY <1>0, <1>c, <1>1, <1>2, <1>k, <1>h, <1>s, <1>e, <1>v, <3>1, <3>2, <3>3, <3>4, <4>1
        DEF LocOK
    <3>5. CASE p # me[w].process
      <4>1. OnItsWay(p)' <=> OnItsWay(p)
        BY <3>2, <3>5 DEF OnItsWay
      <4>. QED
        BY <1>0, <1>c, <1>1, <1>2, <1>k, <1>h, <1>s, <1>e, <1>v, <3>1, <3>2, <3>3, <3>5, <4>1
        DEF LocOK
    <3>. QED
      BY <3>4, <3>5
  <2>2. ASSUME NEW v \in Workers
        PROVE  (/\ pc[v] = "clear" \/ Leaving(v) => (Terminal(me[v].process) => me[v].terminal)
                /\ pc[v] = "idle" => StillOurs(v) /\ ~me[v].terminal)'
    BY <1>0, <1>c, <1>1, <1>2, <1>k, <1>h, <1>s, <1>e, <1>v DEF LocInv, StillOurs, Terminal
  <2>. QED
    BY <2>1, <2>2 DEF LocInv
<1>11. ClaimInv'
  <2>1. ASSUME NEW p \in Processes
        PROVE  /\ Filling(p)' <=> Filling(p)
               /\ DepartedFrom(p)' = (IF p = me[w].process THEN DepartedFrom(p) \cup {w} ELSE DepartedFrom(p))
               /\ w \notin DepartedFrom(p)
               /\ Terminal(p)' <=> Terminal(p)
               /\ Done(p) => Done(p)'
    BY <1>0, <1>c, <1>1, <1>2, <1>k, <1>h, <1>s, <1>e, <1>v, <1>i
    DEF Filling, DepartedFrom, Done, Terminal
  <2>2. ASSUME NEW p \in Processes PROVE ClaimOK(p)'
    <3>1. ClaimOK(p) /\ Cardinality(DepartedFrom(p)) \in Nat /\ DepartedFrom(p) \subseteq Workers
      BY <1>0, Counts DEF ClaimInv, DepartedFrom
    <3>2. Cardinality(DepartedFrom(p) \cup {w}) = Cardinality(DepartedFrom(p)) + 1
      BY <2>1, <3>1, Gains
    <3>3. CASE p = me[w].process
      <4>1. InSlot(p) /\ ~InSlot(p)' /\ DepartedFrom(p)' = DepartedFrom(p) \cup {w}
        BY <1>0, <1>c, <1>1, <1>2, <1>k, <1>h, <1>s, <1>e, <1>v, <1>i, <2>1, <3>3
      <4>2. ~releasePending[p] /\ releases[p] # 1
        BY <3>1, <4>1 DEF ClaimOK, Done
      <4>. QED
        BY <1>0, <1>c, <1>1, <1>2, <1>k, <1>h, <1>s, <1>e, <1>v, <2>1, <3>1, <3>2, <3>3, <4>1,
           <4>2
        DEF ClaimOK
    <3>4. CASE p # me[w].process
      <4>1. (InSlot(p)' <=> InSlot(p)) /\ DepartedFrom(p)' = DepartedFrom(p)
        BY <1>i, <2>1, <3>4
      <4>. QED
        BY <1>0, <1>c, <1>1, <1>2, <1>k, <1>h, <1>s, <1>e, <1>v, <2>1, <3>1, <3>4, <4>1
        DEF ClaimOK
    <3>. QED
      BY <3>3, <3>4
  <2>3. ASSUME NEW v \in Workers, Departed(v)', me[v].terminal PROVE Done(me[v].process)'
    <3>1. CASE v = w
      <4>1. completions[me[w].process] = 1 /\ Terminal(me[w].process)
        BY <1>0, <1>c, <1>1, <1>2, <1>k, <1>h, <1>s, <1>e, <1>v, <2>3, <3>1
        DEF CompletionInv, Owning, OwnerPcs
      <4>2. ASSUME NEW p, p = me[w].process PROVE Done(p)'
        BY <1>0, <1>c, <1>1, <1>2, <1>k, <1>h, <1>s, <1>e, <1>v, <1>i, <4>1, <4>2
        DEF Done, Terminal
      <4>. QED
        BY <3>1, <4>2, <1>1 DEF Done, Terminal, InSlot
    <3>2. CASE v # w
      <4>1. Departed(v) /\ me[v].process \in Processes
        BY <1>0, <1>c, <1>1, <1>2, <1>k, <1>h, <1>s, <1>e, <1>v, <2>3, <3>2 DEF LocalInv, LocalOK
      <4>. QED
        BY <1>0, <1>c, <1>1, <1>2, <1>k, <1>h, <1>s, <1>e, <1>v, <2>1, <2>3, <4>1 DEF ClaimInv
    <3>. QED
      BY <3>1, <3>2
  <2>. QED
    BY <1>0, <1>c, <1>1, <1>2, <1>k, <1>h, <1>s, <1>e, <1>v, <2>2, <2>3 DEF ClaimInv
<1>12. WarmInv'
  BY <1>0, <1>c, <1>1, <1>2, <1>k, <1>h, <1>s, <1>e, <1>v, WarmFramed
  DEF WarmInv, WarmFrame, Warming, OwnerPcs, WarmPcs
<1>13. CompletionInv'
  <2>1. ASSUME NEW p \in Processes
        PROVE  (/\ completions[p] \in {0, 1} /\ (completions[p] = 1 => Terminal(p))
                /\ Terminal(p) /\ completions[p] = 0 => Resolving(p)
                /\ completions[p] = 0 /\ client.dependent[p] # None =>
                     state[client.dependent[p]] = "SUSPENDED")'
    <3>1. Resolving(p) => Resolving(p)'
      BY <1>0, <1>c, <1>1, <1>2, <1>k, <1>h, <1>s, <1>e, <1>v DEF Resolving
    <3>. QED
      BY <1>0, <1>c, <1>1, <1>2, <1>k, <1>h, <1>s, <1>e, <1>v, <3>1 DEF CompletionInv, Terminal
  <2>2. ASSUME NEW v \in Workers
        PROVE  (/\ pc[v] = "complete" =>
                     /\ completions[me[v].process] = 0
                     /\ \A u \in Workers : pc[u] = "complete" /\ me[u].slot = me[v].slot => u = v
                /\ Draining(v) /\ me[v].terminal /\ pc[v] # "claim" => completionClaimed[me[v].slot]
                /\ (Owning(v) \/ pc[v] \in WarmPcs \cup {"final"}) /\ me[v].terminal =>
                     completions[me[v].process] = 1)'
    BY <1>0, <1>c, <1>1, <1>2, <1>k, <1>h, <1>s, <1>e, <1>v
    DEF CompletionInv, Owning, OwnerPcs, WarmPcs, Draining, DrainPcs, SchedulePcs
  <2>3. ASSUME NEW s \in Slots
        PROVE  (/\ completionClaimed[s] /\ ~Resetting(s) =>
                     slotProcess[s] \in Processes /\ (completions[slotProcess[s]] = 1 \/ Completing(s))
                /\ slotProcess[s] \in Processes =>
                     /\ completions[slotProcess[s]] = 1 \/ Completing(s) => completionClaimed[s]
                     /\ Resetting(s) => ~Terminal(slotProcess[s]))'
    <3>1. /\ Completing(s)' <=> Completing(s)
          /\ Resetting(s)' <=> Resetting(s) \/ s = me[w].slot
      BY <1>0, <1>c, <1>1, <1>2, <1>k, <1>h, <1>s, <1>e, <1>v DEF Completing, Resetting
    <3>. QED
      BY <1>0, <1>c, <1>1, <1>2, <1>k, <1>h, <1>s, <1>e, <1>v, <3>1 DEF CompletionInv, Terminal
  <2>. QED
    BY <1>2, <2>1, <2>2, <2>3 DEF CompletionInv
<1>. QED
  BY <1>3, <1>4, <1>5, <1>6, <1>7, <1>8, <1>9, <1>10, <1>11, <1>12, <1>13 DEF Inv

LEMMA ReleaseResetKeeps ==
  ASSUME Inv, NEW w \in Workers, ReleaseReset(w) PROVE Inv'
<1>0. /\ TypeOK /\ LocalInv /\ ReserveInv /\ CountInv /\ HolderInv /\ SentinelInv /\ PinInv
      /\ EpochInv /\ LocInv /\ ClaimInv /\ WarmInv /\ CompletionInv
  BY DEF Inv
<1>c. /\ w \in Threads /\ Workers \cap Schedulers = {} /\ Workers \subseteq Threads /\ None \notin Processes
      /\ EMPTY \notin Processes /\ RESERVED \notin Processes /\ EMPTY # RESERVED
  BY Constants DEF Threads
<1>k. me[w].process \in Processes /\ ~me[w].entered
  <2>1. /\ JobOK(w) /\ (w \in Workers => LocalOK(w))
        /\ ret[w] \in {"wake", "rewake", "reclaim_wake"}
    BY <1>0, <1>c DEF LocalInv, TypeOK
  <2>. QED
    BY <2>1, <1>c
    DEF ReleaseReset, Goto, JobOK, PlacePcs, SchedulePcs, LocalOK, Draining, Owning, OwnerPcs,
       Departed, DrainPcs, WarmPcs
<1>1. /\ w \in Threads /\ pc[w] = "reset" /\ pc'[w] = "promote"
      /\ pc' \in [Threads -> Pcs]
      /\ \A u \in Threads : u # w => pc'[u] = pc[u]
      /\ me' = me
      /\ sentinel' \in [Slots -> BOOLEAN] /\ sentinel' = [sentinel EXCEPT ![me[w].slot] = FALSE]
      /\ generation' \in [Slots -> Nat] /\ generation' = [generation EXCEPT ![me[w].slot] = @ + 1]
      /\ completionClaimed' \in [Slots -> BOOLEAN]
      /\ completionClaimed' = [completionClaimed EXCEPT ![me[w].slot] = FALSE]
      /\ UNCHANGED <<client, state, scheduleState, needsDrain, retainDrain, placementEpoch,
                     placements, releasePending, retentionEpoch, warmRetainers, slotProcess,
                     slotEpoch, slotBudget, drainers, overflow, work, regionsLeft, closing,
                     completions, releases, callsLeft, rescan, todo, job, probe, ret>>
  <2>1. sentinel' \in [Slots -> BOOLEAN] /\ completionClaimed' \in [Slots -> BOOLEAN]
    BY <1>0 DEF ReleaseReset, TypeOK
  <2>2. generation' \in [Slots -> Nat]
    BY <1>0 DEF ReleaseReset, TypeOK
  <2>g. /\ pc[w] = "reset" /\ pc'[w] = "promote" /\ pc' \in [Threads -> Pcs]
        /\ \A u \in Threads : u # w => pc'[u] = pc[u]
    BY <1>0, <1>c DEF ReleaseReset, Goto, TypeOK, Pcs, DrainPcs, SchedulePcs, WarmPcs, ReleasePcs
  <2>. QED
    BY <1>c, <2>1, <2>2, <2>g
    DEF ReleaseReset, processVars, slotVars, clientVars, callVars, scanVars
<1>2. Slots' = Slots /\ Locals' = Locals
  BY <1>1 DEF Slots, Locals
<1>h. me[w].slot \in Slots /\ Holding(w)
  BY <1>0, <1>1 DEF TypeOK, Holding
<1>a. ASSUME NEW v \in Workers, Draining(v) \/ (Holding(v) /\ v # w) \/ pc[v] \in WarmPcs
      PROVE  me[v].slot # me[w].slot
  BY <1>0, <1>1, <1>h, <1>a, Apart DEF HolderInv
<1>g. /\ generation'[me[w].slot] = generation[me[w].slot] + 1 /\ generation[me[w].slot] \in Nat
      /\ ~completionClaimed'[me[w].slot]
      /\ \A s \in Slots : s # me[w].slot =>
           generation'[s] = generation[s] /\ completionClaimed'[s] = completionClaimed[s]
  BY <1>0, <1>1, <1>h DEF TypeOK
<1>3. TypeOK'
  BY <1>0, <1>c, <1>1, <1>2, <1>k, <1>h, <1>g, ClientFacts DEF TypeOK, Locals
<1>4. LocalInv'
  <2>1. ASSUME NEW v \in Workers PROVE LocalOK(v)'
    <3>1. LocalOK(v)
      BY <1>0 DEF LocalInv
    <3>. QED
      BY <1>0, <1>c, <1>1, <1>2, <1>k, <1>h, <1>g, <3>1
      DEF LocalOK, Draining, Owning, OwnerPcs, Departed, DrainPcs, SchedulePcs, WarmPcs
  <2>2. ASSUME NEW u \in Threads PROVE JobOK(u)'
    <3>1. JobOK(u) /\ ret[u] \in {"wake", "rewake", "reclaim_wake"}
      BY <1>0 DEF LocalInv, TypeOK
    <3>. QED
      BY <1>0, <1>c, <1>1, <1>2, <1>k, <1>h, <1>g, <3>1 DEF JobOK, PlacePcs, SchedulePcs
  <2>. QED
    BY <2>1, <2>2 DEF LocalInv
<1>5. ReserveInv'
  BY <1>0, <1>c, <1>1, <1>2, <1>k, <1>h, <1>g, ReserveFramed DEF ReserveFrame
<1>6. CountInv'
  BY <1>0, <1>c, <1>1, <1>2, <1>k, <1>h, <1>g, CountFramed
  DEF CountFrame, Registered, Draining, DrainPcs, SchedulePcs
<1>7. HolderInv' /\ SentinelInv'
  <2>0. /\ ~sentinel'[me[w].slot] /\ me[w].slot \in Slots
        /\ \A s \in Slots : s # me[w].slot => sentinel'[s] = sentinel[s]
    BY <1>0, <1>c, <1>1, <1>2, <1>k, <1>h, <1>g DEF TypeOK
  <2>1. ASSUME NEW v \in Workers, v # w
        PROVE  /\ Holding(v)' <=> Holding(v)
               /\ pc'[v] = "verify" \/ Draining(v)' => pc[v] = "verify" \/ Draining(v)
               /\ me'[v] = me[v] /\ pc'[v] = pc[v] /\ me[v].slot \in Slots
               /\ Holding(v) => me[v].slot # me[w].slot
    BY <1>0, <1>c, <1>1, <1>2, <1>k, <1>h, <1>g, <1>a, <2>1 DEF Holding, Draining, TypeOK
  <2>2. /\ ~Holding(w)' /\ ~(pc'[w] = "verify" \/ Draining(w)') /\ pc'[w] # "reset"
        /\ me'[w].slot = me[w].slot
    BY <1>0, <1>c, <1>1, <1>2, <1>k, <1>h, <1>g
    DEF Holding, OwnerPcs, Draining, DrainPcs, SchedulePcs
  <2>3. ASSUME NEW v \in Workers, Holding(v)'
        PROVE  /\ sentinel'[me'[v].slot]
               /\ \A u \in Workers : Holding(u)' /\ me'[u].slot = me'[v].slot => u = v
    BY <1>0, <1>c, <1>1, <1>2, <1>k, <1>h, <1>g, <2>0, <2>1, <2>2, <2>3 DEF HolderInv
  <2>4. ASSUME NEW v \in Workers, pc'[v] = "verify" \/ Draining(v)' PROVE ~sentinel'[me'[v].slot]
    BY <1>0, <1>c, <1>1, <1>2, <1>k, <1>h, <1>g, <2>0, <2>1, <2>2, <2>4 DEF HolderInv
  <2>5. ASSUME NEW v \in Workers, pc'[v] \in WarmPcs, NEW u \in Workers, pc'[u] = "reset"
        PROVE  me'[u].slot # me'[v].slot
    <3>1. u # w /\ pc[u] = "reset" /\ me'[u] = me[u] /\ Holding(u)
      BY <2>1, <2>2, <2>5 DEF Holding
    <3>2. CASE v = w
      BY <2>1, <2>2, <3>1, <3>2
    <3>3. CASE v # w
      BY <1>0, <2>1, <2>5, <3>1, <3>3 DEF HolderInv
    <3>. QED
      BY <3>2, <3>3
  <2>6. HolderInv'
    BY <2>3, <2>4, <2>5 DEF HolderInv
  <2>7. ASSUME NEW s \in Slots, sentinel'[s] PROVE \E v \in Workers : Holding(v)' /\ me'[v].slot = s
    <3>1. s # me[w].slot /\ sentinel[s]
      BY <2>0, <2>7
    <3>2. PICK v \in Workers : Holding(v) /\ me[v].slot = s
      BY <1>0, <3>1 DEF SentinelInv
    <3>. QED
      BY <2>1, <2>2, <3>1, <3>2
  <2>. QED
    BY <1>2, <2>6, <2>7 DEF SentinelInv
<1>8. PinInv'
  <2>1. ASSUME NEW v \in Workers
        PROVE  (/\ Draining(v) \/ Owning(v) \/ pc[v] \in WarmPcs => slotProcess[me[v].slot] = me[v].process
                /\ pc[v] \in WarmPcs \/ (Owning(v) /\ me[v].entered) => me[v].gen = generation[me[v].slot])'
    <3>1. /\ Draining(v)' => Draining(v)
          /\ Owning(v)' => Owning(v) /\ v # w /\ Holding(v)
          /\ pc'[v] \in WarmPcs => pc[v] \in WarmPcs
          /\ me[v].slot \in Slots
      BY <1>0, <1>c, <1>1, <1>2, <1>k, <1>h, <1>g
      DEF Draining, Owning, Holding, OwnerPcs, WarmPcs, DrainPcs, SchedulePcs, TypeOK
    <3>. QED
      BY <1>0, <1>c, <1>1, <1>2, <1>k, <1>h, <1>g, <1>a, <3>1 DEF PinInv
  <2>2. ASSUME NEW v \in Workers, pc'[v] = "final"
        PROVE  (/\ me[v].gen <= generation[me[v].slot]
                /\ me[v].gen = generation[me[v].slot] =>
                     slotProcess[me[v].slot] = me[v].process \/ Resetting(me[v].slot))'
    <3>1. v # w /\ pc[v] = "final" /\ me[v].slot \in Slots /\ me[v].gen \in Nat
      BY <1>0, <1>c, <1>1, <1>2, <1>k, <1>h, <1>g, <2>2 DEF TypeOK
    <3>2. CASE me[v].slot = me[w].slot
      BY <1>0, <1>c, <1>1, <1>2, <1>k, <1>h, <1>g, <3>1, <3>2 DEF PinInv
    <3>3. CASE me[v].slot # me[w].slot
      <4>1. Resetting(me[v].slot) => Resetting(me[v].slot)'
        BY <1>0, <1>c, <1>1, <1>2, <1>k, <1>h, <1>g, <3>3 DEF Resetting
      <4>. QED
        BY <1>0, <1>c, <1>1, <1>2, <1>k, <1>h, <1>g, <3>1, <3>3, <4>1 DEF PinInv
    <3>. QED
      BY <3>2, <3>3
  <2>3. \A s \in Slots : Clearing(s) => Clearing(s)'
    BY <1>0, <1>c, <1>1, <1>2, <1>k, <1>h, <1>g DEF Clearing
  <2>. QED
    BY <1>0, <1>c, <1>1, <1>2, <1>k, <1>h, <1>g, <2>1, <2>2, <2>3 DEF PinInv
<1>9. EpochInv'
  BY <1>0, <1>c, <1>1, <1>2, <1>k, <1>h, <1>g, EpochFramed DEF EpochFrame, Departed, SchedulePcs
<1>10. LocInv'
  BY <1>0, <1>c, <1>1, <1>2, <1>k, <1>h, <1>g, LocFramed
  DEF LocInv, LocFrame, Leaving, StillOurs, PlacePcs, SchedulePcs
<1>11. ClaimInv'
  BY <1>0, <1>c, <1>1, <1>2, <1>k, <1>h, <1>g, ClaimFramed DEF ClaimFrame, Departed, SchedulePcs
<1>12. WarmInv'
  BY <1>0, <1>c, <1>1, <1>2, <1>k, <1>h, <1>g, WarmFramed
  DEF WarmInv, WarmFrame, Warming, OwnerPcs, WarmPcs
<1>13. CompletionInv'
  <2>1. ASSUME NEW p \in Processes
        PROVE  (/\ completions[p] \in {0, 1} /\ (completions[p] = 1 => Terminal(p))
                /\ Terminal(p) /\ completions[p] = 0 => Resolving(p)
                /\ completions[p] = 0 /\ client.dependent[p] # None =>
                     state[client.dependent[p]] = "SUSPENDED")'
    <3>1. Resolving(p) => Resolving(p)'
      BY <1>0, <1>c, <1>1, <1>2, <1>k, <1>h, <1>g DEF Resolving
    <3>. QED
      BY <1>0, <1>c, <1>1, <1>2, <1>k, <1>h, <1>g, <3>1 DEF CompletionInv, Terminal
  <2>2. ASSUME NEW v \in Workers
        PROVE  (/\ pc[v] = "complete" =>
                     /\ completions[me[v].process] = 0
                     /\ \A u \in Workers : pc[u] = "complete" /\ me[u].slot = me[v].slot => u = v
                /\ Draining(v) /\ me[v].terminal /\ pc[v] # "claim" => completionClaimed[me[v].slot]
                /\ (Owning(v) \/ pc[v] \in WarmPcs \cup {"final"}) /\ me[v].terminal =>
                     completions[me[v].process] = 1)'
    <3>1. /\ Draining(v)' <=> Draining(v)
          /\ Owning(v)' <=> Owning(v)
          /\ me[v].slot \in Slots
      BY <1>0, <1>c, <1>1, <1>2, <1>k, <1>h, <1>g
      DEF Owning, OwnerPcs, Draining, DrainPcs, SchedulePcs, TypeOK
    <3>. QED
      BY <1>0, <1>c, <1>1, <1>2, <1>k, <1>h, <1>g, <1>a, <3>1 DEF CompletionInv, WarmPcs
  <2>3. ASSUME NEW s \in Slots
        PROVE  (/\ completionClaimed[s] /\ ~Resetting(s) =>
                     slotProcess[s] \in Processes /\ (completions[slotProcess[s]] = 1 \/ Completing(s))
                /\ slotProcess[s] \in Processes =>
                     /\ completions[slotProcess[s]] = 1 \/ Completing(s) => completionClaimed[s]
                     /\ Resetting(s) => ~Terminal(slotProcess[s]))'
    <3>1. /\ Completing(s)' <=> Completing(s)
          /\ Resetting(s)' => Resetting(s)
      BY <1>0, <1>c, <1>1, <1>2, <1>k, <1>h, <1>g DEF Completing, Resetting
    <3>2. CASE s = me[w].slot
      <4>1. ~Completing(s) /\ Resetting(s)
        BY <1>1, <1>a, <3>2 DEF Completing, Draining, DrainPcs, Resetting
      <4>. QED
        BY <1>0, <1>c, <1>1, <1>2, <1>k, <1>h, <1>g, <3>1, <3>2, <4>1 DEF CompletionInv, Terminal
    <3>3. CASE s # me[w].slot
      <4>1. Resetting(s)' <=> Resetting(s)
        BY <1>0, <1>c, <1>1, <1>2, <1>k, <1>h, <1>g, <3>3 DEF Resetting
      <4>. QED
        BY <1>0, <1>c, <1>1, <1>2, <1>k, <1>h, <1>g, <3>1, <3>3, <4>1 DEF CompletionInv, Terminal
    <3>. QED
      BY <3>2, <3>3
  <2>. QED
    BY <1>2, <2>1, <2>2, <2>3 DEF CompletionInv
<1>. QED
  BY <1>3, <1>4, <1>5, <1>6, <1>7, <1>8, <1>9, <1>10, <1>11, <1>12, <1>13 DEF Inv

LEMMA PromoteNothingKeeps ==
  ASSUME Inv, NEW w \in Workers, Promote(w), pc'[w] = "rewake" PROVE Inv'
<1>0. /\ TypeOK /\ LocalInv /\ ReserveInv /\ CountInv /\ HolderInv /\ SentinelInv /\ PinInv
      /\ EpochInv /\ LocInv /\ ClaimInv /\ WarmInv /\ CompletionInv
  BY DEF Inv
<1>c. /\ w \in Threads /\ Workers \cap Schedulers = {} /\ Workers \subseteq Threads /\ None \notin Processes
      /\ EMPTY \notin Processes /\ RESERVED \notin Processes /\ EMPTY # RESERVED
  BY Constants DEF Threads
<1>k. me[w].process \in Processes /\ ~me[w].entered /\ ret[w] = "wake"
      /\ state[me[w].process] # "SUSPENDED"
  <2>1. /\ JobOK(w) /\ (w \in Workers => LocalOK(w))
        /\ ret[w] \in {"wake", "rewake", "reclaim_wake"}
    BY <1>0, <1>c DEF LocalInv, TypeOK
  <2>. QED
    BY <2>1, <1>c
    DEF Promote, Goto, JobOK, PlacePcs, SchedulePcs, LocalOK, Draining, Owning, OwnerPcs,
       Departed, DrainPcs, WarmPcs
<1>1. /\ w \in Threads /\ pc[w] = "promote" /\ pc'[w] = "rewake"
      /\ pc' \in [Threads -> Pcs]
      /\ \A u \in Threads : u # w => pc'[u] = pc[u]
      /\ me' = me
      /\ UNCHANGED <<client, state, scheduleState, needsDrain, retainDrain, placementEpoch,
                     placements, releasePending, retentionEpoch, warmRetainers, slotProcess,
                     slotEpoch, slotBudget, generation, drainers, sentinel, completionClaimed,
                     overflow, work, regionsLeft, closing, completions, releases, callsLeft,
                     rescan, todo, job, probe, ret>>
  <2>1. Goto(w, "promote", "rewake") /\ UNCHANGED <<overflow, job, ret>>
    BY <1>0, <1>c DEF Promote, Goto, TypeOK
  <2>. QED
    BY <1>0, <1>c, <2>1
    DEF Promote, Goto, TypeOK, Pcs, ReleasePcs, processVars, slotVars, clientVars, callVars,
       scanVars
<1>2. Slots' = Slots /\ Locals' = Locals
  BY <1>1 DEF Slots, Locals
<1>3. TypeOK'
  BY <1>0, <1>c, <1>1, <1>2, <1>k, ClientFacts DEF TypeOK, Locals
<1>4. LocalInv'
  <2>1. ASSUME NEW v \in Workers PROVE LocalOK(v)'
    <3>1. LocalOK(v)
      BY <1>0 DEF LocalInv
    <3>. QED
      BY <1>0, <1>c, <1>1, <1>2, <1>k, <3>1
      DEF LocalOK, Draining, Owning, OwnerPcs, Departed, DrainPcs, SchedulePcs, WarmPcs
  <2>2. ASSUME NEW u \in Threads PROVE JobOK(u)'
    <3>1. JobOK(u) /\ ret[u] \in {"wake", "rewake", "reclaim_wake"}
      BY <1>0 DEF LocalInv, TypeOK
    <3>. QED
      BY <1>0, <1>c, <1>1, <1>2, <1>k, <3>1 DEF JobOK, PlacePcs, SchedulePcs
  <2>. QED
    BY <2>1, <2>2 DEF LocalInv
<1>5. ReserveInv'
  BY <1>0, <1>c, <1>1, <1>2, <1>k, ReserveFramed DEF ReserveFrame
<1>6. CountInv'
  BY <1>0, <1>c, <1>1, <1>2, <1>k, CountFramed
  DEF CountFrame, Registered, Draining, DrainPcs, SchedulePcs
<1>7. HolderInv' /\ SentinelInv'
  BY <1>0, <1>c, <1>1, <1>2, <1>k, HolderFramed
  DEF HolderFrame, Holding, OwnerPcs, WarmPcs, Draining, DrainPcs, SchedulePcs
<1>8. PinInv'
  BY <1>0, <1>c, <1>1, <1>2, <1>k, PinFramed
  DEF PinFrame, Owning, OwnerPcs, WarmPcs, Draining, DrainPcs, SchedulePcs
<1>9. EpochInv'
  BY <1>0, <1>c, <1>1, <1>2, <1>k, EpochFramed DEF EpochFrame, Departed, SchedulePcs
<1>10. LocInv'
  BY <1>0, <1>c, <1>1, <1>2, <1>k, LocFramed
  DEF LocInv, LocFrame, Leaving, StillOurs, PlacePcs, SchedulePcs
<1>11. ClaimInv'
  BY <1>0, <1>c, <1>1, <1>2, <1>k, ClaimFramed DEF ClaimFrame, Departed, SchedulePcs
<1>12. WarmInv'
  BY <1>0, <1>c, <1>1, <1>2, <1>k, WarmFramed DEF WarmInv, WarmFrame, Warming, OwnerPcs, WarmPcs
<1>13. CompletionInv'
  BY <1>0, <1>c, <1>1, <1>2, <1>k, CompletionFramed
  DEF CompletionInv, CompletionFrame, Owning, OwnerPcs, WarmPcs, Draining, DrainPcs, SchedulePcs
<1>. QED
  BY <1>3, <1>4, <1>5, <1>6, <1>7, <1>8, <1>9, <1>10, <1>11, <1>12, <1>13 DEF Inv

LEMMA PromoteKeeps ==
  ASSUME Inv, NEW w \in Workers, Promote(w), pc'[w] # "rewake" PROVE Inv'
<1>0. /\ TypeOK /\ LocalInv /\ ReserveInv /\ CountInv /\ HolderInv /\ SentinelInv /\ PinInv
      /\ EpochInv /\ LocInv /\ ClaimInv /\ WarmInv /\ CompletionInv
  BY DEF Inv
<1>c. /\ w \in Threads /\ Workers \cap Schedulers = {} /\ Workers \subseteq Threads /\ None \notin Processes
      /\ EMPTY \notin Processes /\ RESERVED \notin Processes /\ EMPTY # RESERVED
  BY Constants DEF Threads
<1>k. me[w].process \in Processes /\ ~me[w].entered /\ ret[w] = "wake"
      /\ state[me[w].process] # "SUSPENDED"
  <2>1. /\ JobOK(w) /\ (w \in Workers => LocalOK(w))
        /\ ret[w] \in {"wake", "rewake", "reclaim_wake"}
    BY <1>0, <1>c DEF LocalInv, TypeOK
  <2>. QED
    BY <2>1, <1>c
    DEF Promote, Goto, JobOK, PlacePcs, SchedulePcs, LocalOK, Draining, Owning, OwnerPcs,
       Departed, DrainPcs, WarmPcs
<1>1. /\ w \in Threads /\ pc[w] = "promote" /\ pc'[w] = "place"
      /\ pc' \in [Threads -> Pcs]
      /\ \A u \in Threads : u # w => pc'[u] = pc[u]
      /\ me' = me
      /\ job' \in [Threads -> Processes \cup {None}] /\ (\A u \in Threads : u # w => job'[u] = job[u])
      /\ ret' \in [Threads -> {"wake", "rewake", "reclaim_wake"}] /\ ret'[w] = "rewake"
      /\ (\A u \in Threads : u # w => ret'[u] = ret[u])
      /\ job'[w] \in Processes /\ job'[w] \in overflow /\ overflow' = overflow \ {job'[w]}
      /\ state[job'[w]] # "SUSPENDED"
      /\ UNCHANGED <<client, state, scheduleState, needsDrain, retainDrain, placementEpoch,
                     placements, releasePending, retentionEpoch, warmRetainers, slotProcess,
                     slotEpoch, slotBudget, generation, drainers, sentinel, completionClaimed,
                     work, regionsLeft, closing, completions, releases, callsLeft, rescan,
                     todo, probe>>
  <2>1. PICK p \in overflow : overflow' = Popped(p) /\ job' = [job EXCEPT ![w] = p]
    BY <1>0, <1>c DEF Promote, Goto, TypeOK
  <2>2. Goto(w, "promote", "place") /\ ret' = [ret EXCEPT ![w] = "rewake"]
    BY <1>0, <1>c DEF Promote, Goto, TypeOK
  <2>3. /\ job' \in [Threads -> Processes \cup {None}] /\ (\A u \in Threads : u # w => job'[u] = job[u])
        /\ job'[w] = p /\ p \in Processes
    BY <1>0, <1>c, <2>1 DEF TypeOK
  <2>4. /\ ret' \in [Threads -> {"wake", "rewake", "reclaim_wake"}] /\ ret'[w] = "rewake"
        /\ (\A u \in Threads : u # w => ret'[u] = ret[u])
    BY <1>0, <1>c, <2>2 DEF TypeOK
  <2>5. state[p] # "SUSPENDED"
    BY <1>0, <2>1, <2>3 DEF LocInv, LocOK
  <2>6. /\ pc[w] = "promote" /\ pc'[w] = "place" /\ pc' \in [Threads -> Pcs]
        /\ (\A u \in Threads : u # w => pc'[u] = pc[u])
    BY <1>0, <1>c, <2>2 DEF Goto, TypeOK, Pcs, SchedulePcs
  <2>7. UNCHANGED <<processVars, slotVars, clientVars, scanVars, me, probe>>
    BY DEF Promote
  <2>. QED
    BY <1>c, <2>1, <2>3, <2>4, <2>5, <2>6, <2>7
    DEF Popped, processVars, slotVars, clientVars, callVars, scanVars
<1>2. Slots' = Slots /\ Locals' = Locals
  BY <1>1 DEF Slots, Locals
<1>3. TypeOK'
  BY <1>0, <1>c, <1>1, <1>2, <1>k, ClientFacts DEF TypeOK, Locals
<1>4. LocalInv'
  <2>1. ASSUME NEW v \in Workers PROVE LocalOK(v)'
    <3>1. LocalOK(v)
      BY <1>0 DEF LocalInv
    <3>. QED
      BY <1>0, <1>c, <1>1, <1>2, <1>k, <3>1
      DEF LocalOK, Draining, Owning, OwnerPcs, Departed, DrainPcs, SchedulePcs, WarmPcs
  <2>2. ASSUME NEW u \in Threads PROVE JobOK(u)'
    <3>1. JobOK(u) /\ ret[u] \in {"wake", "rewake", "reclaim_wake"}
      BY <1>0 DEF LocalInv, TypeOK
    <3>. QED
      BY <1>0, <1>c, <1>1, <1>2, <1>k, <3>1 DEF JobOK, PlacePcs, SchedulePcs
  <2>. QED
    BY <2>1, <2>2 DEF LocalInv
<1>5. ReserveInv'
  BY <1>0, <1>c, <1>1, <1>2, <1>k, ReserveFramed DEF ReserveFrame
<1>6. CountInv'
  BY <1>0, <1>c, <1>1, <1>2, <1>k, CountFramed
  DEF CountFrame, Registered, Draining, DrainPcs, SchedulePcs
<1>7. HolderInv' /\ SentinelInv'
  BY <1>0, <1>c, <1>1, <1>2, <1>k, HolderFramed
  DEF HolderFrame, Holding, OwnerPcs, WarmPcs, Draining, DrainPcs, SchedulePcs
<1>8. PinInv'
  BY <1>0, <1>c, <1>1, <1>2, <1>k, PinFramed
  DEF PinFrame, Owning, OwnerPcs, WarmPcs, Draining, DrainPcs, SchedulePcs
<1>9. EpochInv'
  BY <1>0, <1>c, <1>1, <1>2, <1>k, EpochFramed DEF EpochFrame, Departed, SchedulePcs
<1>10. LocInv'
  <2>j. ASSUME NEW p \in Processes, p = job'[w]
        PROVE  /\ ~InHand(p) /\ ~InSlot(p) /\ ~OnItsWay(p) /\ ~Terminal(p) /\ scheduleState[p] # "IDLE"
    BY <1>0, <1>1, <2>j DEF LocInv, LocOK
  <2>1. ASSUME NEW p \in Processes PROVE LocOK(p)'
    <3>1. LocOK(p)
      BY <1>0 DEF LocInv
    <3>2. /\ \A u \in Threads : Places(u, p)' <=> Places(u, p) \/ (u = w /\ p = job'[w])
          /\ \A v \in Workers : Leaves(v, p)' <=> Leaves(v, p)
          /\ InSlot(p)' <=> InSlot(p)
          /\ Terminal(p)' <=> Terminal(p)
          /\ p \in overflow' <=> p \in overflow /\ p # job'[w]
      BY <1>0, <1>c, <1>1, <1>2, <1>k
      DEF Places, Leaves, Leaving, StillOurs, InSlot, Terminal, PlacePcs, SchedulePcs
    <3>3. OnItsWay(p)' <=> OnItsWay(p)
      BY <3>2 DEF OnItsWay
    <3>4. CASE p = job'[w]
      <4>1. \A u \in Threads : Places(u, p)' => u = w
        BY <2>j, <3>2, <3>4 DEF InHand
      <4>. QED
        BY <1>0, <1>c, <1>1, <1>2, <1>k, <2>j, <3>1, <3>2, <3>3, <3>4, <4>1 DEF LocOK
    <3>5. CASE p # job'[w]
      <4>1. InHand(p)' <=> InHand(p)
        BY <3>2, <3>5 DEF InHand
      <4>. QED
        BY <1>0, <1>c, <1>1, <1>2, <1>k, <3>1, <3>2, <3>3, <3>5, <4>1 DEF LocOK
    <3>. QED
      BY <3>4, <3>5
  <2>2. ASSUME NEW v \in Workers
        PROVE  (/\ pc[v] = "clear" \/ Leaving(v) => (Terminal(me[v].process) => me[v].terminal)
                /\ pc[v] = "idle" => StillOurs(v) /\ ~me[v].terminal)'
    BY <1>0, <1>c, <1>1, <1>2, <1>k DEF LocInv, Leaving, StillOurs, Terminal, SchedulePcs
  <2>. QED
    BY <2>1, <2>2 DEF LocInv
<1>11. ClaimInv'
  BY <1>0, <1>c, <1>1, <1>2, <1>k, ClaimFramed DEF ClaimFrame, Departed, SchedulePcs
<1>12. WarmInv'
  BY <1>0, <1>c, <1>1, <1>2, <1>k, WarmFramed DEF WarmInv, WarmFrame, Warming, OwnerPcs, WarmPcs
<1>13. CompletionInv'
  BY <1>0, <1>c, <1>1, <1>2, <1>k, CompletionFramed
  DEF CompletionInv, CompletionFrame, Owning, OwnerPcs, WarmPcs, Draining, DrainPcs, SchedulePcs
<1>. QED
  BY <1>3, <1>4, <1>5, <1>6, <1>7, <1>8, <1>9, <1>10, <1>11, <1>12, <1>13 DEF Inv

LEMMA RewakeKeeps ==
  ASSUME Inv, NEW w \in Workers, Rewake(w) PROVE Inv'
<1>0. /\ TypeOK /\ LocalInv /\ ReserveInv /\ CountInv /\ HolderInv /\ SentinelInv /\ PinInv
      /\ EpochInv /\ LocInv /\ ClaimInv /\ WarmInv /\ CompletionInv
  BY DEF Inv
<1>c. /\ w \in Threads /\ Workers \cap Schedulers = {} /\ Workers \subseteq Threads /\ None \notin Processes
      /\ EMPTY \notin Processes /\ RESERVED \notin Processes /\ EMPTY # RESERVED
  BY Constants DEF Threads
<1>k. me[w].process \in Processes /\ ~me[w].entered
      /\ state[me[w].process] # "SUSPENDED"
  <2>1. /\ JobOK(w) /\ (w \in Workers => LocalOK(w))
        /\ ret[w] \in {"wake", "rewake", "reclaim_wake"}
    BY <1>0, <1>c DEF LocalInv, TypeOK
  <2>. QED
    BY <2>1, <1>c
    DEF Rewake, Goto, JobOK, PlacePcs, SchedulePcs, LocalOK, Draining, Owning, OwnerPcs,
       Departed, DrainPcs, WarmPcs
<1>1. /\ w \in Threads /\ pc[w] = "rewake" /\ pc'[w] \in {"rewake_post", "settle"}
      /\ pc' \in [Threads -> Pcs]
      /\ \A u \in Threads : u # w => pc'[u] = pc[u]
      /\ me' = me
      /\ ret' \in [Threads -> {"wake", "rewake", "reclaim_wake"}] /\ ret'[w] = "wake"
      /\ (\A u \in Threads : u # w => ret'[u] = ret[u])
      /\ UNCHANGED <<client, state, scheduleState, needsDrain, retainDrain, placementEpoch,
                     placements, releasePending, retentionEpoch, warmRetainers, slotProcess,
                     slotEpoch, slotBudget, generation, drainers, sentinel, completionClaimed,
                     overflow, work, regionsLeft, closing, completions, releases, callsLeft,
                     rescan, todo, job, probe>>
  <2>1. /\ ret' \in [Threads -> {"wake", "rewake", "reclaim_wake"}] /\ ret'[w] = "wake"
        /\ (\A u \in Threads : u # w => ret'[u] = ret[u])
    BY <1>0, <1>c DEF Rewake, TypeOK
  <2>g. /\ pc[w] = "rewake" /\ pc'[w] \in {"rewake_post", "settle"} /\ pc' \in [Threads -> Pcs]
        /\ \A u \in Threads : u # w => pc'[u] = pc[u]
    BY <1>0, <1>c DEF Rewake, Goto, TypeOK, Pcs, DrainPcs, SchedulePcs, WarmPcs, ReleasePcs
  <2>. QED
    BY <1>c, <2>1, <2>g DEF Rewake, processVars, slotVars, clientVars, callVars, scanVars
<1>2. Slots' = Slots /\ Locals' = Locals
  BY <1>1 DEF Slots, Locals
<1>3. TypeOK'
  BY <1>0, <1>c, <1>1, <1>2, <1>k, ClientFacts DEF TypeOK, Locals
<1>4. LocalInv'
  <2>1. ASSUME NEW v \in Workers PROVE LocalOK(v)'
    <3>1. LocalOK(v)
      BY <1>0 DEF LocalInv
    <3>. QED
      BY <1>0, <1>c, <1>1, <1>2, <1>k, <3>1
      DEF LocalOK, Draining, Owning, OwnerPcs, Departed, DrainPcs, SchedulePcs, WarmPcs
  <2>2. ASSUME NEW u \in Threads PROVE JobOK(u)'
    <3>1. JobOK(u) /\ ret[u] \in {"wake", "rewake", "reclaim_wake"}
      BY <1>0 DEF LocalInv, TypeOK
    <3>. QED
      BY <1>0, <1>c, <1>1, <1>2, <1>k, <3>1 DEF JobOK, PlacePcs, SchedulePcs
  <2>. QED
    BY <2>1, <2>2 DEF LocalInv
<1>5. ReserveInv'
  BY <1>0, <1>c, <1>1, <1>2, <1>k, ReserveFramed DEF ReserveFrame
<1>6. CountInv'
  BY <1>0, <1>c, <1>1, <1>2, <1>k, CountFramed
  DEF CountFrame, Registered, Draining, DrainPcs, SchedulePcs
<1>7. HolderInv' /\ SentinelInv'
  BY <1>0, <1>c, <1>1, <1>2, <1>k, HolderFramed
  DEF HolderFrame, Holding, OwnerPcs, WarmPcs, Draining, DrainPcs, SchedulePcs
<1>8. PinInv'
  BY <1>0, <1>c, <1>1, <1>2, <1>k, PinFramed
  DEF PinFrame, Owning, OwnerPcs, WarmPcs, Draining, DrainPcs, SchedulePcs
<1>9. EpochInv'
  BY <1>0, <1>c, <1>1, <1>2, <1>k, EpochFramed DEF EpochFrame, Departed, SchedulePcs
<1>10. LocInv'
  BY <1>0, <1>c, <1>1, <1>2, <1>k, LocFramed
  DEF LocInv, LocFrame, Leaving, StillOurs, PlacePcs, SchedulePcs
<1>11. ClaimInv'
  BY <1>0, <1>c, <1>1, <1>2, <1>k, ClaimFramed DEF ClaimFrame, Departed, SchedulePcs
<1>12. WarmInv'
  BY <1>0, <1>c, <1>1, <1>2, <1>k, WarmFramed DEF WarmInv, WarmFrame, Warming, OwnerPcs, WarmPcs
<1>13. CompletionInv'
  BY <1>0, <1>c, <1>1, <1>2, <1>k, CompletionFramed
  DEF CompletionInv, CompletionFrame, Owning, OwnerPcs, WarmPcs, Draining, DrainPcs, SchedulePcs
<1>. QED
  BY <1>3, <1>4, <1>5, <1>6, <1>7, <1>8, <1>9, <1>10, <1>11, <1>12, <1>13 DEF Inv

LEMMA RewakePostKeeps ==
  ASSUME Inv, NEW w \in Workers, RewakePost(w) PROVE Inv'
<1>0. /\ TypeOK /\ LocalInv /\ ReserveInv /\ CountInv /\ HolderInv /\ SentinelInv /\ PinInv
      /\ EpochInv /\ LocInv /\ ClaimInv /\ WarmInv /\ CompletionInv
  BY DEF Inv
<1>c. /\ w \in Threads /\ Workers \cap Schedulers = {} /\ Workers \subseteq Threads /\ None \notin Processes
      /\ EMPTY \notin Processes /\ RESERVED \notin Processes /\ EMPTY # RESERVED
  BY Constants DEF Threads
<1>k. me[w].process \in Processes /\ ~me[w].entered /\ ret[w] = "wake"
      /\ state[me[w].process] # "SUSPENDED"
  <2>1. /\ JobOK(w) /\ (w \in Workers => LocalOK(w))
        /\ ret[w] \in {"wake", "rewake", "reclaim_wake"}
    BY <1>0, <1>c DEF LocalInv, TypeOK
  <2>. QED
    BY <2>1, <1>c
    DEF RewakePost, Goto, JobOK, PlacePcs, SchedulePcs, LocalOK, Draining, Owning, OwnerPcs,
       Departed, DrainPcs, WarmPcs
<1>1. /\ w \in Threads /\ pc[w] = "rewake_post" /\ pc'[w] = "settle"
      /\ pc' \in [Threads -> Pcs]
      /\ \A u \in Threads : u # w => pc'[u] = pc[u] \/ (pc[u] = "asleep" /\ pc'[u] = "rest")
      /\ me' = me
      /\ rescan' \in [Workers -> BOOLEAN]
      /\ UNCHANGED <<client, state, scheduleState, needsDrain, retainDrain, placementEpoch,
                     placements, releasePending, retentionEpoch, warmRetainers, slotProcess,
                     slotEpoch, slotBudget, generation, drainers, sentinel, completionClaimed,
                     overflow, work, regionsLeft, closing, completions, releases, callsLeft,
                     todo, job, probe, ret>>
  <2>1. pc[w] = "rewake_post" /\ Wake(w, slotBudget[me[w].slot], "settle")
    BY DEF RewakePost
  <2>2. PICK woken \in SUBSET Asleep :
          pc' = [u \in Threads |-> IF u = w THEN "settle"
                                   ELSE IF u \in woken THEN "rest" ELSE pc[u]]
    BY <2>1 DEF Wake
  <2>3. pc \in [Threads -> Pcs] /\ "rest" \in Pcs /\ "settle" \in Pcs
    BY <1>0 DEF TypeOK, Pcs, ReleasePcs
  <2>4. pc' \in [Threads -> Pcs] /\ pc'[w] = "settle"
    BY <1>c, <2>2, <2>3
  <2>5. \A u \in Threads : u # w => pc'[u] = pc[u] \/ (pc[u] = "asleep" /\ pc'[u] = "rest")
    BY <2>2 DEF Asleep
  <2>6. rescan' \in [Workers -> BOOLEAN] /\ UNCHANGED todo
    BY <1>0, <2>1 DEF Wake, TypeOK
  <2>. QED
    BY <1>c, <2>1, <2>4, <2>5, <2>6
    DEF RewakePost, processVars, slotVars, clientVars, callVars, scanVars
<1>2. Slots' = Slots /\ Locals' = Locals
  BY <1>1 DEF Slots, Locals
<1>3. TypeOK'
  BY <1>0, <1>c, <1>1, <1>2, <1>k, ClientFacts DEF TypeOK, Locals
<1>4. LocalInv'
  <2>1. ASSUME NEW v \in Workers PROVE LocalOK(v)'
    <3>1. LocalOK(v)
      BY <1>0 DEF LocalInv
    <3>. QED
      BY <1>0, <1>c, <1>1, <1>2, <1>k, <3>1
      DEF LocalOK, Draining, Owning, OwnerPcs, Departed, DrainPcs, SchedulePcs, WarmPcs
  <2>2. ASSUME NEW u \in Threads PROVE JobOK(u)'
    <3>1. JobOK(u) /\ ret[u] \in {"wake", "rewake", "reclaim_wake"}
      BY <1>0 DEF LocalInv, TypeOK
    <3>2. CASE u = w
      BY <1>0, <1>c, <1>1, <1>2, <1>k, <3>1, <3>2 DEF JobOK, PlacePcs, SchedulePcs
    <3>3. CASE u # w /\ pc'[u] = pc[u]
      <4>1. job'[u] = job[u] /\ ret'[u] = ret[u]
        BY <1>0, <1>c, <1>1, <1>2, <1>k, <3>3
      <4>. QED
        BY <1>0, <1>c, <1>1, <1>2, <1>k, <3>1, <3>3, <4>1 DEF JobOK
    <3>4. CASE u # w /\ pc[u] = "asleep" /\ pc'[u] = "rest"
      <4>1. ret'[u] = ret[u] /\ ret[u] = "wake" /\ u \notin Schedulers
        BY <1>0, <1>c, <1>1, <1>2, <1>k, <3>1, <3>4 DEF JobOK, PlacePcs, SchedulePcs
      <4>. QED
        BY <3>4, <4>1 DEF JobOK, SchedulePcs
    <3>. QED
      BY <1>0, <1>c, <1>1, <1>2, <1>k, <3>2, <3>3, <3>4
  <2>. QED
    BY <2>1, <2>2 DEF LocalInv
<1>5. ReserveInv'
  BY <1>0, <1>c, <1>1, <1>2, <1>k, ReserveFramed DEF ReserveFrame
<1>6. CountInv'
  BY <1>0, <1>c, <1>1, <1>2, <1>k, CountFramed
  DEF CountFrame, Registered, Draining, DrainPcs, SchedulePcs
<1>7. HolderInv' /\ SentinelInv'
  BY <1>0, <1>c, <1>1, <1>2, <1>k, HolderFramed
  DEF HolderFrame, Holding, OwnerPcs, WarmPcs, Draining, DrainPcs, SchedulePcs
<1>8. PinInv'
  BY <1>0, <1>c, <1>1, <1>2, <1>k, PinFramed
  DEF PinFrame, Owning, OwnerPcs, WarmPcs, Draining, DrainPcs, SchedulePcs
<1>9. EpochInv'
  BY <1>0, <1>c, <1>1, <1>2, <1>k, EpochFramed DEF EpochFrame, Departed, SchedulePcs
<1>10. LocInv'
  BY <1>0, <1>c, <1>1, <1>2, <1>k, LocFramed
  DEF LocInv, LocFrame, Leaving, StillOurs, PlacePcs, SchedulePcs
<1>11. ClaimInv'
  BY <1>0, <1>c, <1>1, <1>2, <1>k, ClaimFramed DEF ClaimFrame, Departed, SchedulePcs
<1>12. WarmInv'
  BY <1>0, <1>c, <1>1, <1>2, <1>k, WarmFramed DEF WarmInv, WarmFrame, Warming, OwnerPcs, WarmPcs
<1>13. CompletionInv'
  BY <1>0, <1>c, <1>1, <1>2, <1>k, CompletionFramed
  DEF CompletionInv, CompletionFrame, Owning, OwnerPcs, WarmPcs, Draining, DrainPcs, SchedulePcs
<1>. QED
  BY <1>3, <1>4, <1>5, <1>6, <1>7, <1>8, <1>9, <1>10, <1>11, <1>12, <1>13 DEF Inv

LEMMA ReclaimWakeKeeps ==
  ASSUME Inv, NEW w \in Workers, ReclaimWake(w) PROVE Inv'
<1>0. /\ TypeOK /\ LocalInv /\ ReserveInv /\ CountInv /\ HolderInv /\ SentinelInv /\ PinInv
      /\ EpochInv /\ LocInv /\ ClaimInv /\ WarmInv /\ CompletionInv
  BY DEF Inv
<1>c. /\ w \in Threads /\ Workers \cap Schedulers = {} /\ Workers \subseteq Threads /\ None \notin Processes
      /\ EMPTY \notin Processes /\ RESERVED \notin Processes /\ EMPTY # RESERVED
  BY Constants DEF Threads
<1>k. me[w].process \in Processes /\ ~me[w].entered
      /\ state[me[w].process] # "SUSPENDED"
  <2>1. /\ JobOK(w) /\ (w \in Workers => LocalOK(w))
        /\ ret[w] \in {"wake", "rewake", "reclaim_wake"}
    BY <1>0, <1>c DEF LocalInv, TypeOK
  <2>. QED
    BY <2>1, <1>c
    DEF ReclaimWake, Goto, JobOK, PlacePcs, SchedulePcs, LocalOK, Draining, Owning, OwnerPcs,
       Departed, DrainPcs, WarmPcs
<1>1. /\ w \in Threads /\ pc[w] = "reclaim_wake" /\ pc'[w] = "unplace"
      /\ pc' \in [Threads -> Pcs]
      /\ \A u \in Threads : u # w => pc'[u] = pc[u] \/ (pc[u] = "asleep" /\ pc'[u] = "rest")
      /\ me' = me
      /\ rescan' \in [Workers -> BOOLEAN]
      /\ ret' \in [Threads -> {"wake", "rewake", "reclaim_wake"}] /\ ret'[w] = "wake"
      /\ (\A u \in Threads : u # w => ret'[u] = ret[u])
      /\ UNCHANGED <<client, state, scheduleState, needsDrain, retainDrain, placementEpoch,
                     placements, releasePending, retentionEpoch, warmRetainers, slotProcess,
                     slotEpoch, slotBudget, generation, drainers, sentinel, completionClaimed,
                     overflow, work, regionsLeft, closing, completions, releases, callsLeft,
                     todo, job, probe>>
  <2>1. pc[w] = "reclaim_wake" /\ Wake(w, Budget, "unplace")
    BY DEF ReclaimWake
  <2>2. PICK woken \in SUBSET Asleep :
          pc' = [u \in Threads |-> IF u = w THEN "unplace"
                                   ELSE IF u \in woken THEN "rest" ELSE pc[u]]
    BY <2>1 DEF Wake
  <2>3. pc \in [Threads -> Pcs] /\ "rest" \in Pcs /\ "unplace" \in Pcs
    BY <1>0 DEF TypeOK, Pcs, ReleasePcs
  <2>4. pc' \in [Threads -> Pcs] /\ pc'[w] = "unplace"
    BY <1>c, <2>2, <2>3
  <2>5. \A u \in Threads : u # w => pc'[u] = pc[u] \/ (pc[u] = "asleep" /\ pc'[u] = "rest")
    BY <2>2 DEF Asleep
  <2>6. rescan' \in [Workers -> BOOLEAN] /\ UNCHANGED todo
    BY <1>0, <2>1 DEF Wake, TypeOK
  <2>7. /\ ret' \in [Threads -> {"wake", "rewake", "reclaim_wake"}] /\ ret'[w] = "wake"
        /\ (\A u \in Threads : u # w => ret'[u] = ret[u])
    BY <1>0, <1>c DEF ReclaimWake, TypeOK
  <2>. QED
    BY <1>c, <2>1, <2>4, <2>5, <2>6, <2>7
    DEF ReclaimWake, processVars, slotVars, clientVars, callVars, scanVars
<1>2. Slots' = Slots /\ Locals' = Locals
  BY <1>1 DEF Slots, Locals
<1>3. TypeOK'
  BY <1>0, <1>c, <1>1, <1>2, <1>k, ClientFacts DEF TypeOK, Locals
<1>4. LocalInv'
  <2>1. ASSUME NEW v \in Workers PROVE LocalOK(v)'
    <3>1. LocalOK(v)
      BY <1>0 DEF LocalInv
    <3>. QED
      BY <1>0, <1>c, <1>1, <1>2, <1>k, <3>1
      DEF LocalOK, Draining, Owning, OwnerPcs, Departed, DrainPcs, SchedulePcs, WarmPcs
  <2>2. ASSUME NEW u \in Threads PROVE JobOK(u)'
    <3>1. JobOK(u) /\ ret[u] \in {"wake", "rewake", "reclaim_wake"}
      BY <1>0 DEF LocalInv, TypeOK
    <3>2. CASE u = w
      BY <1>0, <1>c, <1>1, <1>2, <1>k, <3>1, <3>2 DEF JobOK, PlacePcs, SchedulePcs
    <3>3. CASE u # w /\ pc'[u] = pc[u]
      <4>1. job'[u] = job[u] /\ ret'[u] = ret[u]
        BY <1>0, <1>c, <1>1, <1>2, <1>k, <3>3
      <4>. QED
        BY <1>0, <1>c, <1>1, <1>2, <1>k, <3>1, <3>3, <4>1 DEF JobOK
    <3>4. CASE u # w /\ pc[u] = "asleep" /\ pc'[u] = "rest"
      <4>1. ret'[u] = ret[u] /\ ret[u] = "wake" /\ u \notin Schedulers
        BY <1>0, <1>c, <1>1, <1>2, <1>k, <3>1, <3>4 DEF JobOK, PlacePcs, SchedulePcs
      <4>. QED
        BY <3>4, <4>1 DEF JobOK, SchedulePcs
    <3>. QED
      BY <1>0, <1>c, <1>1, <1>2, <1>k, <3>2, <3>3, <3>4
  <2>. QED
    BY <2>1, <2>2 DEF LocalInv
<1>5. ReserveInv'
  BY <1>0, <1>c, <1>1, <1>2, <1>k, ReserveFramed DEF ReserveFrame
<1>6. CountInv'
  BY <1>0, <1>c, <1>1, <1>2, <1>k, CountFramed
  DEF CountFrame, Registered, Draining, DrainPcs, SchedulePcs
<1>7. HolderInv' /\ SentinelInv'
  BY <1>0, <1>c, <1>1, <1>2, <1>k, HolderFramed
  DEF HolderFrame, Holding, OwnerPcs, WarmPcs, Draining, DrainPcs, SchedulePcs
<1>8. PinInv'
  BY <1>0, <1>c, <1>1, <1>2, <1>k, PinFramed
  DEF PinFrame, Owning, OwnerPcs, WarmPcs, Draining, DrainPcs, SchedulePcs
<1>9. EpochInv'
  BY <1>0, <1>c, <1>1, <1>2, <1>k, EpochFramed DEF EpochFrame, Departed, SchedulePcs
<1>10. LocInv'
  BY <1>0, <1>c, <1>1, <1>2, <1>k, LocFramed
  DEF LocInv, LocFrame, Leaving, StillOurs, PlacePcs, SchedulePcs
<1>11. ClaimInv'
  BY <1>0, <1>c, <1>1, <1>2, <1>k, ClaimFramed DEF ClaimFrame, Departed, SchedulePcs
<1>12. WarmInv'
  BY <1>0, <1>c, <1>1, <1>2, <1>k, WarmFramed DEF WarmInv, WarmFrame, Warming, OwnerPcs, WarmPcs
<1>13. CompletionInv'
  BY <1>0, <1>c, <1>1, <1>2, <1>k, CompletionFramed
  DEF CompletionInv, CompletionFrame, Owning, OwnerPcs, WarmPcs, Draining, DrainPcs, SchedulePcs
<1>. QED
  BY <1>3, <1>4, <1>5, <1>6, <1>7, <1>8, <1>9, <1>10, <1>11, <1>12, <1>13 DEF Inv

LEMMA ReleaseSettleKeeps ==
  ASSUME Inv, NEW w \in Workers, ReleaseSettle(w) PROVE Inv'
<1>0. /\ TypeOK /\ LocalInv /\ ReserveInv /\ CountInv /\ HolderInv /\ SentinelInv /\ PinInv
      /\ EpochInv /\ LocInv /\ ClaimInv /\ WarmInv /\ CompletionInv
  BY DEF Inv
<1>c. /\ w \in Threads /\ Workers \cap Schedulers = {} /\ Workers \subseteq Threads /\ None \notin Processes
      /\ EMPTY \notin Processes /\ RESERVED \notin Processes /\ EMPTY # RESERVED
  BY Constants DEF Threads
<1>k. me[w].process \in Processes /\ ~me[w].entered /\ ret[w] = "wake"
      /\ state[me[w].process] # "SUSPENDED"
  <2>1. /\ JobOK(w) /\ (w \in Workers => LocalOK(w))
        /\ ret[w] \in {"wake", "rewake", "reclaim_wake"}
    BY <1>0, <1>c DEF LocalInv, TypeOK
  <2>. QED
    BY <2>1, <1>c
    DEF ReleaseSettle, Goto, JobOK, PlacePcs, SchedulePcs, LocalOK, Draining, Owning, OwnerPcs,
       Departed, DrainPcs, WarmPcs
<1>1. /\ w \in Threads /\ pc[w] = "settle" /\ pc'[w] \in {"idle", "unplace"}
      /\ pc' \in [Threads -> Pcs]
      /\ \A u \in Threads : u # w => pc'[u] = pc[u]
      /\ me' = me
      /\ (pc'[w] = "idle" => StillOurs(w) /\ ~me[w].terminal)
      /\ UNCHANGED <<client, state, scheduleState, needsDrain, retainDrain, placementEpoch,
                     placements, releasePending, retentionEpoch, warmRetainers, slotProcess,
                     slotEpoch, slotBudget, generation, drainers, sentinel, completionClaimed,
                     overflow, work, regionsLeft, closing, completions, releases, callsLeft,
                     rescan, todo, job, probe, ret>>
  <2>1. pc'[w] = "idle" => StillOurs(w) /\ ~me[w].terminal
    BY <1>0, <1>c DEF ReleaseSettle, MaySleep, Goto, TypeOK
  <2>g. /\ pc[w] = "settle" /\ pc'[w] \in {"idle", "unplace"} /\ pc' \in [Threads -> Pcs]
        /\ \A u \in Threads : u # w => pc'[u] = pc[u]
    BY <1>0, <1>c DEF ReleaseSettle, Goto, TypeOK, Pcs, DrainPcs, SchedulePcs, WarmPcs, ReleasePcs
  <2>. QED
    BY <1>c, <2>g, <2>1 DEF ReleaseSettle, processVars, slotVars, clientVars, callVars, scanVars
<1>2. Slots' = Slots /\ Locals' = Locals
  BY <1>1 DEF Slots, Locals
<1>3. TypeOK'
  BY <1>0, <1>c, <1>1, <1>2, <1>k, ClientFacts DEF TypeOK, Locals
<1>4. LocalInv'
  <2>1. ASSUME NEW v \in Workers PROVE LocalOK(v)'
    <3>1. LocalOK(v)
      BY <1>0 DEF LocalInv
    <3>. QED
      BY <1>0, <1>c, <1>1, <1>2, <1>k, <3>1
      DEF LocalOK, Draining, Owning, OwnerPcs, Departed, DrainPcs, SchedulePcs, WarmPcs
  <2>2. ASSUME NEW u \in Threads PROVE JobOK(u)'
    <3>1. JobOK(u) /\ ret[u] \in {"wake", "rewake", "reclaim_wake"}
      BY <1>0 DEF LocalInv, TypeOK
    <3>. QED
      BY <1>0, <1>c, <1>1, <1>2, <1>k, <3>1 DEF JobOK, PlacePcs, SchedulePcs
  <2>. QED
    BY <2>1, <2>2 DEF LocalInv
<1>5. ReserveInv'
  BY <1>0, <1>c, <1>1, <1>2, <1>k, ReserveFramed DEF ReserveFrame
<1>6. CountInv'
  BY <1>0, <1>c, <1>1, <1>2, <1>k, CountFramed
  DEF CountFrame, Registered, Draining, DrainPcs, SchedulePcs
<1>7. HolderInv' /\ SentinelInv'
  BY <1>0, <1>c, <1>1, <1>2, <1>k, HolderFramed
  DEF HolderFrame, Holding, OwnerPcs, WarmPcs, Draining, DrainPcs, SchedulePcs
<1>8. PinInv'
  BY <1>0, <1>c, <1>1, <1>2, <1>k, PinFramed
  DEF PinFrame, Owning, OwnerPcs, WarmPcs, Draining, DrainPcs, SchedulePcs
<1>9. EpochInv'
  BY <1>0, <1>c, <1>1, <1>2, <1>k, EpochFramed DEF EpochFrame, Departed, SchedulePcs
<1>10. LocInv'
  BY <1>0, <1>c, <1>1, <1>2, <1>k, LocFramed
  DEF LocInv, LocFrame, Leaving, StillOurs, PlacePcs, SchedulePcs
<1>11. ClaimInv'
  BY <1>0, <1>c, <1>1, <1>2, <1>k, ClaimFramed DEF ClaimFrame, Departed, SchedulePcs
<1>12. WarmInv'
  BY <1>0, <1>c, <1>1, <1>2, <1>k, WarmFramed DEF WarmInv, WarmFrame, Warming, OwnerPcs, WarmPcs
<1>13. CompletionInv'
  BY <1>0, <1>c, <1>1, <1>2, <1>k, CompletionFramed
  DEF CompletionInv, CompletionFrame, Owning, OwnerPcs, WarmPcs, Draining, DrainPcs, SchedulePcs
<1>. QED
  BY <1>3, <1>4, <1>5, <1>6, <1>7, <1>8, <1>9, <1>10, <1>11, <1>12, <1>13 DEF Inv

LEMMA ReleaseRecheckKeeps ==
  ASSUME Inv, NEW w \in Workers, ReleaseRecheck(w) PROVE Inv'
<1>0. /\ TypeOK /\ LocalInv /\ ReserveInv /\ CountInv /\ HolderInv /\ SentinelInv /\ PinInv
      /\ EpochInv /\ LocInv /\ ClaimInv /\ WarmInv /\ CompletionInv
  BY DEF Inv
<1>c. /\ w \in Threads /\ Workers \cap Schedulers = {} /\ Workers \subseteq Threads /\ None \notin Processes
      /\ EMPTY \notin Processes /\ RESERVED \notin Processes /\ EMPTY # RESERVED
  BY Constants DEF Threads
<1>k. me[w].process \in Processes /\ ~me[w].entered /\ ret[w] = "wake"
      /\ state[me[w].process] # "SUSPENDED"
  <2>1. /\ JobOK(w) /\ (w \in Workers => LocalOK(w))
        /\ ret[w] \in {"wake", "rewake", "reclaim_wake"}
    BY <1>0, <1>c DEF LocalInv, TypeOK
  <2>. QED
    BY <2>1, <1>c
    DEF ReleaseRecheck, Goto, JobOK, PlacePcs, SchedulePcs, LocalOK, Draining, Owning, OwnerPcs,
       Departed, DrainPcs, WarmPcs
<1>1. /\ w \in Threads /\ pc[w] = "recheck" /\ pc'[w] \in {"reread", "unplace"}
      /\ pc' \in [Threads -> Pcs]
      /\ \A u \in Threads : u # w => pc'[u] = pc[u]
      /\ me' = me
      /\ UNCHANGED <<client, state, scheduleState, needsDrain, retainDrain, placementEpoch,
                     placements, releasePending, retentionEpoch, warmRetainers, slotProcess,
                     slotEpoch, slotBudget, generation, drainers, sentinel, completionClaimed,
                     overflow, work, regionsLeft, closing, completions, releases, callsLeft,
                     rescan, todo, job, probe, ret>>
  <2>g. /\ pc[w] = "recheck" /\ pc'[w] \in {"reread", "unplace"} /\ pc' \in [Threads -> Pcs]
        /\ \A u \in Threads : u # w => pc'[u] = pc[u]
    BY <1>0, <1>c
    DEF ReleaseRecheck, Goto, TypeOK, Pcs, DrainPcs, SchedulePcs, WarmPcs, ReleasePcs
  <2>. QED
    BY <1>c, <2>g DEF ReleaseRecheck, processVars, slotVars, clientVars, callVars, scanVars
<1>2. Slots' = Slots /\ Locals' = Locals
  BY <1>1 DEF Slots, Locals
<1>3. TypeOK'
  BY <1>0, <1>c, <1>1, <1>2, <1>k, ClientFacts DEF TypeOK, Locals
<1>4. LocalInv'
  <2>1. ASSUME NEW v \in Workers PROVE LocalOK(v)'
    <3>1. LocalOK(v)
      BY <1>0 DEF LocalInv
    <3>. QED
      BY <1>0, <1>c, <1>1, <1>2, <1>k, <3>1
      DEF LocalOK, Draining, Owning, OwnerPcs, Departed, DrainPcs, SchedulePcs, WarmPcs
  <2>2. ASSUME NEW u \in Threads PROVE JobOK(u)'
    <3>1. JobOK(u) /\ ret[u] \in {"wake", "rewake", "reclaim_wake"}
      BY <1>0 DEF LocalInv, TypeOK
    <3>. QED
      BY <1>0, <1>c, <1>1, <1>2, <1>k, <3>1 DEF JobOK, PlacePcs, SchedulePcs
  <2>. QED
    BY <2>1, <2>2 DEF LocalInv
<1>5. ReserveInv'
  BY <1>0, <1>c, <1>1, <1>2, <1>k, ReserveFramed DEF ReserveFrame
<1>6. CountInv'
  BY <1>0, <1>c, <1>1, <1>2, <1>k, CountFramed
  DEF CountFrame, Registered, Draining, DrainPcs, SchedulePcs
<1>7. HolderInv' /\ SentinelInv'
  BY <1>0, <1>c, <1>1, <1>2, <1>k, HolderFramed
  DEF HolderFrame, Holding, OwnerPcs, WarmPcs, Draining, DrainPcs, SchedulePcs
<1>8. PinInv'
  BY <1>0, <1>c, <1>1, <1>2, <1>k, PinFramed
  DEF PinFrame, Owning, OwnerPcs, WarmPcs, Draining, DrainPcs, SchedulePcs
<1>9. EpochInv'
  BY <1>0, <1>c, <1>1, <1>2, <1>k, EpochFramed DEF EpochFrame, Departed, SchedulePcs
<1>10. LocInv'
  BY <1>0, <1>c, <1>1, <1>2, <1>k, LocFramed
  DEF LocInv, LocFrame, Leaving, StillOurs, PlacePcs, SchedulePcs
<1>11. ClaimInv'
  BY <1>0, <1>c, <1>1, <1>2, <1>k, ClaimFramed DEF ClaimFrame, Departed, SchedulePcs
<1>12. WarmInv'
  BY <1>0, <1>c, <1>1, <1>2, <1>k, WarmFramed DEF WarmInv, WarmFrame, Warming, OwnerPcs, WarmPcs
<1>13. CompletionInv'
  BY <1>0, <1>c, <1>1, <1>2, <1>k, CompletionFramed
  DEF CompletionInv, CompletionFrame, Owning, OwnerPcs, WarmPcs, Draining, DrainPcs, SchedulePcs
<1>. QED
  BY <1>3, <1>4, <1>5, <1>6, <1>7, <1>8, <1>9, <1>10, <1>11, <1>12, <1>13 DEF Inv

LEMMA ReleaseRereadKeeps ==
  ASSUME Inv, NEW w \in Workers, ReleaseReread(w) PROVE Inv'
<1>0. /\ TypeOK /\ LocalInv /\ ReserveInv /\ CountInv /\ HolderInv /\ SentinelInv /\ PinInv
      /\ EpochInv /\ LocInv /\ ClaimInv /\ WarmInv /\ CompletionInv
  BY DEF Inv
<1>c. /\ w \in Threads /\ Workers \cap Schedulers = {} /\ Workers \subseteq Threads /\ None \notin Processes
      /\ EMPTY \notin Processes /\ RESERVED \notin Processes /\ EMPTY # RESERVED
  BY Constants DEF Threads
<1>k. me[w].process \in Processes /\ ~me[w].entered /\ ret[w] = "wake"
      /\ state[me[w].process] # "SUSPENDED"
  <2>1. /\ JobOK(w) /\ (w \in Workers => LocalOK(w))
        /\ ret[w] \in {"wake", "rewake", "reclaim_wake"}
    BY <1>0, <1>c DEF LocalInv, TypeOK
  <2>. QED
    BY <2>1, <1>c
    DEF ReleaseReread, Goto, JobOK, PlacePcs, SchedulePcs, LocalOK, Draining, Owning, OwnerPcs,
       Departed, DrainPcs, WarmPcs
<1>1. /\ w \in Threads /\ pc[w] = "reread" /\ pc'[w] \in {"reclaim", "unplace"}
      /\ pc' \in [Threads -> Pcs]
      /\ \A u \in Threads : u # w => pc'[u] = pc[u]
      /\ me' = me
      /\ UNCHANGED <<client, state, scheduleState, needsDrain, retainDrain, placementEpoch,
                     placements, releasePending, retentionEpoch, warmRetainers, slotProcess,
                     slotEpoch, slotBudget, generation, drainers, sentinel, completionClaimed,
                     overflow, work, regionsLeft, closing, completions, releases, callsLeft,
                     rescan, todo, job, probe, ret>>
  <2>g. /\ pc[w] = "reread" /\ pc'[w] \in {"reclaim", "unplace"} /\ pc' \in [Threads -> Pcs]
        /\ \A u \in Threads : u # w => pc'[u] = pc[u]
    BY <1>0, <1>c DEF ReleaseReread, Goto, TypeOK, Pcs, DrainPcs, SchedulePcs, WarmPcs, ReleasePcs
  <2>. QED
    BY <1>c, <2>g DEF ReleaseReread, processVars, slotVars, clientVars, callVars, scanVars
<1>2. Slots' = Slots /\ Locals' = Locals
  BY <1>1 DEF Slots, Locals
<1>3. TypeOK'
  BY <1>0, <1>c, <1>1, <1>2, <1>k, ClientFacts DEF TypeOK, Locals
<1>4. LocalInv'
  <2>1. ASSUME NEW v \in Workers PROVE LocalOK(v)'
    <3>1. LocalOK(v)
      BY <1>0 DEF LocalInv
    <3>. QED
      BY <1>0, <1>c, <1>1, <1>2, <1>k, <3>1
      DEF LocalOK, Draining, Owning, OwnerPcs, Departed, DrainPcs, SchedulePcs, WarmPcs
  <2>2. ASSUME NEW u \in Threads PROVE JobOK(u)'
    <3>1. JobOK(u) /\ ret[u] \in {"wake", "rewake", "reclaim_wake"}
      BY <1>0 DEF LocalInv, TypeOK
    <3>. QED
      BY <1>0, <1>c, <1>1, <1>2, <1>k, <3>1 DEF JobOK, PlacePcs, SchedulePcs
  <2>. QED
    BY <2>1, <2>2 DEF LocalInv
<1>5. ReserveInv'
  BY <1>0, <1>c, <1>1, <1>2, <1>k, ReserveFramed DEF ReserveFrame
<1>6. CountInv'
  BY <1>0, <1>c, <1>1, <1>2, <1>k, CountFramed
  DEF CountFrame, Registered, Draining, DrainPcs, SchedulePcs
<1>7. HolderInv' /\ SentinelInv'
  BY <1>0, <1>c, <1>1, <1>2, <1>k, HolderFramed
  DEF HolderFrame, Holding, OwnerPcs, WarmPcs, Draining, DrainPcs, SchedulePcs
<1>8. PinInv'
  BY <1>0, <1>c, <1>1, <1>2, <1>k, PinFramed
  DEF PinFrame, Owning, OwnerPcs, WarmPcs, Draining, DrainPcs, SchedulePcs
<1>9. EpochInv'
  BY <1>0, <1>c, <1>1, <1>2, <1>k, EpochFramed DEF EpochFrame, Departed, SchedulePcs
<1>10. LocInv'
  BY <1>0, <1>c, <1>1, <1>2, <1>k, LocFramed
  DEF LocInv, LocFrame, Leaving, StillOurs, PlacePcs, SchedulePcs
<1>11. ClaimInv'
  BY <1>0, <1>c, <1>1, <1>2, <1>k, ClaimFramed DEF ClaimFrame, Departed, SchedulePcs
<1>12. WarmInv'
  BY <1>0, <1>c, <1>1, <1>2, <1>k, WarmFramed DEF WarmInv, WarmFrame, Warming, OwnerPcs, WarmPcs
<1>13. CompletionInv'
  BY <1>0, <1>c, <1>1, <1>2, <1>k, CompletionFramed
  DEF CompletionInv, CompletionFrame, Owning, OwnerPcs, WarmPcs, Draining, DrainPcs, SchedulePcs
<1>. QED
  BY <1>3, <1>4, <1>5, <1>6, <1>7, <1>8, <1>9, <1>10, <1>11, <1>12, <1>13 DEF Inv

LEMMA ReleaseIdleKeeps ==
  ASSUME Inv, NEW w \in Workers, ReleaseIdle(w) PROVE Inv'
<1>0. /\ TypeOK /\ LocalInv /\ ReserveInv /\ CountInv /\ HolderInv /\ SentinelInv /\ PinInv
      /\ EpochInv /\ LocInv /\ ClaimInv /\ WarmInv /\ CompletionInv
  BY DEF Inv
<1>c. /\ w \in Threads /\ Workers \cap Schedulers = {} /\ Workers \subseteq Threads /\ None \notin Processes
      /\ EMPTY \notin Processes /\ RESERVED \notin Processes /\ EMPTY # RESERVED
  BY Constants DEF Threads
<1>k. me[w].process \in Processes /\ ~me[w].entered /\ ret[w] = "wake"
      /\ state[me[w].process] # "SUSPENDED"
  <2>1. /\ JobOK(w) /\ (w \in Workers => LocalOK(w))
        /\ ret[w] \in {"wake", "rewake", "reclaim_wake"}
    BY <1>0, <1>c DEF LocalInv, TypeOK
  <2>. QED
    BY <2>1, <1>c
    DEF ReleaseIdle, Goto, JobOK, PlacePcs, SchedulePcs, LocalOK, Draining, Owning, OwnerPcs,
       Departed, DrainPcs, WarmPcs
<1>1. /\ w \in Threads /\ pc[w] = "idle" /\ pc'[w] = "recheck"
      /\ pc' \in [Threads -> Pcs]
      /\ \A u \in Threads : u # w => pc'[u] = pc[u]
      /\ me' = me
      /\ scheduleState' \in [Processes -> {"IDLE", "DRAINING"}]
      /\ scheduleState' = [scheduleState EXCEPT ![me[w].process] = "IDLE"]
      /\ UNCHANGED <<client, state, needsDrain, retainDrain, placementEpoch, placements,
                     releasePending, retentionEpoch, warmRetainers, slotProcess, slotEpoch,
                     slotBudget, generation, drainers, sentinel, completionClaimed, overflow,
                     work, regionsLeft, closing, completions, releases, callsLeft, rescan,
                     todo, job, probe, ret>>
  <2>1. scheduleState' \in [Processes -> {"IDLE", "DRAINING"}]
    BY <1>0 DEF ReleaseIdle, TypeOK
  <2>g. /\ pc[w] = "idle" /\ pc'[w] = "recheck" /\ pc' \in [Threads -> Pcs]
        /\ \A u \in Threads : u # w => pc'[u] = pc[u]
    BY <1>0, <1>c DEF ReleaseIdle, Goto, TypeOK, Pcs, DrainPcs, SchedulePcs, WarmPcs, ReleasePcs
  <2>. QED
    BY <1>c, <2>1, <2>g DEF ReleaseIdle, processVars, slotVars, clientVars, callVars, scanVars
<1>2. Slots' = Slots /\ Locals' = Locals
  BY <1>1 DEF Slots, Locals
<1>i. /\ Leaves(w, me[w].process) /\ OnItsWay(me[w].process) /\ ~Terminal(me[w].process)
      /\ me[w].process \in Processes
  <2>1. Leaves(w, me[w].process) /\ ~me[w].terminal
    BY <1>0, <1>1 DEF LocInv, Leaves, Leaving
  <2>. QED
    BY <1>0, <1>k, <2>1 DEF OnItsWay, LocInv, Leaves
<1>3. TypeOK'
  BY <1>0, <1>c, <1>1, <1>2, <1>k, <1>i, ClientFacts DEF TypeOK, Locals
<1>4. LocalInv'
  <2>1. ASSUME NEW v \in Workers PROVE LocalOK(v)'
    <3>1. LocalOK(v)
      BY <1>0 DEF LocalInv
    <3>. QED
      BY <1>0, <1>c, <1>1, <1>2, <1>k, <1>i, <3>1
      DEF LocalOK, Draining, Owning, OwnerPcs, Departed, DrainPcs, SchedulePcs, WarmPcs
  <2>2. ASSUME NEW u \in Threads PROVE JobOK(u)'
    <3>1. JobOK(u) /\ ret[u] \in {"wake", "rewake", "reclaim_wake"}
      BY <1>0 DEF LocalInv, TypeOK
    <3>. QED
      BY <1>0, <1>c, <1>1, <1>2, <1>k, <1>i, <3>1 DEF JobOK, PlacePcs, SchedulePcs
  <2>. QED
    BY <2>1, <2>2 DEF LocalInv
<1>5. ReserveInv'
  BY <1>0, <1>c, <1>1, <1>2, <1>k, <1>i, ReserveFramed DEF ReserveFrame
<1>6. CountInv'
  BY <1>0, <1>c, <1>1, <1>2, <1>k, <1>i, CountFramed
  DEF CountFrame, Registered, Draining, DrainPcs, SchedulePcs
<1>7. HolderInv' /\ SentinelInv'
  BY <1>0, <1>c, <1>1, <1>2, <1>k, <1>i, HolderFramed
  DEF HolderFrame, Holding, OwnerPcs, WarmPcs, Draining, DrainPcs, SchedulePcs
<1>8. PinInv'
  BY <1>0, <1>c, <1>1, <1>2, <1>k, <1>i, PinFramed
  DEF PinFrame, Owning, OwnerPcs, WarmPcs, Draining, DrainPcs, SchedulePcs
<1>9. EpochInv'
  BY <1>0, <1>c, <1>1, <1>2, <1>k, <1>i, EpochFramed DEF EpochFrame, Departed, SchedulePcs
<1>10. LocInv'
  <2>1. ASSUME NEW p \in Processes PROVE LocOK(p)'
    <3>1. LocOK(p)
      BY <1>0 DEF LocInv
    <3>2. /\ \A u \in Threads : Places(u, p)' <=> Places(u, p)
          /\ \A v \in Workers : Leaves(v, p)' <=> Leaves(v, p) /\ v # w
          /\ InSlot(p)' <=> InSlot(p)
          /\ Terminal(p)' <=> Terminal(p)
      BY <1>0, <1>c, <1>1, <1>2, <1>k, <1>i
      DEF Places, Leaves, Leaving, StillOurs, InSlot, Terminal, PlacePcs, SchedulePcs
    <3>3. (OnItsWay(p)' => OnItsWay(p)) /\ (InHand(p)' <=> InHand(p))
      BY <3>2 DEF OnItsWay, InHand
    <3>4. CASE p = me[w].process
      <4>1. ~OnItsWay(p)'
        BY <1>i, <3>1, <3>2, <3>4 DEF OnItsWay, LocOK
      <4>. QED
        BY <1>0, <1>c, <1>1, <1>2, <1>k, <1>i, <3>1, <3>2, <3>3, <3>4, <4>1 DEF LocOK
    <3>5. CASE p # me[w].process
      <4>1. scheduleState'[p] = scheduleState[p]
        BY <1>0, <1>c, <1>1, <1>2, <1>k, <1>i, <3>5 DEF TypeOK
      <4>. QED
        BY <1>0, <1>c, <1>1, <1>2, <1>k, <1>i, <3>1, <3>2, <3>3, <3>5, <4>1 DEF LocOK
    <3>. QED
      BY <3>4, <3>5
  <2>2. ASSUME NEW v \in Workers
        PROVE  (/\ pc[v] = "clear" \/ Leaving(v) => (Terminal(me[v].process) => me[v].terminal)
                /\ pc[v] = "idle" => StillOurs(v) /\ ~me[v].terminal)'
    BY <1>0, <1>c, <1>1, <1>2, <1>k, <1>i DEF LocInv, Leaving, StillOurs, Terminal, SchedulePcs
  <2>. QED
    BY <2>1, <2>2 DEF LocInv
<1>11. ClaimInv'
  BY <1>0, <1>c, <1>1, <1>2, <1>k, <1>i, ClaimFramed DEF ClaimFrame, Departed, SchedulePcs
<1>12. WarmInv'
  BY <1>0, <1>c, <1>1, <1>2, <1>k, <1>i, WarmFramed
  DEF WarmInv, WarmFrame, Warming, OwnerPcs, WarmPcs
<1>13. CompletionInv'
  BY <1>0, <1>c, <1>1, <1>2, <1>k, <1>i, CompletionFramed
  DEF CompletionInv, CompletionFrame, Owning, OwnerPcs, WarmPcs, Draining, DrainPcs, SchedulePcs
<1>. QED
  BY <1>3, <1>4, <1>5, <1>6, <1>7, <1>8, <1>9, <1>10, <1>11, <1>12, <1>13 DEF Inv

LEMMA ReclaimLostKeeps ==
  ASSUME Inv, NEW w \in Workers, Reclaim(w), pc'[w] = "unplace" PROVE Inv'
<1>0. /\ TypeOK /\ LocalInv /\ ReserveInv /\ CountInv /\ HolderInv /\ SentinelInv /\ PinInv
      /\ EpochInv /\ LocInv /\ ClaimInv /\ WarmInv /\ CompletionInv
  BY DEF Inv
<1>c. /\ w \in Threads /\ Workers \cap Schedulers = {} /\ Workers \subseteq Threads /\ None \notin Processes
      /\ EMPTY \notin Processes /\ RESERVED \notin Processes /\ EMPTY # RESERVED
  BY Constants DEF Threads
<1>k. me[w].process \in Processes /\ ~me[w].entered /\ ret[w] = "wake"
      /\ state[me[w].process] # "SUSPENDED"
  <2>1. /\ JobOK(w) /\ (w \in Workers => LocalOK(w))
        /\ ret[w] \in {"wake", "rewake", "reclaim_wake"}
    BY <1>0, <1>c DEF LocalInv, TypeOK
  <2>. QED
    BY <2>1, <1>c
    DEF Reclaim, Goto, JobOK, PlacePcs, SchedulePcs, LocalOK, Draining, Owning, OwnerPcs,
       Departed, DrainPcs, WarmPcs
<1>1. /\ w \in Threads /\ pc[w] = "reclaim" /\ pc'[w] = "unplace"
      /\ pc' \in [Threads -> Pcs]
      /\ \A u \in Threads : u # w => pc'[u] = pc[u]
      /\ me' = me
      /\ UNCHANGED <<client, state, scheduleState, needsDrain, retainDrain, placementEpoch,
                     placements, releasePending, retentionEpoch, warmRetainers, slotProcess,
                     slotEpoch, slotBudget, generation, drainers, sentinel, completionClaimed,
                     overflow, work, regionsLeft, closing, completions, releases, callsLeft,
                     rescan, todo, job, probe, ret>>
  <2>1. Goto(w, "reclaim", "unplace") /\ UNCHANGED <<scheduleState, job, ret>>
    BY <1>0, <1>c DEF Reclaim, Goto, TypeOK
  <2>. QED
    BY <1>0, <1>c, <2>1
    DEF Reclaim, Goto, TypeOK, Pcs, ReleasePcs, processVars, slotVars, clientVars, callVars,
       scanVars
<1>2. Slots' = Slots /\ Locals' = Locals
  BY <1>1 DEF Slots, Locals
<1>3. TypeOK'
  BY <1>0, <1>c, <1>1, <1>2, <1>k, ClientFacts DEF TypeOK, Locals
<1>4. LocalInv'
  <2>1. ASSUME NEW v \in Workers PROVE LocalOK(v)'
    <3>1. LocalOK(v)
      BY <1>0 DEF LocalInv
    <3>. QED
      BY <1>0, <1>c, <1>1, <1>2, <1>k, <3>1
      DEF LocalOK, Draining, Owning, OwnerPcs, Departed, DrainPcs, SchedulePcs, WarmPcs
  <2>2. ASSUME NEW u \in Threads PROVE JobOK(u)'
    <3>1. JobOK(u) /\ ret[u] \in {"wake", "rewake", "reclaim_wake"}
      BY <1>0 DEF LocalInv, TypeOK
    <3>. QED
      BY <1>0, <1>c, <1>1, <1>2, <1>k, <3>1 DEF JobOK, PlacePcs, SchedulePcs
  <2>. QED
    BY <2>1, <2>2 DEF LocalInv
<1>5. ReserveInv'
  BY <1>0, <1>c, <1>1, <1>2, <1>k, ReserveFramed DEF ReserveFrame
<1>6. CountInv'
  BY <1>0, <1>c, <1>1, <1>2, <1>k, CountFramed
  DEF CountFrame, Registered, Draining, DrainPcs, SchedulePcs
<1>7. HolderInv' /\ SentinelInv'
  BY <1>0, <1>c, <1>1, <1>2, <1>k, HolderFramed
  DEF HolderFrame, Holding, OwnerPcs, WarmPcs, Draining, DrainPcs, SchedulePcs
<1>8. PinInv'
  BY <1>0, <1>c, <1>1, <1>2, <1>k, PinFramed
  DEF PinFrame, Owning, OwnerPcs, WarmPcs, Draining, DrainPcs, SchedulePcs
<1>9. EpochInv'
  BY <1>0, <1>c, <1>1, <1>2, <1>k, EpochFramed DEF EpochFrame, Departed, SchedulePcs
<1>10. LocInv'
  BY <1>0, <1>c, <1>1, <1>2, <1>k, LocFramed
  DEF LocInv, LocFrame, Leaving, StillOurs, PlacePcs, SchedulePcs
<1>11. ClaimInv'
  BY <1>0, <1>c, <1>1, <1>2, <1>k, ClaimFramed DEF ClaimFrame, Departed, SchedulePcs
<1>12. WarmInv'
  BY <1>0, <1>c, <1>1, <1>2, <1>k, WarmFramed DEF WarmInv, WarmFrame, Warming, OwnerPcs, WarmPcs
<1>13. CompletionInv'
  BY <1>0, <1>c, <1>1, <1>2, <1>k, CompletionFramed
  DEF CompletionInv, CompletionFrame, Owning, OwnerPcs, WarmPcs, Draining, DrainPcs, SchedulePcs
<1>. QED
  BY <1>3, <1>4, <1>5, <1>6, <1>7, <1>8, <1>9, <1>10, <1>11, <1>12, <1>13 DEF Inv

LEMMA ReclaimKeeps ==
  ASSUME Inv, NEW w \in Workers, Reclaim(w), pc'[w] # "unplace" PROVE Inv'
<1>0. /\ TypeOK /\ LocalInv /\ ReserveInv /\ CountInv /\ HolderInv /\ SentinelInv /\ PinInv
      /\ EpochInv /\ LocInv /\ ClaimInv /\ WarmInv /\ CompletionInv
  BY DEF Inv
<1>c. /\ w \in Threads /\ Workers \cap Schedulers = {} /\ Workers \subseteq Threads /\ None \notin Processes
      /\ EMPTY \notin Processes /\ RESERVED \notin Processes /\ EMPTY # RESERVED
  BY Constants DEF Threads
<1>k. me[w].process \in Processes /\ ~me[w].entered /\ ret[w] = "wake"
      /\ state[me[w].process] # "SUSPENDED"
  <2>1. /\ JobOK(w) /\ (w \in Workers => LocalOK(w))
        /\ ret[w] \in {"wake", "rewake", "reclaim_wake"}
    BY <1>0, <1>c DEF LocalInv, TypeOK
  <2>. QED
    BY <2>1, <1>c
    DEF Reclaim, Goto, JobOK, PlacePcs, SchedulePcs, LocalOK, Draining, Owning, OwnerPcs,
       Departed, DrainPcs, WarmPcs
<1>1. /\ w \in Threads /\ pc[w] = "reclaim" /\ pc'[w] = "place"
      /\ pc' \in [Threads -> Pcs]
      /\ \A u \in Threads : u # w => pc'[u] = pc[u]
      /\ me' = me
      /\ job' \in [Threads -> Processes \cup {None}] /\ (\A u \in Threads : u # w => job'[u] = job[u])
      /\ ret' \in [Threads -> {"wake", "rewake", "reclaim_wake"}] /\ ret'[w] = "reclaim_wake"
      /\ (\A u \in Threads : u # w => ret'[u] = ret[u])
      /\ job'[w] = me[w].process /\ scheduleState[me[w].process] = "IDLE"
      /\ scheduleState' \in [Processes -> {"IDLE", "DRAINING"}]
      /\ scheduleState' = [scheduleState EXCEPT ![me[w].process] = "DRAINING"]
      /\ UNCHANGED <<client, state, needsDrain, retainDrain, placementEpoch, placements,
                     releasePending, retentionEpoch, warmRetainers, slotProcess, slotEpoch,
                     slotBudget, generation, drainers, sentinel, completionClaimed, overflow,
                     work, regionsLeft, closing, completions, releases, callsLeft, rescan,
                     todo, probe>>
  <2>1. /\ Goto(w, "reclaim", "place") /\ scheduleState[me[w].process] = "IDLE"
        /\ scheduleState' = [scheduleState EXCEPT ![me[w].process] = "DRAINING"]
        /\ job' = [job EXCEPT ![w] = me[w].process]
        /\ ret' = [ret EXCEPT ![w] = "reclaim_wake"]
    BY <1>0, <1>c DEF Reclaim, Goto, TypeOK
  <2>2. scheduleState' \in [Processes -> {"IDLE", "DRAINING"}]
    BY <1>0, <2>1 DEF TypeOK
  <2>3. /\ job' \in [Threads -> Processes \cup {None}] /\ (\A u \in Threads : u # w => job'[u] = job[u])
        /\ job'[w] = me[w].process
    BY <1>0, <1>c, <1>k, <2>1 DEF TypeOK
  <2>4. /\ ret' \in [Threads -> {"wake", "rewake", "reclaim_wake"}] /\ ret'[w] = "reclaim_wake"
        /\ (\A u \in Threads : u # w => ret'[u] = ret[u])
    BY <1>0, <1>c, <2>1 DEF TypeOK
  <2>6. /\ pc[w] = "reclaim" /\ pc'[w] = "place" /\ pc' \in [Threads -> Pcs]
        /\ (\A u \in Threads : u # w => pc'[u] = pc[u])
    BY <1>0, <1>c, <2>1 DEF Goto, TypeOK, Pcs, SchedulePcs
  <2>. QED
    BY <1>c, <2>1, <2>2, <2>3, <2>4, <2>6
    DEF Reclaim, processVars, slotVars, clientVars, callVars, scanVars
<1>2. Slots' = Slots /\ Locals' = Locals
  BY <1>1 DEF Slots, Locals
<1>3. TypeOK'
  BY <1>0, <1>c, <1>1, <1>2, <1>k, ClientFacts DEF TypeOK, Locals
<1>4. LocalInv'
  <2>1. ASSUME NEW v \in Workers PROVE LocalOK(v)'
    <3>1. LocalOK(v)
      BY <1>0 DEF LocalInv
    <3>. QED
      BY <1>0, <1>c, <1>1, <1>2, <1>k, <3>1
      DEF LocalOK, Draining, Owning, OwnerPcs, Departed, DrainPcs, SchedulePcs, WarmPcs
  <2>2. ASSUME NEW u \in Threads PROVE JobOK(u)'
    <3>1. JobOK(u) /\ ret[u] \in {"wake", "rewake", "reclaim_wake"}
      BY <1>0 DEF LocalInv, TypeOK
    <3>. QED
      BY <1>0, <1>c, <1>1, <1>2, <1>k, <3>1 DEF JobOK, PlacePcs, SchedulePcs
  <2>. QED
    BY <2>1, <2>2 DEF LocalInv
<1>5. ReserveInv'
  BY <1>0, <1>c, <1>1, <1>2, <1>k, ReserveFramed DEF ReserveFrame
<1>6. CountInv'
  BY <1>0, <1>c, <1>1, <1>2, <1>k, CountFramed
  DEF CountFrame, Registered, Draining, DrainPcs, SchedulePcs
<1>7. HolderInv' /\ SentinelInv'
  BY <1>0, <1>c, <1>1, <1>2, <1>k, HolderFramed
  DEF HolderFrame, Holding, OwnerPcs, WarmPcs, Draining, DrainPcs, SchedulePcs
<1>8. PinInv'
  BY <1>0, <1>c, <1>1, <1>2, <1>k, PinFramed
  DEF PinFrame, Owning, OwnerPcs, WarmPcs, Draining, DrainPcs, SchedulePcs
<1>9. EpochInv'
  BY <1>0, <1>c, <1>1, <1>2, <1>k, EpochFramed DEF EpochFrame, Departed, SchedulePcs
<1>10. LocInv'
  <2>1. ASSUME NEW p \in Processes PROVE LocOK(p)'
    <3>1. LocOK(p)
      BY <1>0 DEF LocInv
    <3>2. /\ \A u \in Threads : Places(u, p)' <=> Places(u, p) \/ (u = w /\ p = me[w].process)
          /\ \A v \in Workers : Leaves(v, p)' <=> Leaves(v, p)
          /\ InSlot(p)' <=> InSlot(p)
          /\ Terminal(p)' <=> Terminal(p)
      BY <1>0, <1>c, <1>1, <1>2, <1>k
      DEF Places, Leaves, Leaving, StillOurs, InSlot, Terminal, PlacePcs, SchedulePcs
    <3>3. OnItsWay(p)' <=> OnItsWay(p)
      BY <3>2 DEF OnItsWay
    <3>4. CASE p = me[w].process
      <4>1. scheduleState[p] = "IDLE" /\ scheduleState'[p] = "DRAINING" /\ state[p] # "SUSPENDED"
        BY <1>0, <1>c, <1>1, <1>2, <1>k, <3>4 DEF TypeOK
      <4>2. ~InHand(p) /\ ~InSlot(p) /\ p \notin overflow /\ ~OnItsWay(p) /\ ~Terminal(p)
        BY <3>1, <4>1 DEF LocOK
      <4>3. \A u \in Threads : Places(u, p)' => u = w
        BY <3>2, <4>2 DEF InHand
      <4>. QED
        BY <1>0, <1>c, <1>1, <1>2, <1>k, <3>1, <3>2, <3>3, <3>4, <4>1, <4>2, <4>3 DEF LocOK
    <3>5. CASE p # me[w].process
      <4>1. (InHand(p)' <=> InHand(p)) /\ scheduleState'[p] = scheduleState[p]
        BY <1>0, <1>c, <1>1, <1>2, <1>k, <3>2, <3>5 DEF InHand, TypeOK
      <4>. QED
        BY <1>0, <1>c, <1>1, <1>2, <1>k, <3>1, <3>2, <3>3, <3>5, <4>1 DEF LocOK
    <3>. QED
      BY <3>4, <3>5
  <2>2. ASSUME NEW v \in Workers
        PROVE  (/\ pc[v] = "clear" \/ Leaving(v) => (Terminal(me[v].process) => me[v].terminal)
                /\ pc[v] = "idle" => StillOurs(v) /\ ~me[v].terminal)'
    BY <1>0, <1>c, <1>1, <1>2, <1>k DEF LocInv, Leaving, StillOurs, Terminal, SchedulePcs
  <2>. QED
    BY <2>1, <2>2 DEF LocInv
<1>11. ClaimInv'
  BY <1>0, <1>c, <1>1, <1>2, <1>k, ClaimFramed DEF ClaimFrame, Departed, SchedulePcs
<1>12. WarmInv'
  BY <1>0, <1>c, <1>1, <1>2, <1>k, WarmFramed DEF WarmInv, WarmFrame, Warming, OwnerPcs, WarmPcs
<1>13. CompletionInv'
  BY <1>0, <1>c, <1>1, <1>2, <1>k, CompletionFramed
  DEF CompletionInv, CompletionFrame, Owning, OwnerPcs, WarmPcs, Draining, DrainPcs, SchedulePcs
<1>. QED
  BY <1>3, <1>4, <1>5, <1>6, <1>7, <1>8, <1>9, <1>10, <1>11, <1>12, <1>13 DEF Inv

LEMMA UnplaceKeeps ==
  ASSUME Inv, NEW w \in Workers, Unplace(w) PROVE Inv'
<1>0. /\ TypeOK /\ LocalInv /\ ReserveInv /\ CountInv /\ HolderInv /\ SentinelInv /\ PinInv
      /\ EpochInv /\ LocInv /\ ClaimInv /\ WarmInv /\ CompletionInv
  BY DEF Inv
<1>c. /\ w \in Threads /\ Workers \cap Schedulers = {} /\ Workers \subseteq Threads /\ None \notin Processes
      /\ EMPTY \notin Processes /\ RESERVED \notin Processes /\ EMPTY # RESERVED
  BY Constants DEF Threads
<1>k. me[w].process \in Processes /\ ~me[w].entered /\ ret[w] = "wake"
      /\ state[me[w].process] # "SUSPENDED"
  <2>1. /\ JobOK(w) /\ (w \in Workers => LocalOK(w))
        /\ ret[w] \in {"wake", "rewake", "reclaim_wake"}
    BY <1>0, <1>c DEF LocalInv, TypeOK
  <2>. QED
    BY <2>1, <1>c
    DEF Unplace, Goto, JobOK, PlacePcs, SchedulePcs, LocalOK, Draining, Owning, OwnerPcs,
       Departed, DrainPcs, WarmPcs
<1>1. /\ w \in Threads /\ pc[w] = "unplace" /\ pc'[w] \in {"rest", "scan"}
      /\ pc' \in [Threads -> Pcs]
      /\ \A u \in Threads : u # w => pc'[u] = pc[u]
      /\ me' \in [Workers -> Locals]
      /\ \A v \in Workers : v # w => me'[v] = me[v]
      /\ me'[w] = NoLocals
      /\ placements' \in [Processes -> Nat] /\ releasePending' \in [Processes -> BOOLEAN]
      /\ releases' \in [Processes -> Nat] /\ placements[me[w].process] > 0
      /\ placements' = [placements EXCEPT ![me[w].process] = @ - 1]
      /\ releasePending' = [releasePending EXCEPT ![me[w].process] = Pending(me[w].process, me[w].terminal)]
      /\ (Pending(me[w].process, me[w].terminal) <=> releasePending[me[w].process] \/ me[w].terminal)
      /\ releases' = [releases EXCEPT ![me[w].process] =
           IF Pending(me[w].process, me[w].terminal) /\ placements[me[w].process] = 1 THEN @ + 1 ELSE @]
      /\ UNCHANGED <<client, state, scheduleState, needsDrain, retainDrain, placementEpoch,
                     retentionEpoch, warmRetainers, slotProcess, slotEpoch, slotBudget,
                     generation, drainers, sentinel, completionClaimed, overflow, work,
                     regionsLeft, closing, completions, callsLeft, rescan, todo, job, probe,
                     ret>>
  <2>1. ClaimOK(me[w].process) /\ w \in DepartedFrom(me[w].process) /\ DepartedFrom(me[w].process) \subseteq Workers
    BY <1>0, <1>k DEF ClaimInv, DepartedFrom, Departed, Unplace, Goto
  <2>2. Cardinality(DepartedFrom(me[w].process)) \in Nat /\ Cardinality(DepartedFrom(me[w].process)) > 0
    BY <2>1, Loses
  <2>3. placements[me[w].process] > 0 /\ placements[me[w].process] - 1 \in Nat
    BY <1>0, <1>k, <2>1, <2>2 DEF ClaimOK, TypeOK
  <2>4. placements' \in [Processes -> Nat]
    BY <1>0, <2>3 DEF Unplace, TypeOK
  <2>5. releases' \in [Processes -> Nat]
    BY <1>0, <1>k DEF Unplace, TypeOK
  <2>6. releasePending' \in [Processes -> BOOLEAN]
    BY <1>0, <1>k DEF Unplace, Pending, TypeOK
  <2>7. NoLocals \in Locals
    BY <1>0, ClientFacts DEF NoLocals, Locals, Results
  <2>8. me' = [me EXCEPT ![w] = NoLocals] /\ me \in [Workers -> Locals]
    BY <1>0 DEF Unplace, TypeOK, Locals
  <2>9. /\ me' \in [Workers -> Locals]
        /\ \A v \in Workers : v # w => me'[v] = me[v]
        /\ me'[w] = NoLocals
    BY <2>7, <2>8
  <2>g. /\ pc[w] = "unplace" /\ pc'[w] \in {"rest", "scan"} /\ pc' \in [Threads -> Pcs]
        /\ \A u \in Threads : u # w => pc'[u] = pc[u]
    BY <1>0, <1>c DEF Unplace, Goto, TypeOK, Pcs, DrainPcs, SchedulePcs, WarmPcs, ReleasePcs
  <2>10. Pending(me[w].process, me[w].terminal) <=> releasePending[me[w].process] \/ me[w].terminal
    BY DEF Pending
  <2>. QED
    BY <1>c, <2>3, <2>4, <2>5, <2>6, <2>9, <2>10, <2>g
    DEF Unplace, processVars, slotVars, clientVars, callVars, scanVars
<1>2. Slots' = Slots /\ Locals' = Locals
  BY <1>1 DEF Slots, Locals
<1>u. /\ placements'[me[w].process] = placements[me[w].process] - 1
      /\ (releasePending'[me[w].process] => Done(me[w].process))
      /\ releases[me[w].process] = 0
      /\ releases'[me[w].process] \in {0, 1}
      /\ (releases'[me[w].process] = 1 => placements[me[w].process] = 1 /\ Done(me[w].process))
      /\ \A p \in Processes : p # me[w].process =>
           placements'[p] = placements[p] /\ releasePending'[p] = releasePending[p] /\ releases'[p] = releases[p]
  <2>1. placements'[me[w].process] = placements[me[w].process] - 1
    BY <1>0, <1>k, <1>1 DEF TypeOK
  <2>2. ClaimOK(me[w].process) /\ (me[w].terminal => Done(me[w].process))
    BY <1>0, <1>k, <1>1 DEF ClaimInv, Departed
  <2>3. releases[me[w].process] = 0
    <3>1. releases[me[w].process] \in Nat /\ placements[me[w].process] # 0
      BY <1>0, <1>k, <1>1 DEF TypeOK
    <3>2. releases[me[w].process] <= 1 /\ releases[me[w].process] # 1
      BY <2>2, <3>1 DEF ClaimOK
    <3>. QED
      BY <3>1, <3>2
  <2>4. releasePending'[me[w].process] => Done(me[w].process)
    BY <1>0, <1>k, <1>1, <2>2 DEF ClaimOK, TypeOK
  <2>5. /\ releases'[me[w].process] \in {0, 1}
        /\ (releases'[me[w].process] = 1 => placements[me[w].process] = 1 /\ Done(me[w].process))
    BY <1>0, <1>k, <1>1, <2>2, <2>3 DEF ClaimOK, TypeOK
  <2>6. \A p \in Processes : p # me[w].process =>
           placements'[p] = placements[p] /\ releasePending'[p] = releasePending[p] /\ releases'[p] = releases[p]
    BY <1>0, <1>1 DEF TypeOK
  <2>. QED
    BY <2>1, <2>3, <2>4, <2>5, <2>6
<1>3. TypeOK'
  BY <1>0, <1>c, <1>1, <1>2, <1>k, <1>u, ClientFacts DEF TypeOK, Locals
<1>4. LocalInv'
  <2>1. ASSUME NEW v \in Workers PROVE LocalOK(v)'
    <3>1. LocalOK(v)
      BY <1>0 DEF LocalInv
    <3>. QED
      BY <1>0, <1>c, <1>1, <1>2, <1>k, <1>u, <3>1
      DEF LocalOK, Draining, Owning, OwnerPcs, Departed, DrainPcs, SchedulePcs, WarmPcs, NoLocals
  <2>2. ASSUME NEW u \in Threads PROVE JobOK(u)'
    <3>1. JobOK(u) /\ ret[u] \in {"wake", "rewake", "reclaim_wake"}
      BY <1>0 DEF LocalInv, TypeOK
    <3>. QED
      BY <1>0, <1>c, <1>1, <1>2, <1>k, <1>u, <3>1 DEF JobOK, PlacePcs, SchedulePcs, NoLocals
  <2>. QED
    BY <2>1, <2>2 DEF LocalInv
<1>5. ReserveInv'
  BY <1>0, <1>c, <1>1, <1>2, <1>k, <1>u, ReserveFramed DEF ReserveFrame
<1>6. CountInv'
  BY <1>0, <1>c, <1>1, <1>2, <1>k, <1>u, CountFramed
  DEF CountFrame, Registered, Draining, DrainPcs, SchedulePcs
<1>7. HolderInv' /\ SentinelInv'
  BY <1>0, <1>c, <1>1, <1>2, <1>k, <1>u, HolderFramed
  DEF HolderFrame, Holding, OwnerPcs, WarmPcs, Draining, DrainPcs, SchedulePcs
<1>8. PinInv'
  BY <1>0, <1>c, <1>1, <1>2, <1>k, <1>u, PinFramed
  DEF PinFrame, Owning, OwnerPcs, WarmPcs, Draining, DrainPcs, SchedulePcs
<1>9. EpochInv'
  BY <1>0, <1>c, <1>1, <1>2, <1>k, <1>u, EpochFramed DEF EpochFrame, Departed, SchedulePcs
<1>10. LocInv'
  BY <1>0, <1>c, <1>1, <1>2, <1>k, <1>u, LocFramed
  DEF LocInv, LocFrame, Leaving, StillOurs, PlacePcs, SchedulePcs
<1>11. ClaimInv'
  <2>1. ASSUME NEW p \in Processes
        PROVE  /\ (Filling(p)' <=> Filling(p)) /\ (InSlot(p)' <=> InSlot(p)) /\ (Done(p)' <=> Done(p))
    BY <1>0, <1>c, <1>1, <1>2, <1>k, <1>u DEF Filling, InSlot, Done, Terminal
  <2>2. /\ Departed(w) /\ ~Departed(w)'
        /\ \A v \in Workers : v # w => (Departed(v)' <=> Departed(v)) /\ me'[v] = me[v]
    BY <1>0, <1>c, <1>1, <1>2, <1>k, <1>u DEF Departed, SchedulePcs
  <2>3. ASSUME NEW p \in Processes PROVE ClaimOK(p)'
    <3>1. ClaimOK(p) /\ Cardinality(DepartedFrom(p)) \in Nat /\ DepartedFrom(p) \subseteq Workers
      BY <1>0, Counts DEF ClaimInv, DepartedFrom
    <3>2. CASE p = me[w].process
      <4>1. w \in DepartedFrom(p) /\ DepartedFrom(p)' = DepartedFrom(p) \ {w}
        BY <2>2, <3>2 DEF DepartedFrom
      <4>2. Cardinality(DepartedFrom(p)') = Cardinality(DepartedFrom(p)) - 1
        BY <3>1, <4>1, Loses
      <4>3. placements'[p] = (IF InSlot(p)' THEN 1 ELSE 0) + (IF Filling(p)' THEN 1 ELSE 0)
                               + Cardinality(DepartedFrom(p)')
        BY <1>0, <1>c, <1>1, <1>2, <1>k, <1>u, <2>1, <3>1, <3>2, <4>2 DEF ClaimOK
      <4>. QED
        BY <1>0, <1>c, <1>1, <1>2, <1>k, <1>u, <2>1, <3>2, <4>3 DEF ClaimOK
    <3>3. CASE p # me[w].process
      <4>1. DepartedFrom(p)' = DepartedFrom(p)
        BY <2>2, <3>3 DEF DepartedFrom
      <4>. QED
        BY <1>0, <1>c, <1>1, <1>2, <1>k, <1>u, <2>1, <3>1, <3>3, <4>1 DEF ClaimOK
    <3>. QED
      BY <3>2, <3>3
  <2>4. ASSUME NEW v \in Workers, Departed(v)', me'[v].terminal PROVE Done(me[v].process)'
    <3>1. v # w /\ Departed(v) /\ me'[v] = me[v] /\ me[v].process \in Processes
      BY <1>0, <2>2, <2>4 DEF LocalInv, LocalOK
    <3>2. me[v].terminal /\ Done(me[v].process)
      BY <1>0, <2>4, <3>1 DEF ClaimInv
    <3>3. ASSUME NEW p, p = me[v].process PROVE Done(p)'
      BY <2>1, <3>1, <3>2, <3>3
    <3>4. PICK p : p = me[v].process
      OBVIOUS
    <3>5. Done(p)' /\ p = me'[v].process
      BY <3>1, <3>3, <3>4
    <3>. QED
      BY <3>5 DEF Done, Terminal, InSlot
  <2>. QED
    BY <2>3, <2>4 DEF ClaimInv
<1>12. WarmInv'
  BY <1>0, <1>c, <1>1, <1>2, <1>k, <1>u, WarmFramed
  DEF WarmInv, WarmFrame, Warming, OwnerPcs, WarmPcs, NoLocals
<1>13. CompletionInv'
  BY <1>0, <1>c, <1>1, <1>2, <1>k, <1>u, CompletionFramed
  DEF CompletionInv, CompletionFrame, Owning, OwnerPcs, WarmPcs, Draining, DrainPcs, SchedulePcs,
     NoLocals
<1>. QED
  BY <1>3, <1>4, <1>5, <1>6, <1>7, <1>8, <1>9, <1>10, <1>11, <1>12, <1>13 DEF Inv


----------------------------------------------------------------------------
(* The invariant holds.                                                    *)

LEMMA InitInv == Init => Inv
<1>. SUFFICES ASSUME Init PROVE Inv
  OBVIOUS
<1>c. /\ client \in ClientType /\ client.slots \in Nat \ {0} /\ client.regions \in Nat
      /\ client.calls \in Nat /\ client.dependent \in [Processes -> Processes \cup {None}]
      /\ 1 \in Slots
  <2>1. client \in ClientType
    BY ClientAssumption DEF Init
  <2>. QED
    BY <2>1 DEF ClientType, Slots
<1>p. /\ pc \in [Threads -> {"absent", "rest", "ready"}]
      /\ \A w \in Workers : pc[w] \in {"absent", "rest"}
      /\ \A s \in Schedulers : pc[s] \in {"absent", "ready"}
  BY Constants DEF Init, Threads
<1>m. /\ \A w \in Workers : me[w] = NoLocals /\ ret[w] = "wake" /\ w \in Threads
      /\ \A t \in Threads : ret[t] = "wake"
      /\ \A s \in Slots : /\ slotProcess[s] = EMPTY /\ ~sentinel[s] /\ drainers[s] = 0
                          /\ ~completionClaimed[s]
      /\ \A p \in Processes :
           /\ scheduleState[p] = "IDLE" /\ placements[p] = 0 /\ ~releasePending[p]
           /\ warmRetainers[p] = 0 /\ completions[p] = 0 /\ releases[p] = 0
           /\ state[p] \in {"RUNNABLE", "SUSPENDED"}
      /\ overflow = {}
  BY Constants DEF Init
<1>e. Cardinality({}) = 0
  BY FS_EmptySet
<1>w. ASSUME NEW w \in Workers
      PROVE  /\ ~Draining(w) /\ ~Registered(w) /\ ~Owning(w) /\ ~Holding(w) /\ ~Departed(w)
             /\ ~Leaving(w) /\ ~Warming(w) /\ pc[w] \notin WarmPcs \cup {"final", "reset", "clear"}
             /\ me[w].process \notin Processes /\ ~me[w].entered /\ ~me[w].terminal
  BY <1>p, <1>m, Constants DEF Draining, Registered, OwnerPcs, Owning, Holding, Departed, Leaving,
     Warming, WarmPcs, DrainPcs, SchedulePcs, NoLocals
<1>1. TypeOK
  <2>1. NoLocals \in Locals
    BY <1>c DEF NoLocals, Locals, Results
  <2>2. me \in [Workers -> Locals]
    BY <2>1 DEF Init
  <2>3. /\ state \in [Processes -> {"SUSPENDED", "RUNNABLE", "COMPLETED"}]
        /\ scheduleState \in [Processes -> {"IDLE", "DRAINING"}]
        /\ work \in [Processes -> Nat] /\ pc \in [Threads -> Pcs]
    BY <1>p DEF Init, Pcs
  <2>4. /\ slotProcess \in [Slots -> Processes \cup {EMPTY, RESERVED}]
        /\ slotEpoch \in [Slots -> Nat] /\ slotBudget \in [Slots -> Nat]
        /\ generation \in [Slots -> Nat] /\ drainers \in [Slots -> Nat]
        /\ sentinel \in [Slots -> BOOLEAN] /\ completionClaimed \in [Slots -> BOOLEAN]
        /\ todo \in [Workers -> SUBSET Slots]
    BY DEF Init
  <2>. QED
    BY <1>c, <2>2, <2>3, <2>4 DEF Init, TypeOK, Locals
<1>2. LocalInv
  BY <1>p, <1>m, <1>w, Constants DEF LocalInv, LocalOK, JobOK, SchedulePcs, Threads
<1>3. ReserveInv
  BY <1>p DEF ReserveInv
<1>4. CountInv
  <2>1. ASSUME NEW s \in Slots PROVE DrainersOn(s) = {}
    BY <1>w DEF DrainersOn
  <2>. QED
    BY <1>m, <1>e, <2>1 DEF CountInv
<1>5. HolderInv /\ SentinelInv
  BY <1>p, <1>m, <1>w DEF HolderInv, SentinelInv
<1>6. PinInv
  BY <1>m, <1>w, Constants DEF PinInv
<1>7. EpochInv
  BY <1>w DEF EpochInv
<1>8. LocInv
  <2>1. ASSUME NEW p \in Processes PROVE LocOK(p)
    <3>1. ~InSlot(p) /\ ~InHand(p) /\ ~OnItsWay(p) /\ ~Terminal(p)
      BY <1>p, <1>m, <1>w, Constants
      DEF InSlot, InHand, Places, OnItsWay, Leaves, Terminal, PlacePcs
    <3>. QED
      BY <1>m, <3>1 DEF LocOK, InSlot, InHand, OnItsWay
  <2>. QED
    BY <1>p, <1>w, <2>1 DEF LocInv
<1>9. ClaimInv
  <2>1. ASSUME NEW p \in Processes PROVE ClaimOK(p)
    <3>1. ~InSlot(p) /\ ~Filling(p) /\ DepartedFrom(p) = {}
      BY <1>p, <1>m, <1>w, Constants DEF InSlot, Filling, DepartedFrom
    <3>. QED
      BY <1>m, <1>e, <3>1 DEF ClaimOK
  <2>. QED
    BY <1>w, <2>1 DEF ClaimInv
<1>10. WarmInv
  <2>1. ASSUME NEW p \in Processes PROVE WarmOf(p) = {}
    BY <1>w DEF WarmOf
  <2>. QED
    BY <1>p, <1>m, <1>e, <2>1 DEF WarmInv
<1>11. CompletionInv
  <2>1. ASSUME NEW p \in Processes, client.dependent[p] # None
        PROVE  state[client.dependent[p]] = "SUSPENDED"
    <3>1. client.dependent[p] \in Processes
      BY <1>c, <2>1
    <3>2. Upstream(client.dependent[p]) # {}
      BY DEF Upstream
    <3>. QED
      BY <3>1, <3>2 DEF Init
  <2>. QED
    BY <1>p, <1>m, <1>w, <2>1, Constants DEF CompletionInv, Terminal
<1>. QED
  BY <1>1, <1>2, <1>3, <1>4, <1>5, <1>6, <1>7, <1>8, <1>9, <1>10, <1>11 DEF Inv

LEMMA StutterKeeps ==
  ASSUME Inv, UNCHANGED vars PROVE Inv'
<1>0. /\ TypeOK /\ LocalInv /\ ReserveInv /\ CountInv /\ HolderInv /\ SentinelInv /\ PinInv
      /\ EpochInv /\ LocInv /\ ClaimInv /\ WarmInv /\ CompletionInv
  BY DEF Inv
<1>1. UNCHANGED <<client, state, scheduleState, needsDrain, retainDrain, placementEpoch,
                  placements, releasePending, retentionEpoch, warmRetainers, slotProcess,
                  slotEpoch, slotBudget, generation, drainers, sentinel, completionClaimed,
                  overflow, work, regionsLeft, closing, completions, releases, pc, rescan,
                  todo, me, job, probe, ret, callsLeft>>
  BY DEF vars, processVars, slotVars, clientVars, callVars, scanVars
<1>2. Slots' = Slots
  BY <1>1 DEF Slots
<1>3. ASSUME NEW w \in Workers
      PROVE  /\ Draining(w)' <=> Draining(w)
             /\ Registered(w)' <=> Registered(w)
             /\ Owning(w)' <=> Owning(w)
             /\ Holding(w)' <=> Holding(w)
             /\ Departed(w)' <=> Departed(w)
             /\ Leaving(w)' <=> Leaving(w)
             /\ Warming(w)' <=> Warming(w)
             /\ StillOurs(w)' <=> StillOurs(w)
  BY <1>1 DEF Draining, Registered, Owning, Holding, Departed, Leaving, Warming, StillOurs
<1>4. TypeOK'
  BY <1>0, <1>1, <1>2 DEF TypeOK
<1>5. LocalInv'
  BY <1>0, <1>1, <1>3 DEF LocalInv, LocalOK, JobOK
<1>6. ReserveInv'
  BY <1>0, <1>1, ReserveFramed DEF ReserveFrame
<1>7. CountInv'
  BY <1>0, <1>1, <1>3, CountFramed DEF CountFrame
<1>8. HolderInv' /\ SentinelInv'
  BY <1>0, <1>1, <1>3, HolderFramed DEF HolderFrame
<1>9. PinInv'
  BY <1>0, <1>1, <1>3, PinFramed DEF PinFrame
<1>10. EpochInv'
  BY <1>0, <1>1, <1>3, EpochFramed DEF EpochFrame
<1>11. LocInv'
  BY <1>0, <1>1, <1>3, LocFramed DEF LocInv, LocFrame
<1>12. ClaimInv'
  BY <1>0, <1>1, <1>3, ClaimFramed DEF ClaimFrame
<1>13. WarmInv'
  BY <1>0, <1>1, <1>3, WarmFramed DEF WarmInv, WarmFrame
<1>14. CompletionInv'
  BY <1>0, <1>1, <1>3, CompletionFramed DEF CompletionInv, CompletionFrame
<1>. QED
  BY <1>4, <1>5, <1>6, <1>7, <1>8, <1>9, <1>10, <1>11, <1>12, <1>13, <1>14 DEF Inv

LEMMA ScheduleKeeps ==
  ASSUME Inv, NEW t \in Threads, Schedule(t) PROVE Inv'
BY ScheduleTerminalKeeps, ScheduleLiveKeeps, ScheduleNotifyKeeps, ScheduleRetentionKeeps,
   ScheduleAcquireKeeps, ScheduleConsumeKeeps, ScheduleWakeKeeps, PlacePassKeeps,
   PlaceReserveKeeps, PlaceHoldKeeps, PlacePublishKeeps, PlaceOverflowKeeps DEF Schedule

LEMMA ScanKeeps ==
  ASSUME Inv, NEW w \in Workers, Scan(w) PROVE Inv'
BY ScanStartKeeps, ScanSlotKeeps, ScanEndKeeps, JoinKeeps, VerifyFailKeeps, VerifyKeeps,
   BailKeeps DEF Scan

LEMMA DrainKeeps ==
  ASSUME Inv, NEW w \in Workers, Drain(w) PROVE Inv'
BY SkipTerminalKeeps, DrainWorkKeeps, DrainNothingKeeps, DrainElectKeeps, DrainReturnKeeps,
   DrainPublishKeeps, ClaimCompletionKeeps, EagerCompleteKeeps, TryRetainWarmKeeps,
   LeaveAndTryClaimKeeps, ExitDrainingKeeps, OwnerConsumeKeeps, OwnerDecideKeeps,
   RestoreKeeps DEF Drain

LEMMA WarmKeeps ==
  ASSUME Inv, NEW w \in Workers, Warm(w) PROVE Inv'
BY WarmTestKeeps, WarmSleepKeeps, TryRejoinKeeps, PublishRejoinKeeps, DropWarmKeeps,
   FinalPassKeeps, FinalClaimKeeps, FinalCheckKeeps DEF Warm

LEMMA ReleaseKeeps ==
  ASSUME Inv, NEW w \in Workers, Release(w) PROVE Inv'
BY ReleaseStartKeeps, ReleaseClearKeeps, ReleaseResetKeeps, PromoteNothingKeeps, PromoteKeeps,
   RewakeKeeps, RewakePostKeeps, ReleaseSettleKeeps, ReleaseIdleKeeps, ReleaseRecheckKeeps,
   ReleaseRereadKeeps, ReclaimLostKeeps, ReclaimKeeps, ReclaimWakeKeeps, UnplaceKeeps
   DEF Release

LEMMA NextKeeps ==
  ASSUME Inv, [Next]_vars PROVE Inv'
<1>1. CASE UNCHANGED vars
  BY <1>1, StutterKeeps
<1>2. ASSUME NEW s \in Schedulers, CallSchedule(s) \/ Schedule(s) PROVE Inv'
  BY <1>2, Constants, CallScheduleKeeps, ScheduleKeeps
<1>3. ASSUME NEW w \in Workers, WorkerStep(w) PROVE Inv'
  BY <1>3, Constants, ScheduleKeeps, ScanKeeps, DrainKeeps, WarmKeeps, ReleaseKeeps
     DEF WorkerStep
<1>. QED
  BY <1>1, <1>2, <1>3 DEF Next

\* Every reachable state of the compute slots satisfies the inductive invariant.
THEOREM Invariance == Spec => []Inv
<1>1. Inv /\ [Next]_vars => Inv'
  BY NextKeeps
<1>. QED
  BY <1>1, InitInv, PTL DEF Spec

----------------------------------------------------------------------------
(* What follows from it.                                                   *)

\* A worker that has taken a process out of its slot holds a claim on it.
LEMMA Claimed ==
  ASSUME Inv, NEW w \in Workers, Departed(w)
  PROVE  me[w].process \in Processes /\ placements[me[w].process] > 0
<1>1. me[w].process \in Processes
  BY DEF Inv, LocalInv, LocalOK
<1>2. w \in DepartedFrom(me[w].process) /\ DepartedFrom(me[w].process) \subseteq Workers
  BY DEF DepartedFrom
<1>3. Cardinality(DepartedFrom(me[w].process)) > 0 /\ Cardinality(DepartedFrom(me[w].process)) \in Nat
  BY <1>2, Loses
<1>4. ClaimOK(me[w].process)
  BY <1>1 DEF Inv, ClaimInv
<1>. QED
  BY <1>1, <1>3, <1>4 DEF ClaimOK

\* iree_task_executor_place_in_compute_slot, _schedule_process and the worker's
\* release and promotion: a process is in one slot, in the overflow list or in
\* the hands of one thread, whatever releases of older placements overlap; and
\* nobody drains it or waits warm beside it in another slot or placement.
THEOREM OnePlacementAtATime == Spec => []OnePlacement
<1>1. Inv => OnePlacement
  <2>. SUFFICES ASSUME Inv, NEW p \in Processes
                PROVE  /\ Cardinality({s \in Slots : slotProcess[s] = p}) + Cardinality(Placing(p))
                            + (IF p \in overflow THEN 1 ELSE 0) <= 1
                       /\ \A w \in Drainers(p) \cup Retainers(p) :
                            slotProcess[me[w].slot] = p /\ slotEpoch[me[w].slot] = placementEpoch[p]
    BY DEF OnePlacement
  <2>1. LocOK(p) /\ Placing(p) = {t \in Threads : Places(t, p)}
    BY DEF Inv, LocInv, Placing, Places, PlacePcs
  <2>e. Cardinality({}) = 0
    BY FS_EmptySet
  <2>2. /\ ~InSlot(p) => Cardinality({s \in Slots : slotProcess[s] = p}) = 0
        /\ InSlot(p) => Cardinality({s \in Slots : slotProcess[s] = p}) = 1
    <3>1. ASSUME ~InSlot(p) PROVE Cardinality({s \in Slots : slotProcess[s] = p}) = 0
      <4>1. {s \in Slots : slotProcess[s] = p} = {}
        BY <3>1 DEF InSlot
      <4>. QED
        BY <2>e, <4>1
    <3>2. ASSUME InSlot(p) PROVE Cardinality({s \in Slots : slotProcess[s] = p}) = 1
      <4>1. PICK r \in Slots : slotProcess[r] = p
        BY <3>2 DEF InSlot
      <4>2. {s \in Slots : slotProcess[s] = p} = {r}
        BY <2>1, <4>1 DEF LocOK
      <4>. QED
        BY <4>2, FS_Singleton
    <3>. QED
      BY <3>1, <3>2
  <2>3. /\ ~InHand(p) => Cardinality(Placing(p)) = 0
        /\ InHand(p) => Cardinality(Placing(p)) = 1
    <3>1. ASSUME ~InHand(p) PROVE Cardinality(Placing(p)) = 0
      <4>1. Placing(p) = {}
        BY <2>1, <3>1 DEF InHand
      <4>. QED
        BY <2>e, <4>1
    <3>2. ASSUME InHand(p) PROVE Cardinality(Placing(p)) = 1
      <4>1. PICK u \in Threads : Places(u, p)
        BY <3>2 DEF InHand
      <4>2. Placing(p) = {u}
        BY <2>1, <4>1 DEF LocOK
      <4>. QED
        BY <4>2, FS_Singleton
    <3>. QED
      BY <3>1, <3>2
  <2>4. Cardinality({s \in Slots : slotProcess[s] = p}) + Cardinality(Placing(p))
          + (IF p \in overflow THEN 1 ELSE 0) <= 1
    <3>1. /\ InSlot(p) => ~InHand(p) /\ p \notin overflow
          /\ InHand(p) => p \notin overflow
      BY <2>1 DEF LocOK
    <3>. QED
      BY <2>2, <2>3, <3>1
  <2>5. ASSUME NEW w \in Drainers(p) \cup Retainers(p)
        PROVE  slotProcess[me[w].slot] = p /\ slotEpoch[me[w].slot] = placementEpoch[p]
    <3>1. w \in Workers /\ me[w].process = p /\ (Draining(w) \/ pc[w] \in WarmPcs)
      BY <2>5 DEF Drainers, Retainers, Draining
    <3>2. me[w].slot \in Slots /\ slotProcess[me[w].slot] = p
      BY <3>1, Housed
    <3>3. ASSUME NEW v \in Workers, pc[v] = "clear", me[v].slot = me[w].slot PROVE FALSE
      <4>1. Holding(v) /\ Owning(v)
        BY <3>3 DEF Holding, Owning, OwnerPcs
      <4>2. me[v].process = p
        BY <3>2, <3>3, <4>1, Housed
      <4>3. CASE Draining(w)
        BY <3>1, <3>3, <4>1, <4>3, Apart
      <4>4. CASE pc[w] \in WarmPcs
        <5>1. warmRetainers[p] > 0
          BY <3>1, <4>4, WarmCounted DEF Warming
        <5>2. warmRetainers[p] = 0
          BY <3>3, <4>2 DEF Inv, WarmInv
        <5>. QED
          BY <5>1, <5>2
      <4>. QED
        BY <3>1, <4>3, <4>4
    <3>. QED
      BY <3>2, <3>3 DEF Inv, PinInv, Clearing
  <2>. QED
    BY <2>4, <2>5
<1>. QED
  BY <1>1, Invariance, PTL

\* iree_task_process_release_compute_placement and
\* iree_task_worker_release_compute_process: release_fn, which may free the
\* process, runs at most once and after the one completion callback, and from
\* then on no worker, slot or list refers to the process.
THEOREM ReleaseFinality == Spec => []ReleaseIsFinal
<1>1. Inv => ReleaseIsFinal
  <2>. SUFFICES ASSUME Inv, NEW p \in Processes
                PROVE  /\ releases[p] <= 1 /\ completions[p] <= 1
                       /\ Released(p) =>
                            /\ completions[p] = 1
                            /\ Drainers(p) \cup Retainers(p) \cup Releasers(p) \cup Placing(p) = {}
                            /\ p \notin overflow /\ \A s \in Slots : slotProcess[s] # p
    BY DEF ReleaseIsFinal
  <2>1. ClaimOK(p) /\ LocOK(p) /\ releases[p] \in Nat /\ completions[p] \in {0, 1}
    BY DEF Inv, ClaimInv, LocInv, TypeOK, CompletionInv
  <2>2. releases[p] <= 1 /\ completions[p] <= 1
    BY <2>1 DEF ClaimOK
  <2>3. ASSUME Released(p)
        PROVE  /\ completions[p] = 1
               /\ Drainers(p) \cup Retainers(p) \cup Releasers(p) \cup Placing(p) = {}
               /\ p \notin overflow /\ \A s \in Slots : slotProcess[s] # p
    <3>1. releases[p] = 1
      BY <2>1, <2>2, <2>3 DEF Released
    <3>2. placements[p] = 0 /\ Done(p)
      BY <2>1, <3>1 DEF ClaimOK
    <3>3. Terminal(p) /\ ~InSlot(p) /\ completions[p] = 1
      BY <3>2 DEF Done
    <3>4. ~InHand(p) /\ p \notin overflow
      BY <2>1, <3>3 DEF LocOK
    <3>5. ASSUME NEW w \in Workers, me[w].process = p
          PROVE  /\ ~Draining(w) /\ ~Owning(w) /\ pc[w] \notin WarmPcs
                 /\ ~Departed(w)
      BY <3>2, <3>3, <3>5, Housed, Claimed
    <3>6. Drainers(p) = {} /\ Retainers(p) = {}
      BY <3>5 DEF Drainers, Retainers, Draining
    <3>7. Releasers(p) = {}
      BY <3>5 DEF Releasers, ReleasePcs, Owning, OwnerPcs, Departed
    <3>8. Placing(p) = {}
      BY <3>4 DEF Placing, InHand, Places, PlacePcs
    <3>. QED
      BY <3>3, <3>4, <3>6, <3>7, <3>8 DEF InSlot
  <2>. QED
    BY <2>2, <2>3
<1>. QED
  BY <1>1, Invariance, PTL

\* The assertions of worker.c and process.c and the counts they are about: no
\* warm retainer beside a release, no claim or retainer counted below zero, no
\* placement of a process whose release is pending, and a sentinel in place
\* while a worker arbitrates.
THEOREM AssertionsAreSound == Spec => []AssertionsHold
<1>1. Inv => AssertionsHold
  <2>. SUFFICES ASSUME Inv PROVE AssertionsHold
    OBVIOUS
  <2>1. TypeOK /\ ClaimInv /\ HolderInv
    BY DEF Inv
  <2>2. ASSUME NEW w \in Workers
        PROVE  /\ pc[w] = "release" => warmRetainers[me[w].process] = 0
               /\ pc[w] = "unplace" => placements[me[w].process] > 0
               /\ pc[w] \in {"try_rejoin", "drop"} => warmRetainers[me[w].process] > 0
    <3>1. pc[w] = "release" => warmRetainers[me[w].process] = 0
      BY DEF Inv, WarmInv
    <3>2. pc[w] = "unplace" => placements[me[w].process] > 0
      BY Claimed DEF Departed
    <3>3. ASSUME pc[w] \in {"try_rejoin", "drop"} PROVE warmRetainers[me[w].process] > 0
      <4>1. pc[w] \in WarmPcs
        BY <3>3 DEF WarmPcs
      <4>2. me[w].process \in Processes
        BY <4>1, Housed
      <4>. QED
        BY <4>1, <4>2, WarmCounted DEF Warming
    <3>. QED
      BY <3>1, <3>2, <3>3
  <2>3. ASSUME NEW t \in Threads, pc[t] = "hold" PROVE ~releasePending[job[t]]
    <3>1. job[t] \in Processes
      BY <2>3 DEF Inv, LocalInv, JobOK, SchedulePcs
    <3>2. Places(t, job[t])
      BY <2>3 DEF Places, PlacePcs
    <3>3. ~Terminal(job[t])
      BY <3>1, <3>2, Carried
    <3>. QED
      BY <2>1, <3>1, <3>3 DEF ClaimInv, ClaimOK, Done
  <2>4. ASSUME NEW s \in Slots, ~sentinel[s], NEW w \in Workers, me[w].slot = s
        PROVE  pc[w] \notin {"owner", "decide", "restore", "release", "clear", "reset"}
    BY <2>1, <2>4 DEF HolderInv, Holding, OwnerPcs
  <2>. QED
    BY <2>1, <2>2, <2>3, <2>4 DEF AssertionsHold
<1>. QED
  BY <1>1, Invariance, PTL
=============================================================================
