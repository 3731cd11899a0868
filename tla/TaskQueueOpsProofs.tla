------------------------- MODULE TaskQueueOpsProofs -------------------------
(***************************************************************************)
(* TLAPS proofs about module TaskQueueOps, for any finite set of           *)
(* operations of any kinds, each with any number of waits.                 *)
(***************************************************************************)
EXTENDS TaskQueueOps, FiniteSetTheorems, TLAPS

----------------------------------------------------------------------------
(* The inductive invariant.                                                *)

OwnerLabels == {"last", "hold", "push", "announce", "call", "complete", "settle", "free"}
TailLabels == {"phase", "schedule", "tail"}
FinalLabels == {"lock", "post", "unlock"}
RetireLabels == TailLabels \cup {"retire"} \cup FinalLabels

\* Where each kind of agent can be, and what it works on there.
ControlInv ==
    /\ \A o \in Ops :
          /\ arg[Submitter(o)] = o
          /\ pc[Submitter(o)] \in {"begin", "finish", "register", "subtract", "settle",
                                   "free", "push", "wake", "woken", "end", "done"}
          /\ pc[Destroyer] # "close" => pc[Submitter(o)] \in {"begin", "done"}
    /\ \A a \in Callbacks :
          /\ arg[a] = a[2]
          /\ pc[a] \in {"unregistered", "registered", "record", "decrement", "last", "hold",
                        "push", "wake", "woken", "settle", "free", "end", "done"}
                          \cup RetireLabels
    /\ pc[Control] \in {"idle", "pop", "announce", "call", "complete", "settle", "free", "end",
                        "check", "stop", "rouse", "stopped", "done"} \cup RetireLabels
    /\ pc[Compute] \in {"idle", "complete", "settle", "free", "end", "done"} \cup RetireLabels
    /\ pc[Proactor] \in {"idle", "complete", "settle", "free", "hold", "push", "wake", "woken",
                         "end"} \cup RetireLabels
    /\ pc[Destroyer] \in {"close", "end", "await", "done"} \cup RetireLabels
    /\ \A a \in Agents : pc[a] \in OwnerLabels => arg[a] \in Ops

\* A released process is past its release callback's first step, and only
\* the release callbacks make a process's last steps.
ReleaseInv ==
    /\ pc[Control] \in {"rouse", "stopped", "done"} => Control \in released
    /\ pc[Compute] = "done" => Compute \in released
    /\ Control \in released =>
         pc[Control] \in {"rouse", "stopped", "done", "retire"} \cup FinalLabels
    /\ Compute \in released => pc[Compute] \in {"done", "retire"} \cup FinalLabels

\* pending_operation_count: one reference for each operation until its arena
\* is freed, then one for the agent that freed it; one for each readiness
\* callback until its wake returns; one for the owner of the queue.
Live == {o \in Ops : memory[o] = "live"}
References ==
    {a \in Agents : \/ pc[a] = "end"
                    \/ a[1] # "submit" /\ pc[a] \in {"push", "wake", "woken"}
                    \/ pc[a] = "close"}
CountInv == count = Cardinality(Live) + Cardinality(References)

\* The waits of o that are registered and have not left wait_count.
Outstanding(o) ==
    {i \in 1 .. WaitsOf[o] : pc[Callback(o, i)] \in {"registered", "record", "decrement"}}
Enqueuing(o) == pc[Submitter(o)] \in {"register", "subtract"}

\* operation->wait_count: the outstanding waits and those still to register.
WaitInvOf(o) ==
    /\ Enqueuing(o) => left[o] \in 1 .. WaitsOf[o]
    /\ Enqueuing(o) \/ Outstanding(o) # {} =>
         waitCount[o] = (IF Enqueuing(o) THEN left[o] ELSE 0) + Cardinality(Outstanding(o))
    /\ pc[Submitter(o)] \in {"begin", "finish"} =>
         \A i \in 1 .. WaitsOf[o] : pc[Callback(o, i)] = "unregistered"
    /\ Enqueuing(o) => \A i \in 1 .. left[o] : pc[Callback(o, i)] = "unregistered"
WaitInv == \A o \in Ops : WaitInvOf(o)

\* Operation o was not handed to an owner yet.
Undecided(o) == pc[Submitter(o)] = "finish" \/ Enqueuing(o) \/ Outstanding(o) # {}

Owns(a, o) == arg[a] = o /\ pc[a] \in OwnerLabels
IsReady(o) == \E k \in 1 .. Len(ready) : ready[k] = o

\* At most one agent or list has the operation, nobody has it before its
\* waits are over, and it is live as long as somebody has it.
OwnerInv ==
    /\ \A o \in Ops :
          /\ memory[o] = "none" <=> pc[Submitter(o)] = "begin"
          /\ Undecided(o) => memory[o] = "live" /\ ~IsReady(o) /\ o \notin issued
          /\ IsReady(o) => memory[o] = "live" /\ o \notin issued
          /\ o \in issued => memory[o] = "live"
    /\ \A a \in Agents : pc[a] \in OwnerLabels =>
          /\ memory[arg[a]] = "live" /\ ~Undecided(arg[a])
          /\ ~IsReady(arg[a]) /\ arg[a] \notin issued
    /\ \A a, b \in Agents :
          pc[a] \in OwnerLabels /\ pc[b] \in OwnerLabels /\ arg[a] = arg[b] => a = b
    /\ \A j, k \in 1 .. Len(ready) : ready[j] = ready[k] => j = k

\* The agent that starts the shutdown, until it retires.
Tailing(a) == pc[a] \in TailLabels \/ (pc[a] = "retire" /\ a \notin released)

\* Shutdown begins after the last reference is gone, once.
PhaseInv ==
    /\ phase # "running" \/ pc[Control] = "stop" \/ released # {} => count = 0
    /\ \A a \in Agents : Tailing(a) => count = 0
    /\ \A a, b \in Agents : Tailing(a) /\ Tailing(b) => a = b

\* pending_shutdown_count: who has not retired yet.
One(b) == IF b THEN 1 ELSE 0
TailPending == count > 0 \/ \E a \in Agents : Tailing(a)
ControlPending == Control \notin released \/ pc[Control] \in {"rouse", "stopped", "retire"}
ComputePending == Compute \notin released \/ pc[Compute] = "retire"
RetireInv == retiring = One(TailPending) + One(ControlPending) + One(ComputePending)

\* The last to retire, alone, completes the shutdown under the lock.
FinalInv ==
    /\ \A a \in Agents : pc[a] \in FinalLabels => retiring = 0
    /\ \A a, b \in Agents : pc[a] \in FinalLabels /\ pc[b] \in FinalLabels => a = b
    /\ \A a \in Agents : pc[a] = "lock" => ~shutdown.completed
    /\ \A a \in Agents : pc[a] \in {"post", "unlock"} => shutdown.lock
    /\ shutdown.completed => retiring = 0
    /\ queue = "freed" => shutdown.completed /\ ~shutdown.lock

\* No wait of o failed, and none is on its way.
Clean(o) ==
    \A i \in 1 .. WaitsOf[o] :
        \/ pc[Callback(o, i)] = "unregistered"
        \/ /\ pc[Callback(o, i)] \notin {"registered", "record", "decrement", "last"}
           /\ status[Callback(o, i)] = "ok"

\* The last wait of o has not looked at the recorded error yet.
Deciding(o) ==
    \/ Enqueuing(o) \/ Outstanding(o) # {}
    \/ \E i \in 1 .. WaitsOf[o] : pc[Callback(o, i)] = "last"

\* What the owner of o may do to its semaphores: signal them, or call the host
\* function, only if the waits are clean; settle them only once; leave settled
\* semaphores alone from the moment they are, which for a NON_BLOCKING call is
\* before its function runs.
Settles(a, o) ==
    /\ pc[a] \in {"hold", "push", "announce", "call", "complete"} => Clean(o)
    /\ pc[a] \in {"hold", "push", "announce", "complete", "settle"} => outcome[o] = "none"
    /\ pc[a] = "announce" => kind[o] = "post"
    /\ pc[a] = "call" => (outcome[o] = "none" <=> kind[o] = "call")
    /\ pc[a] = "free" => (outcome[o] = "none" <=> status[Submitter(o)] = "discarded")

\* A failed wait is on record until the last wait acts on it, and success, or
\* a host call, is in store only for an operation with clean waits.
OutcomeOf(o) ==
    /\ Deciding(o) \/ pc[Submitter(o)] \in {"begin", "finish"} => outcome[o] = "none"
    /\ Deciding(o) => \A i \in 1 .. WaitsOf[o] :
         /\ pc[Callback(o, i)] \notin {"unregistered", "registered", "record"}
         /\ status[Callback(o, i)] # "ok"
         => errorStatus[o]
    /\ IsReady(o) \/ o \in issued => Clean(o) /\ outcome[o] = "none"
    /\ outcome[o] \in {"ok", "deferred"} => Clean(o)
    /\ status[Submitter(o)] = "discarded" =>
         outcome[o] = "none" /\ (pc[Submitter(o)] = "free" \/ memory[o] = "freed")
    /\ memory[o] = "freed" => (outcome[o] = "none" <=> status[Submitter(o)] = "discarded")
    /\ \A a \in Agents : arg[a] = o => Settles(a, o)
OutcomeInv ==
    /\ \A o \in Ops : OutcomeOf(o)
    /\ \A a \in Callbacks : status[a] # "discarded"

Inv == /\ TypeOK /\ ControlInv /\ ReleaseInv /\ CountInv /\ WaitInv /\ OwnerInv
       /\ PhaseInv /\ RetireInv /\ FinalInv /\ OutcomeInv

----------------------------------------------------------------------------
(* Agents, lists and small sets.                                           *)

\* The kinds of agents are disjoint, and an agent's name says which operation
\* and which wait it belongs to.
LEMMA AgentFacts ==
    /\ \A o \in Ops :
          Submitter(o) \in Agents /\ Submitter(o)[1] = "submit" /\ Submitter(o)[2] = o
    /\ \A o \in Ops : \A i \in 1 .. WaitsOf[o] :
          /\ Callback(o, i) \in Callbacks
          /\ Callback(o, i)[1] = "wait" /\ Callback(o, i)[2] = o /\ Callback(o, i)[3] = i
    /\ \A a \in Callbacks :
          /\ a \in Agents /\ a[1] = "wait" /\ a[2] \in Ops
          /\ a[3] \in 1 .. WaitsOf[a[2]] /\ a = Callback(a[2], a[3])
    /\ Control \in Agents /\ Compute \in Agents /\ Proactor \in Agents /\ Destroyer \in Agents
    /\ Control[1] = "control" /\ Compute[1] = "compute"
    /\ Proactor[1] = "proactor" /\ Destroyer[1] = "destroy"
    /\ \A a \in Agents :
          \/ a[2] \in Ops /\ a = Submitter(a[2])
          \/ a \in Callbacks
          \/ a \in {Control, Compute, Proactor, Destroyer}
<1>1. \A o \in Ops :
        Submitter(o) \in Agents /\ Submitter(o)[1] = "submit" /\ Submitter(o)[2] = o
  BY DEF Agents, Submitter
<1>2. \A o \in Ops : \A i \in 1 .. WaitsOf[o] :
        /\ Callback(o, i) \in Callbacks
        /\ Callback(o, i)[1] = "wait" /\ Callback(o, i)[2] = o /\ Callback(o, i)[3] = i
  BY DEF Callbacks, Callback
<1>3. ASSUME NEW a \in Callbacks
      PROVE  /\ a \in Agents /\ a[1] = "wait" /\ a[2] \in Ops
             /\ a[3] \in 1 .. WaitsOf[a[2]] /\ a = Callback(a[2], a[3])
  <2>1. PICK o \in Ops : a \in {Callback(o, i) : i \in 1 .. WaitsOf[o]}
    BY DEF Callbacks
  <2>2. PICK i \in 1 .. WaitsOf[o] : a = Callback(o, i)
    BY <2>1
  <2>3. a \in Agents
    BY DEF Agents
  <2>. QED
    BY <2>2, <2>3, <1>2
<1>4. Control \in Agents /\ Compute \in Agents /\ Proactor \in Agents /\ Destroyer \in Agents
  BY DEF Agents
<1>5. /\ Control[1] = "control" /\ Compute[1] = "compute"
      /\ Proactor[1] = "proactor" /\ Destroyer[1] = "destroy"
  BY DEF Control, Compute, Proactor, Destroyer
<1>6. ASSUME NEW a \in Agents
      PROVE  \/ a[2] \in Ops /\ a = Submitter(a[2])
             \/ a \in Callbacks
             \/ a \in {Control, Compute, Proactor, Destroyer}
  <2>1. CASE a \in {Submitter(o) : o \in Ops}
    BY <2>1, <1>1
  <2>. QED
    BY <2>1 DEF Agents
<1>. QED
  BY <1>1, <1>2, <1>3, <1>4, <1>5, <1>6

\* The values of a function on a finite set are finitely many.
LEMMA ImageIsFinite ==
    ASSUME NEW S, IsFiniteSet(S), NEW f
    PROVE  IsFiniteSet({f[x] : x \in S})
<1>. DEFINE T == {f[x] : x \in S}
            g == [x \in S |-> f[x]]
<1>1. g \in Surjection(S, T)
  BY DEF Surjection
<1>. QED
  BY <1>1, FS_Surjection

\* There are finitely many agents and waits.
LEMMA AgentsAreFinite ==
    /\ IsFiniteSet(Agents)
    /\ \A o \in Ops : WaitsOf[o] \in Nat /\ IsFiniteSet(1 .. WaitsOf[o])
<1>0. IsFiniteSet(Ops)
  BY QueueAssumption
<1>1. ASSUME NEW o \in Ops PROVE WaitsOf[o] \in Nat /\ IsFiniteSet(1 .. WaitsOf[o])
  BY QueueAssumption, FS_Interval
<1>2. IsFiniteSet({Submitter(o) : o \in Ops})
  <2>. DEFINE f == [o \in Ops |-> Submitter(o)]
  <2>. HIDE DEF f
  <2>1. IsFiniteSet({f[o] : o \in Ops})
    BY <1>0, ImageIsFinite
  <2>2. {f[o] : o \in Ops} = {Submitter(o) : o \in Ops}
    BY DEF f
  <2>. QED
    BY <2>1, <2>2
<1>3. ASSUME NEW o \in Ops PROVE IsFiniteSet({Callback(o, i) : i \in 1 .. WaitsOf[o]})
  <2>. DEFINE f == [i \in 1 .. WaitsOf[o] |-> Callback(o, i)]
  <2>1. IsFiniteSet({f[i] : i \in 1 .. WaitsOf[o]})
    BY <1>1, ImageIsFinite
  <2>2. {f[i] : i \in 1 .. WaitsOf[o]} = {Callback(o, i) : i \in 1 .. WaitsOf[o]}
    OBVIOUS
  <2>. QED
    BY <2>1, <2>2
<1>4. IsFiniteSet(Callbacks)
  <2>. DEFINE S == {{Callback(o, i) : i \in 1 .. WaitsOf[o]} : o \in Ops}
              f == [o \in Ops |-> {Callback(o, i) : i \in 1 .. WaitsOf[o]}]
  <2>1. IsFiniteSet(S)
    <3>. HIDE DEF f
    <3>1. IsFiniteSet({f[o] : o \in Ops})
      BY <1>0, ImageIsFinite
    <3>2. {f[o] : o \in Ops} = S
      BY DEF f
    <3>. QED
      BY <3>1, <3>2
  <2>2. \A T \in S : IsFiniteSet(T)
    BY <1>3
  <2>3. IsFiniteSet(UNION S)
    BY <2>1, <2>2, FS_UNION
  <2>. QED
    BY <2>3 DEF Callbacks
<1>5. IsFiniteSet({Control, Compute, Proactor, Destroyer})
  <2>1. IsFiniteSet({Control})
    BY FS_Singleton
  <2>2. IsFiniteSet({Control} \cup {Compute})
    BY <2>1, FS_AddElement
  <2>3. IsFiniteSet(({Control} \cup {Compute}) \cup {Proactor})
    BY <2>2, FS_AddElement
  <2>4. IsFiniteSet((({Control} \cup {Compute}) \cup {Proactor}) \cup {Destroyer})
    BY <2>3, FS_AddElement
  <2>5. (({Control} \cup {Compute}) \cup {Proactor}) \cup {Destroyer}
          = {Control, Compute, Proactor, Destroyer}
    OBVIOUS
  <2>. QED
    BY <2>4, <2>5
<1>6. IsFiniteSet({Submitter(o) : o \in Ops} \cup Callbacks)
  BY <1>2, <1>4, FS_Union
<1>7. IsFiniteSet(Agents)
  BY <1>5, <1>6, FS_Union DEF Agents
<1>. QED
  BY <1>1, <1>7

\* An operation pushed on the ready list is in front of the others.
LEMMA PushReady ==
    ASSUME ready \in Seq(Ops), NEW x \in Ops, ready' = <<x>> \o ready
    PROVE  /\ ready' \in Seq(Ops)
           /\ \A o \in Ops : IsReady(o)' <=> o = x \/ IsReady(o)
           /\ ~IsReady(x) /\ (\A j, k \in 1 .. Len(ready) : ready[j] = ready[k] => j = k)
                => (\A j, k \in 1 .. Len(ready) : ready[j] = ready[k] => j = k)'
<1>1. /\ ready' \in Seq(Ops) /\ Len(ready') = Len(ready) + 1 /\ Len(ready) \in Nat
      /\ ready'[1] = x /\ \A k \in 1 .. Len(ready) : ready'[k + 1] = ready[k]
  OBVIOUS
<1>2. \A k \in 1 .. Len(ready') : k = 1 \/ (k - 1 \in 1 .. Len(ready) /\ ready'[k] = ready[k - 1])
  BY <1>1
<1>3. ASSUME NEW o \in Ops PROVE IsReady(o)' <=> o = x \/ IsReady(o)
  <2>1. IsReady(o)' => o = x \/ IsReady(o)
    BY <1>1, <1>2 DEF IsReady
  <2>2. o = x => IsReady(o)'
    BY <1>1 DEF IsReady
  <2>3. IsReady(o) => IsReady(o)'
    <3>1. \A k \in 1 .. Len(ready) : k + 1 \in 1 .. Len(ready')
      BY <1>1
    <3>. QED
      BY <1>1, <3>1 DEF IsReady
  <2>. QED
    BY <2>1, <2>2, <2>3
<1>4. ASSUME ~IsReady(x), \A j, k \in 1 .. Len(ready) : ready[j] = ready[k] => j = k,
             NEW j \in 1 .. Len(ready'), NEW k \in 1 .. Len(ready'), ready'[j] = ready'[k]
      PROVE  j = k
  BY <1>1, <1>2, <1>4 DEF IsReady
<1>. QED
  BY <1>1, <1>3, <1>4

\* The operation popped from the ready list is no longer on it.
LEMMA PopReady ==
    ASSUME ready \in Seq(Ops), ready # <<>>, ready' = Tail(ready),
           \A j, k \in 1 .. Len(ready) : ready[j] = ready[k] => j = k
    PROVE  /\ ready' \in Seq(Ops) /\ Head(ready) \in Ops /\ IsReady(Head(ready))
           /\ \A o \in Ops : IsReady(o)' <=> o # Head(ready) /\ IsReady(o)
           /\ (\A j, k \in 1 .. Len(ready) : ready[j] = ready[k] => j = k)'
<1>1. /\ ready' \in Seq(Ops) /\ Len(ready') = Len(ready) - 1 /\ Len(ready) \in Nat \ {0}
      /\ Head(ready) = ready[1] /\ Head(ready) \in Ops
      /\ \A k \in 1 .. Len(ready') : ready'[k] = ready[k + 1] /\ k + 1 \in 1 .. Len(ready)
  OBVIOUS
<1>2. IsReady(Head(ready))
  BY <1>1 DEF IsReady
<1>3. ASSUME NEW o \in Ops PROVE IsReady(o)' <=> o # Head(ready) /\ IsReady(o)
  <2>1. ASSUME IsReady(o)' PROVE o # Head(ready) /\ IsReady(o)
    <3>1. PICK k \in 1 .. Len(ready') : ready'[k] = o
      BY <2>1 DEF IsReady
    <3>2. ready[k + 1] = o /\ k + 1 \in 1 .. Len(ready) /\ k + 1 # 1 /\ 1 \in 1 .. Len(ready)
      BY <1>1, <3>1
    <3>. QED
      BY <1>1, <3>2 DEF IsReady
  <2>2. ASSUME o # Head(ready), IsReady(o) PROVE IsReady(o)'
    <3>1. PICK k \in 1 .. Len(ready) : ready[k] = o
      BY <2>2 DEF IsReady
    <3>2. k - 1 \in 1 .. Len(ready') /\ (k - 1) + 1 = k
      BY <1>1, <2>2, <3>1
    <3>. QED
      BY <1>1, <3>1, <3>2 DEF IsReady
  <2>. QED
    BY <2>1, <2>2
<1>4. ASSUME NEW j \in 1 .. Len(ready'), NEW k \in 1 .. Len(ready'), ready'[j] = ready'[k]
      PROVE  j = k
  BY <1>1, <1>4
<1>. QED
  BY <1>1, <1>2, <1>3, <1>4

----------------------------------------------------------------------------
(* Control.                                                                *)

\* Every agent stays on its own path through the code.
LEMMA ControlAfterStep ==
    ASSUME TypeOK, ControlInv, ReleaseInv, WaitInv, [Next]_vars,
           \A o \in Ops : pc[Submitter(o)] = "end" => count > 1
    PROVE  ControlInv' /\ ReleaseInv'
<1>0. /\ pc \in [Agents -> Labels] /\ arg \in [Agents -> Ops \cup {NoOp}]
      /\ ready \in Seq(Ops) /\ released \subseteq {Control, Compute}
  BY DEF TypeOK
<1>. USE <1>0, AgentFacts DEF ControlInv, ReleaseInv, Goto, op, life, agent,
         OwnerLabels, RetireLabels, TailLabels, FinalLabels
<1>1. ASSUME NEW o \in Ops, SubmitBegin(o) PROVE ControlInv' /\ ReleaseInv'
  BY <1>1 DEF SubmitBegin
<1>2. ASSUME NEW o \in Ops, SubmitDiscard(o) PROVE ControlInv' /\ ReleaseInv'
  BY <1>2 DEF SubmitDiscard, With
<1>3. ASSUME NEW o \in Ops, SubmitFails(o) PROVE ControlInv' /\ ReleaseInv'
  BY <1>3 DEF SubmitFails, With
<1>4. ASSUME NEW o \in Ops, SubmitFinish(o) PROVE ControlInv' /\ ReleaseInv'
  BY <1>4 DEF SubmitFinish
<1>5. ASSUME NEW o \in Ops, Register(o) PROVE ControlInv' /\ ReleaseInv'
  <2>1. left[o] \in 1 .. WaitsOf[o]
    BY <1>5 DEF Register, WaitInv, WaitInvOf, Enqueuing
  <2>. DEFINE c == Callback(o, left[o])
  <2>2. c \in Callbacks /\ c \in Agents /\ c # Submitter(o)
    BY <2>1
  <2>3. /\ pc'[Submitter(o)] \in {"done", "register"} /\ pc'[c] = "registered"
        /\ \A b \in Agents : b # Submitter(o) /\ b # c => pc'[b] = pc[b]
    BY <1>5, <2>2 DEF Register
  <2>4. UNCHANGED <<arg, released>> /\ pc[Destroyer] = "close"
    BY <1>5 DEF Register
  <2>. HIDE DEF c
  <2>5. \A p \in Ops : pc'[Submitter(p)] = pc[Submitter(p)] \/ (p = o /\ pc'[Submitter(p)] \in {"done", "register"})
    BY <2>2, <2>3
  <2>6. \A b \in Callbacks : pc'[b] = pc[b] \/ pc'[b] = "registered"
    BY <2>3
  <2>7. UNCHANGED <<pc[Control], pc[Compute], pc[Proactor], pc[Destroyer]>>
    BY <2>2, <2>3
  <2>8. \A b \in Agents : pc'[b] \in OwnerLabels => pc[b] \in OwnerLabels
    BY <2>3
  <2>. QED
    BY <2>4, <2>5, <2>6, <2>7, <2>8
<1>6. ASSUME NEW o \in Ops, RegisterFails(o) PROVE ControlInv' /\ ReleaseInv'
  BY <1>6 DEF RegisterFails
<1>7. ASSUME NEW o \in Ops, Subtract(o) PROVE ControlInv' /\ ReleaseInv'
  <2>1. CASE AllFired(waitCount[o], left[o])
    BY <1>7, <2>1 DEF Subtract, With
  <2>2. CASE ~AllFired(waitCount[o], left[o])
    BY <1>7, <2>2 DEF Subtract
  <2>. QED
    BY <2>1, <2>2
<1>8. ASSUME NEW a \in Callbacks, Resolve(a) PROVE ControlInv' /\ ReleaseInv'
  BY <1>8 DEF Resolve, With
<1>9. ASSUME NEW a \in Callbacks, Record(a) PROVE ControlInv' /\ ReleaseInv'
  BY <1>9 DEF Record
<1>10. ASSUME NEW a \in Callbacks, Decrement(a) PROVE ControlInv' /\ ReleaseInv'
  BY <1>10 DEF Decrement
<1>11. ASSUME NEW a \in Callbacks, Last(a) PROVE ControlInv' /\ ReleaseInv'
  BY <1>11 DEF Last
<1>12. ASSUME NEW a \in Agents, Hold(a) PROVE ControlInv' /\ ReleaseInv'
  BY <1>12 DEF Hold
<1>13. ASSUME NEW a \in Agents, Push(a) PROVE ControlInv' /\ ReleaseInv'
  BY <1>13 DEF Push
<1>14. ASSUME NEW a \in Agents, Wake(a) PROVE ControlInv' /\ ReleaseInv'
  BY <1>14 DEF Wake
<1>15. ASSUME NEW a \in Agents, Woken(a) PROVE ControlInv' /\ ReleaseInv'
  BY <1>15 DEF Woken
<1>16. ASSUME NEW a \in Agents, CompleteOp(a) PROVE ControlInv' /\ ReleaseInv'
  <2>1. CASE Goto(a, "free") /\ UNCHANGED agent
    BY <1>16, <2>1 DEF CompleteOp
  <2>2. CASE With(a, "settle", arg[a], "failed")
    BY <1>16, <2>2 DEF CompleteOp, With
  <2>. QED
    BY <1>16, <2>1, <2>2 DEF CompleteOp
<1>17. ASSUME NEW a \in Agents, Settle(a) PROVE ControlInv' /\ ReleaseInv'
  BY <1>17 DEF Settle
<1>18. ASSUME NEW a \in Agents, Free(a) PROVE ControlInv' /\ ReleaseInv'
  BY <1>18 DEF Free
<1>19. ASSUME NEW a \in Agents, OperationEnd(a) PROVE ControlInv' /\ ReleaseInv'
  BY <1>19 DEF OperationEnd, Return
<1>20. ASSUME NEW a \in Agents, StorePhase(a) PROVE ControlInv' /\ ReleaseInv'
  BY <1>20 DEF StorePhase
<1>21. ASSUME NEW a \in Agents, ScheduleControl(a) PROVE ControlInv' /\ ReleaseInv'
  BY <1>21 DEF ScheduleControl
<1>22. ASSUME NEW a \in Agents, ScheduleTail(a) PROVE ControlInv' /\ ReleaseInv'
  BY <1>22 DEF ScheduleTail
<1>23. ASSUME NEW a \in Agents, Retire(a) PROVE ControlInv' /\ ReleaseInv'
  BY <1>23 DEF Retire, Return
<1>24. ASSUME NEW a \in Agents, ShutdownLock(a) PROVE ControlInv' /\ ReleaseInv'
  BY <1>24 DEF ShutdownLock
<1>25. ASSUME NEW a \in Agents, ShutdownPost(a) PROVE ControlInv' /\ ReleaseInv'
  BY <1>25 DEF ShutdownPost
<1>26. ASSUME NEW a \in Agents, ShutdownUnlock(a) PROVE ControlInv' /\ ReleaseInv'
  BY <1>26 DEF ShutdownUnlock, Return
<1>27. ASSUME ControlRun PROVE ControlInv' /\ ReleaseInv'
  BY <1>27 DEF ControlRun
<1>28. ASSUME ControlPop PROVE ControlInv' /\ ReleaseInv'
  <2>. DEFINE o == Head(ready)
  <2>1. o \in Ops
    BY <1>28 DEF ControlPop
  <2>2. CASE With(Control, "complete", o, "ok")
    BY <1>28, <2>1, <2>2 DEF ControlPop, With
  <2>3. CASE UNCHANGED <<pc, agent>>
    BY <1>28, <2>3 DEF ControlPop
  <2>4. CASE With(Control, "settle", o, "failed")
    BY <1>28, <2>1, <2>4 DEF ControlPop, With
  <2>5. CASE With(Control, "announce", o, "ok")
    BY <1>28, <2>1, <2>5 DEF ControlPop, With
  <2>6. CASE With(Control, "call", o, "ok")
    BY <1>28, <2>1, <2>6 DEF ControlPop, With
  <2>. QED
    BY <1>28, <2>2, <2>3, <2>4, <2>5, <2>6 DEF ControlPop
<1>29. ASSUME ControlEmpty PROVE ControlInv' /\ ReleaseInv'
  BY <1>29 DEF ControlEmpty
<1>30. ASSUME ControlCheck PROVE ControlInv' /\ ReleaseInv'
  BY <1>30 DEF ControlCheck
<1>31. ASSUME ControlStop PROVE ControlInv' /\ ReleaseInv'
  BY <1>31 DEF ControlStop
<1>32. ASSUME ControlRouse PROVE ControlInv' /\ ReleaseInv'
  BY <1>32 DEF ControlRouse
<1>33. ASSUME ControlStopped PROVE ControlInv' /\ ReleaseInv'
  BY <1>33 DEF ControlStopped
<1>34. ASSUME ComputeStop PROVE ControlInv' /\ ReleaseInv'
  BY <1>34 DEF ComputeStop
<1>35. ASSUME NEW o \in Ops, ComputeFinish(o) PROVE ControlInv' /\ ReleaseInv'
  <2>1. CASE With(Compute, "complete", o, "ok")
    BY <1>35, <2>1 DEF ComputeFinish, With
  <2>2. CASE With(Compute, "settle", o, "failed")
    BY <1>35, <2>2 DEF ComputeFinish, With
  <2>. QED
    BY <1>35, <2>1, <2>2 DEF ComputeFinish
<1>36. ASSUME NEW o \in Ops, ProactorFinish(o) PROVE ControlInv' /\ ReleaseInv'
  <2>1. CASE With(Proactor, "complete", o, "ok")
    BY <1>36, <2>1 DEF ProactorFinish, With
  <2>2. CASE With(Proactor, "hold", o, "ok")
    BY <1>36, <2>2 DEF ProactorFinish, With
  <2>3. CASE With(Proactor, "settle", o, "failed")
    BY <1>36, <2>3 DEF ProactorFinish, With
  <2>. QED
    BY <1>36, <2>1, <2>2, <2>3 DEF ProactorFinish
<1>37. ASSUME Close PROVE ControlInv' /\ ReleaseInv'
  BY <1>37 DEF Close
<1>38. ASSUME Await PROVE ControlInv' /\ ReleaseInv'
  BY <1>38 DEF Await
<1>39. ASSUME UNCHANGED vars PROVE ControlInv' /\ ReleaseInv'
  BY <1>39 DEF vars, op, life, agent
<1>40. ASSUME SignalFirst PROVE ControlInv' /\ ReleaseInv'
  <2>1. CASE Goto(Control, "call") /\ UNCHANGED agent
    BY <1>40, <2>1 DEF SignalFirst
  <2>2. CASE With(Control, "settle", arg[Control], "failed")
    BY <1>40, <2>2 DEF SignalFirst, With
  <2>. QED
    BY <1>40, <2>1, <2>2 DEF SignalFirst
<1>41. ASSUME HostCall PROVE ControlInv' /\ ReleaseInv'
  <2>1. CASE (Goto(Control, "free") \/ Goto(Control, "complete")) /\ UNCHANGED agent
    BY <1>41, <2>1 DEF HostCall
  <2>2. CASE With(Control, "settle", arg[Control], "failed")
    BY <1>41, <2>2 DEF HostCall, With
  <2>. QED
    BY <1>41, <2>1, <2>2 DEF HostCall, AfterDeferred
<1>. QED
  BY <1>1, <1>2, <1>3, <1>4, <1>5, <1>6, <1>7, <1>8, <1>9, <1>10, <1>11, <1>12, <1>13, <1>14,
     <1>15, <1>16, <1>17, <1>18, <1>19, <1>20, <1>21, <1>22, <1>23, <1>24, <1>25, <1>26, <1>27,
     <1>28, <1>29, <1>30, <1>31, <1>32, <1>33, <1>34, <1>35, <1>36, <1>37, <1>38, <1>39, <1>40,
     <1>41
     DEF Next, Submit, Callbacked, ControlStep, ComputeStep, ProactorStep, Shared

----------------------------------------------------------------------------
(* pending_operation_count.                                                *)

\* The operations and agents that count are finitely many.
LEMMA CountsAreFinite ==
    /\ IsFiniteSet(Live) /\ Cardinality(Live) \in Nat
    /\ IsFiniteSet(References) /\ Cardinality(References) \in Nat
BY AgentsAreFinite, QueueAssumption, FS_Subset, FS_CardinalityType DEF Live, References

\* The count is positive while somebody has a reference, and more than one
\* while two do.
LEMMA CountFacts ==
    ASSUME CountInv
    PROVE  /\ count \in Nat
           /\ \A a \in References : count >= 1
           /\ \A a, b \in References : a # b => count >= 2
           /\ \A o \in Live : count >= 1
           /\ count = 0 => Live = {} /\ References = {}
<1>. USE CountsAreFinite DEF CountInv
<1>1. \A a \in References : Cardinality(References) >= 1
  <2>. TAKE a \in References
  <2>1. Cardinality(References \ {a}) = Cardinality(References) - 1
    BY FS_RemoveElement
  <2>2. Cardinality(References \ {a}) \in Nat
    BY FS_RemoveElement, FS_CardinalityType
  <2>. QED
    BY <2>1, <2>2
<1>2. \A a, b \in References : a # b => Cardinality(References) >= 2
  <2>. SUFFICES ASSUME NEW a \in References, NEW b \in References, a # b
                PROVE Cardinality(References) >= 2
    OBVIOUS
  <2>1. /\ IsFiniteSet(References \ {a}) /\ b \in References \ {a}
        /\ Cardinality(References \ {a}) = Cardinality(References) - 1
    BY FS_RemoveElement
  <2>2. /\ Cardinality((References \ {a}) \ {b}) = Cardinality(References \ {a}) - 1
        /\ IsFiniteSet((References \ {a}) \ {b})
    BY <2>1, FS_RemoveElement
  <2>3. Cardinality((References \ {a}) \ {b}) \in Nat
    BY <2>2, FS_CardinalityType
  <2>. QED
    BY <2>1, <2>2, <2>3
<1>3. \A o \in Live : Cardinality(Live) >= 1
  <2>. TAKE o \in Live
  <2>1. Cardinality(Live \ {o}) = Cardinality(Live) - 1
    BY FS_RemoveElement
  <2>2. Cardinality(Live \ {o}) \in Nat
    BY FS_RemoveElement, FS_CardinalityType
  <2>. QED
    BY <2>1, <2>2
<1>. QED
  BY <1>1, <1>2, <1>3

\* The count follows the references.
LEMMA CountAfterStep ==
    ASSUME TypeOK, ControlInv, CountInv, WaitInv, OwnerInv, [Next]_vars
    PROVE  CountInv' /\ count' \in Nat
<1>. USE DEF Goto, op, life, agent
<1>0. ASSUME UNCHANGED <<Live, References, count>> PROVE CountInv' /\ count' \in Nat
  BY <1>0, CountsAreFinite DEF CountInv
<1>01. /\ pc \in [Agents -> Labels] /\ arg \in [Agents -> Ops \cup {NoOp}]
       /\ memory \in [Ops -> {"none", "live", "freed"}]
  BY DEF TypeOK
<1>1. ASSUME NEW o \in Ops, SubmitBegin(o) PROVE CountInv' /\ count' \in Nat
  <2>1. References' = References
    BY <1>1, <1>01, AgentFacts DEF SubmitBegin, References
  <2>2. Live' = Live \cup {o} /\ o \notin Live
    BY <1>1, <1>01 DEF SubmitBegin, Live, OwnerInv
  <2>3. Cardinality(Live') = Cardinality(Live) + 1
    BY <2>2, CountsAreFinite, FS_AddElement
  <2>. QED
    BY <1>1, <2>1, <2>3, CountsAreFinite DEF SubmitBegin, CountInv
<1>2. ASSUME NEW o \in Ops, SubmitDiscard(o) PROVE CountInv' /\ count' \in Nat
  <2>1. References' = References
    BY <1>2, <1>01, AgentFacts DEF SubmitDiscard, With, References
  <2>. QED
    BY <1>2, <2>1, <1>0 DEF SubmitDiscard, Live
<1>3. ASSUME NEW o \in Ops, SubmitFails(o) PROVE CountInv' /\ count' \in Nat
  <2>1. References' = References
    BY <1>3, <1>01, AgentFacts DEF SubmitFails, With, References
  <2>. QED
    BY <1>3, <2>1, <1>0 DEF SubmitFails, Live
<1>4. ASSUME NEW o \in Ops, SubmitFinish(o) PROVE CountInv' /\ count' \in Nat
  <2>1. References' = References
    BY <1>4, <1>01, AgentFacts DEF SubmitFinish, References
  <2>. QED
    BY <1>4, <2>1, <1>0 DEF SubmitFinish, Live
<1>5. ASSUME NEW o \in Ops, Register(o) PROVE CountInv' /\ count' \in Nat
  <2>1. References' = References
    BY <1>5, <1>01, AgentFacts DEF Register, References, WaitInv, WaitInvOf, Enqueuing
  <2>. QED
    BY <1>5, <2>1, <1>0 DEF Register, Live
<1>6. ASSUME NEW o \in Ops, RegisterFails(o) PROVE CountInv' /\ count' \in Nat
  <2>1. References' = References
    BY <1>6, <1>01, AgentFacts DEF RegisterFails, References
  <2>. QED
    BY <1>6, <2>1, <1>0 DEF RegisterFails, Live
<1>7. ASSUME NEW o \in Ops, Subtract(o) PROVE CountInv' /\ count' \in Nat
  <2>1. References' = References
    BY <1>7, <1>01, AgentFacts DEF Subtract, With, References
  <2>. QED
    BY <1>7, <2>1, <1>0 DEF Subtract, Live
<1>8. ASSUME NEW a \in Callbacks, Resolve(a) PROVE CountInv' /\ count' \in Nat
  <2>1. References' = References
    BY <1>8, <1>01, AgentFacts DEF Resolve, With, References
  <2>. QED
    BY <1>8, <2>1, <1>0 DEF Resolve, Live
<1>9. ASSUME NEW a \in Callbacks, Record(a) PROVE CountInv' /\ count' \in Nat
  <2>1. References' = References
    BY <1>9, <1>01, AgentFacts DEF Record, References
  <2>. QED
    BY <1>9, <2>1, <1>0 DEF Record, Live
<1>10. ASSUME NEW a \in Callbacks, Decrement(a) PROVE CountInv' /\ count' \in Nat
  <2>1. References' = References
    BY <1>10, <1>01, AgentFacts DEF Decrement, References
  <2>. QED
    BY <1>10, <2>1, <1>0 DEF Decrement, Live
<1>11. ASSUME NEW a \in Callbacks, Last(a) PROVE CountInv' /\ count' \in Nat
  <2>1. References' = References
    BY <1>11, <1>01, AgentFacts DEF Last, References
  <2>. QED
    BY <1>11, <2>1, <1>0 DEF Last, Live
<1>12. ASSUME NEW a \in Agents, Hold(a) PROVE CountInv' /\ count' \in Nat
  <2>1. References' = References \cup {a} /\ a \notin References
    BY <1>12, <1>01, AgentFacts DEF Hold, References, ControlInv
  <2>2. Cardinality(References') = Cardinality(References) + 1
    BY <2>1, CountsAreFinite, FS_AddElement
  <2>3. Live' = Live
    BY <1>12 DEF Hold, Live
  <2>. QED
    BY <1>12, <2>2, <2>3, CountsAreFinite DEF Hold, Held, CountInv
<1>13. ASSUME NEW a \in Agents, Push(a) PROVE CountInv' /\ count' \in Nat
  <2>1. References' = References
    BY <1>13, <1>01, AgentFacts DEF Push, References
  <2>. QED
    BY <1>13, <2>1, <1>0 DEF Push, Live
<1>14. ASSUME NEW a \in Agents, Wake(a) PROVE CountInv' /\ count' \in Nat
  <2>1. References' = References
    BY <1>14, <1>01, AgentFacts DEF Wake, References
  <2>. QED
    BY <1>14, <2>1, <1>0 DEF Wake, Live
<1>15. ASSUME NEW a \in Agents, Woken(a) PROVE CountInv' /\ count' \in Nat
  <2>1. References' = References
    BY <1>15, <1>01, AgentFacts DEF Woken, References
  <2>. QED
    BY <1>15, <2>1, <1>0 DEF Woken, Live
<1>16. ASSUME NEW a \in Agents, CompleteOp(a) PROVE CountInv' /\ count' \in Nat
  <2>1. References' = References
    BY <1>16, <1>01, AgentFacts DEF CompleteOp, With, References
  <2>. QED
    BY <1>16, <2>1, <1>0 DEF CompleteOp, Live
<1>17. ASSUME NEW a \in Agents, Settle(a) PROVE CountInv' /\ count' \in Nat
  <2>1. References' = References
    BY <1>17, <1>01, AgentFacts DEF Settle, References
  <2>. QED
    BY <1>17, <2>1, <1>0 DEF Settle, Live
<1>18. ASSUME NEW a \in Agents, Free(a) PROVE CountInv' /\ count' \in Nat
  <2>1. References' = References \cup {a} /\ a \notin References
    BY <1>18, <1>01, AgentFacts DEF Free, References
  <2>2. Cardinality(References') = Cardinality(References) + 1
    BY <2>1, CountsAreFinite, FS_AddElement
  <2>3. Live' = Live \ {arg[a]} /\ arg[a] \in Live
    BY <1>18, <1>01 DEF Free, Live, OwnerInv, OwnerLabels, ControlInv
  <2>4. Cardinality(Live') = Cardinality(Live) - 1
    BY <2>3, CountsAreFinite, FS_RemoveElement
  <2>. QED
    BY <1>18, <2>2, <2>4, CountsAreFinite DEF Free, CountInv
<1>19. ASSUME NEW a \in Agents, OperationEnd(a) PROVE CountInv' /\ count' \in Nat
  <2>1. References' = References \ {a} /\ a \in References
    BY <1>19, <1>01, AgentFacts DEF OperationEnd, Return, References
  <2>2. /\ Cardinality(References') = Cardinality(References) - 1
        /\ Cardinality(References') \in Nat
    BY <2>1, CountsAreFinite, FS_RemoveElement, FS_CardinalityType
  <2>3. Live' = Live
    BY <1>19 DEF OperationEnd, Live
  <2>. QED
    BY <1>19, <2>2, <2>3, CountsAreFinite DEF OperationEnd, CountInv
<1>20. ASSUME NEW a \in Agents, StorePhase(a) PROVE CountInv' /\ count' \in Nat
  <2>1. References' = References
    BY <1>20, <1>01, AgentFacts DEF StorePhase, References
  <2>. QED
    BY <1>20, <2>1, <1>0 DEF StorePhase, Live
<1>21. ASSUME NEW a \in Agents, ScheduleControl(a) PROVE CountInv' /\ count' \in Nat
  <2>1. References' = References
    BY <1>21, <1>01, AgentFacts DEF ScheduleControl, References
  <2>. QED
    BY <1>21, <2>1, <1>0 DEF ScheduleControl, Live
<1>22. ASSUME NEW a \in Agents, ScheduleTail(a) PROVE CountInv' /\ count' \in Nat
  <2>1. References' = References
    BY <1>22, <1>01, AgentFacts DEF ScheduleTail, References
  <2>. QED
    BY <1>22, <2>1, <1>0 DEF ScheduleTail, Live
<1>23. ASSUME NEW a \in Agents, Retire(a) PROVE CountInv' /\ count' \in Nat
  <2>1. References' = References
    BY <1>23, <1>01, AgentFacts DEF Retire, Return, References
  <2>. QED
    BY <1>23, <2>1, <1>0 DEF Retire, Live
<1>24. ASSUME NEW a \in Agents, ShutdownLock(a) PROVE CountInv' /\ count' \in Nat
  <2>1. References' = References
    BY <1>24, <1>01, AgentFacts DEF ShutdownLock, References
  <2>. QED
    BY <1>24, <2>1, <1>0 DEF ShutdownLock, Live
<1>25. ASSUME NEW a \in Agents, ShutdownPost(a) PROVE CountInv' /\ count' \in Nat
  <2>1. References' = References
    BY <1>25, <1>01, AgentFacts DEF ShutdownPost, References
  <2>. QED
    BY <1>25, <2>1, <1>0 DEF ShutdownPost, Live
<1>26. ASSUME NEW a \in Agents, ShutdownUnlock(a) PROVE CountInv' /\ count' \in Nat
  <2>1. References' = References
    BY <1>26, <1>01, AgentFacts DEF ShutdownUnlock, Return, References
  <2>. QED
    BY <1>26, <2>1, <1>0 DEF ShutdownUnlock, Live
<1>27. ASSUME ControlRun PROVE CountInv' /\ count' \in Nat
  <2>1. References' = References
    BY <1>27, <1>01, AgentFacts DEF ControlRun, References
  <2>. QED
    BY <1>27, <2>1, <1>0 DEF ControlRun, Live
<1>28. ASSUME ControlPop PROVE CountInv' /\ count' \in Nat
  <2>1. References' = References
    BY <1>28, <1>01, AgentFacts DEF ControlPop, With, References
  <2>. QED
    BY <1>28, <2>1, <1>0 DEF ControlPop, Live
<1>29. ASSUME ControlEmpty PROVE CountInv' /\ count' \in Nat
  <2>1. References' = References
    BY <1>29, <1>01, AgentFacts DEF ControlEmpty, References
  <2>. QED
    BY <1>29, <2>1, <1>0 DEF ControlEmpty, Live
<1>30. ASSUME ControlCheck PROVE CountInv' /\ count' \in Nat
  <2>1. References' = References
    BY <1>30, <1>01, AgentFacts DEF ControlCheck, References
  <2>. QED
    BY <1>30, <2>1, <1>0 DEF ControlCheck, Live
<1>31. ASSUME ControlStop PROVE CountInv' /\ count' \in Nat
  <2>1. References' = References
    BY <1>31, <1>01, AgentFacts DEF ControlStop, References
  <2>. QED
    BY <1>31, <2>1, <1>0 DEF ControlStop, Live
<1>32. ASSUME ControlRouse PROVE CountInv' /\ count' \in Nat
  <2>1. References' = References
    BY <1>32, <1>01, AgentFacts DEF ControlRouse, References
  <2>. QED
    BY <1>32, <2>1, <1>0 DEF ControlRouse, Live
<1>33. ASSUME ControlStopped PROVE CountInv' /\ count' \in Nat
  <2>1. References' = References
    BY <1>33, <1>01, AgentFacts DEF ControlStopped, References
  <2>. QED
    BY <1>33, <2>1, <1>0 DEF ControlStopped, Live
<1>34. ASSUME ComputeStop PROVE CountInv' /\ count' \in Nat
  <2>1. References' = References
    BY <1>34, <1>01, AgentFacts DEF ComputeStop, References
  <2>. QED
    BY <1>34, <2>1, <1>0 DEF ComputeStop, Live
<1>35. ASSUME NEW o \in Ops, ComputeFinish(o) PROVE CountInv' /\ count' \in Nat
  <2>1. References' = References
    BY <1>35, <1>01, AgentFacts DEF ComputeFinish, With, References
  <2>. QED
    BY <1>35, <2>1, <1>0 DEF ComputeFinish, Live
<1>36. ASSUME NEW o \in Ops, ProactorFinish(o) PROVE CountInv' /\ count' \in Nat
  <2>1. References' = References
    BY <1>36, <1>01, AgentFacts DEF ProactorFinish, With, References
  <2>. QED
    BY <1>36, <2>1, <1>0 DEF ProactorFinish, Live
<1>37. ASSUME Close PROVE CountInv' /\ count' \in Nat
  <2>1. References' = References
    BY <1>37, <1>01, AgentFacts DEF Close, References
  <2>. QED
    BY <1>37, <2>1, <1>0 DEF Close, Live
<1>38. ASSUME Await PROVE CountInv' /\ count' \in Nat
  <2>1. References' = References
    BY <1>38, <1>01, AgentFacts DEF Await, References
  <2>. QED
    BY <1>38, <2>1, <1>0 DEF Await, Live
<1>39. ASSUME UNCHANGED vars PROVE CountInv' /\ count' \in Nat
  BY <1>39, <1>0 DEF vars, Live, References
<1>40. ASSUME SignalFirst PROVE CountInv' /\ count' \in Nat
  <2>1. References' = References
    BY <1>40, <1>01, AgentFacts DEF SignalFirst, With, References
  <2>. QED
    BY <1>40, <2>1, <1>0 DEF SignalFirst, Live
<1>41. ASSUME HostCall PROVE CountInv' /\ count' \in Nat
  <2>1. References' = References
    BY <1>41, <1>01, AgentFacts DEF HostCall, AfterDeferred, With, References
  <2>. QED
    BY <1>41, <2>1, <1>0 DEF HostCall, Live
<1>. QED
  BY <1>1, <1>2, <1>3, <1>4, <1>5, <1>6, <1>7, <1>8, <1>9, <1>10, <1>11, <1>12, <1>13, <1>14,
     <1>15, <1>16, <1>17, <1>18, <1>19, <1>20, <1>21, <1>22, <1>23, <1>24, <1>25, <1>26, <1>27,
     <1>28, <1>29, <1>30, <1>31, <1>32, <1>33, <1>34, <1>35, <1>36, <1>37, <1>38, <1>39, <1>40,
     <1>41
     DEF Next, Submit, Callbacked, ControlStep, ComputeStep, ProactorStep, Shared

----------------------------------------------------------------------------
(* operation->wait_count.                                                  *)

\* The labels before an operation has an owner, and the steps that neither
\* enter, leave nor move between them.
WaitLabels == {"begin", "finish", "register", "subtract",
               "unregistered", "registered", "record", "decrement"}
Quiet ==
    /\ UNCHANGED <<waitCount, left>>
    /\ \A b \in Agents :
          pc'[b] = pc[b] \/ (pc[b] \notin WaitLabels /\ pc'[b] \notin WaitLabels)

\* The steps of submission and of the waits.
WaitStep ==
    \/ \E o \in Ops : Submit(o)
    \/ \E a \in Callbacks : Resolve(a) \/ Record(a) \/ Decrement(a)

\* Every other step is quiet.
LEMMA OthersAreQuiet ==
    ASSUME TypeOK, [Next]_vars, ~WaitStep PROVE Quiet
<1>0. pc \in [Agents -> Labels]
  BY DEF TypeOK
<1>. USE <1>0, AgentFacts DEF Goto, op, life, agent, Quiet, WaitLabels
<1>1. ASSUME NEW a \in Callbacks, Last(a) PROVE Quiet
  BY <1>1 DEF Last
<1>2. ASSUME NEW a \in Agents, Hold(a) PROVE Quiet
  BY <1>2 DEF Hold
<1>3. ASSUME NEW a \in Agents, Push(a) PROVE Quiet
  BY <1>3 DEF Push
<1>4. ASSUME NEW a \in Agents, Wake(a) PROVE Quiet
  BY <1>4 DEF Wake
<1>5. ASSUME NEW a \in Agents, Woken(a) PROVE Quiet
  BY <1>5 DEF Woken
<1>6. ASSUME NEW a \in Agents, CompleteOp(a) PROVE Quiet
  BY <1>6 DEF CompleteOp, With
<1>7. ASSUME NEW a \in Agents, Settle(a) PROVE Quiet
  BY <1>7 DEF Settle
<1>8. ASSUME NEW a \in Agents, Free(a) PROVE Quiet
  BY <1>8 DEF Free
<1>9. ASSUME NEW a \in Agents, OperationEnd(a) PROVE Quiet
  BY <1>9 DEF OperationEnd, Return
<1>10. ASSUME NEW a \in Agents, StorePhase(a) PROVE Quiet
  BY <1>10 DEF StorePhase
<1>11. ASSUME NEW a \in Agents, ScheduleControl(a) PROVE Quiet
  BY <1>11 DEF ScheduleControl
<1>12. ASSUME NEW a \in Agents, ScheduleTail(a) PROVE Quiet
  BY <1>12 DEF ScheduleTail
<1>13. ASSUME NEW a \in Agents, Retire(a) PROVE Quiet
  BY <1>13 DEF Retire, Return
<1>14. ASSUME NEW a \in Agents, ShutdownLock(a) PROVE Quiet
  BY <1>14 DEF ShutdownLock
<1>15. ASSUME NEW a \in Agents, ShutdownPost(a) PROVE Quiet
  BY <1>15 DEF ShutdownPost
<1>16. ASSUME NEW a \in Agents, ShutdownUnlock(a) PROVE Quiet
  BY <1>16 DEF ShutdownUnlock, Return
<1>17. ASSUME ControlRun PROVE Quiet
  BY <1>17 DEF ControlRun
<1>18. ASSUME ControlPop PROVE Quiet
  BY <1>18 DEF ControlPop, With
<1>19. ASSUME ControlEmpty PROVE Quiet
  BY <1>19 DEF ControlEmpty
<1>20. ASSUME ControlCheck PROVE Quiet
  BY <1>20 DEF ControlCheck
<1>21. ASSUME ControlStop PROVE Quiet
  BY <1>21 DEF ControlStop
<1>22. ASSUME ControlRouse PROVE Quiet
  BY <1>22 DEF ControlRouse
<1>23. ASSUME ControlStopped PROVE Quiet
  BY <1>23 DEF ControlStopped
<1>24. ASSUME ComputeStop PROVE Quiet
  BY <1>24 DEF ComputeStop
<1>25. ASSUME NEW o \in Ops, ComputeFinish(o) PROVE Quiet
  BY <1>25 DEF ComputeFinish, With
<1>26. ASSUME NEW o \in Ops, ProactorFinish(o) PROVE Quiet
  BY <1>26 DEF ProactorFinish, With
<1>27. ASSUME Close PROVE Quiet
  BY <1>27 DEF Close
<1>28. ASSUME Await PROVE Quiet
  BY <1>28 DEF Await
<1>29. ASSUME UNCHANGED vars PROVE Quiet
  BY <1>29 DEF vars
<1>30. ASSUME SignalFirst PROVE Quiet
  BY <1>30 DEF SignalFirst, With
<1>31. ASSUME HostCall PROVE Quiet
  BY <1>31 DEF HostCall, AfterDeferred, With
<1>. QED
  BY <1>1, <1>2, <1>3, <1>4, <1>5, <1>6, <1>7, <1>8, <1>9, <1>10, <1>11, <1>12, <1>13, <1>14,
     <1>15, <1>16, <1>17, <1>18, <1>19, <1>20, <1>21, <1>22, <1>23, <1>24, <1>25, <1>26, <1>27,
     <1>28, <1>29, <1>30, <1>31
     DEF Next, Callbacked, ControlStep, ComputeStep, ProactorStep, Shared, WaitStep

\* What a quiet step leaves alone.
LEMMA QuietKeepsWaits ==
    ASSUME Quiet, NEW o \in Ops
    PROVE  /\ Outstanding(o)' = Outstanding(o) /\ Enqueuing(o)' = Enqueuing(o)
           /\ Undecided(o)' = Undecided(o)
           /\ pc'[Submitter(o)] \in {"begin", "finish"} => pc'[Submitter(o)] = pc[Submitter(o)]
           /\ pc[Submitter(o)] \in {"begin", "finish"} => pc'[Submitter(o)] = pc[Submitter(o)]
           /\ \A i \in 1 .. WaitsOf[o] :
                pc[Callback(o, i)] = "unregistered" <=> pc'[Callback(o, i)] = "unregistered"
<1>1. Outstanding(o)' = Outstanding(o)
  BY AgentFacts DEF Quiet, WaitLabels, Outstanding
<1>2. Enqueuing(o)' = Enqueuing(o)
  BY AgentFacts DEF Quiet, WaitLabels, Enqueuing
<1>3. /\ pc'[Submitter(o)] \in {"begin", "finish"} => pc'[Submitter(o)] = pc[Submitter(o)]
      /\ pc[Submitter(o)] \in {"begin", "finish"} => pc'[Submitter(o)] = pc[Submitter(o)]
  BY AgentFacts DEF Quiet, WaitLabels
<1>4. \A i \in 1 .. WaitsOf[o] :
        pc[Callback(o, i)] = "unregistered" <=> pc'[Callback(o, i)] = "unregistered"
  BY AgentFacts DEF Quiet, WaitLabels
<1>. QED
  BY <1>1, <1>2, <1>3, <1>4 DEF Undecided

\* A step of another operation's agents.
LEMMA OtherOperation ==
    ASSUME NEW p \in Ops, UNCHANGED pc[Submitter(p)],
           \A i \in 1 .. WaitsOf[p] : UNCHANGED pc[Callback(p, i)]
    PROVE  /\ Outstanding(p)' = Outstanding(p) /\ Enqueuing(p)' = Enqueuing(p)
           /\ Undecided(p)' = Undecided(p)
           /\ UNCHANGED <<waitCount[p], left[p]>> /\ WaitInvOf(p) => WaitInvOf(p)'
<1>1. Outstanding(p)' = Outstanding(p)
  BY DEF Outstanding
<1>2. Enqueuing(p)' = Enqueuing(p)
  BY DEF Enqueuing
<1>3. Undecided(p)' = Undecided(p)
  BY <1>1, <1>2 DEF Undecided
<1>4. ASSUME UNCHANGED <<waitCount[p], left[p]>>, WaitInvOf(p) PROVE WaitInvOf(p)'
  <2>1. \A i \in 1 .. left[p] : Enqueuing(p) => i \in 1 .. WaitsOf[p]
    BY <1>4, QueueAssumption DEF WaitInvOf
  <2>2. /\ pc'[Submitter(p)] = pc[Submitter(p)] /\ left'[p] = left[p]
        /\ waitCount'[p] = waitCount[p]
        /\ \A i \in 1 .. WaitsOf[p] : pc'[Callback(p, i)] = pc[Callback(p, i)]
    BY <1>4
  <2>. QED
    BY <1>1, <1>2, <1>4, <2>1, <2>2 DEF WaitInvOf
<1>. QED
  BY <1>1, <1>2, <1>3, <1>4

\* The outstanding waits are finitely many.
LEMMA OutstandingIsFinite ==
    ASSUME NEW o \in Ops
    PROVE  /\ IsFiniteSet(Outstanding(o)) /\ Cardinality(Outstanding(o)) \in Nat
           /\ Cardinality(Outstanding(o)) = 0 <=> Outstanding(o) = {}
BY AgentsAreFinite, FS_Subset, FS_CardinalityType, FS_EmptySet DEF Outstanding

\* wait_count is what is still missing: a submitter that registers, a wait
\* that fires early and one that fires during the roll-back all leave it right.
LEMMA WaitAfterStep ==
    ASSUME TypeOK, WaitInv, [Next]_vars PROVE WaitInv'
<1>0. /\ pc \in [Agents -> Labels] /\ left \in [Ops -> Nat] /\ waitCount \in [Ops -> Int]
      /\ WaitsOf \in [Ops -> Nat]
  BY QueueAssumption DEF TypeOK
<1>1. ASSUME NEW o \in Ops, WaitInvOf(o)',
             \A p \in Ops \ {o} :
                /\ UNCHANGED <<pc[Submitter(p)], waitCount[p], left[p]>>
                /\ \A i \in 1 .. WaitsOf[p] : UNCHANGED pc[Callback(p, i)]
      PROVE  WaitInv'
  BY <1>1, OtherOperation DEF WaitInv
<1>. USE <1>0
<1>2. ASSUME NEW o \in Ops, SubmitBegin(o) \/ SubmitDiscard(o) \/ SubmitFails(o) PROVE WaitInv'
  <2>1. /\ pc[Submitter(o)] \in {"begin", "finish"}
        /\ pc'[Submitter(o)] \in {"finish", "free", "settle"}
        /\ \A b \in Agents : b # Submitter(o) => pc'[b] = pc[b]
        /\ UNCHANGED <<waitCount, left>>
    BY <1>2, AgentFacts DEF SubmitBegin, SubmitDiscard, SubmitFails, With, Goto, op
  <2>2. \A i \in 1 .. WaitsOf[o] : pc'[Callback(o, i)] = "unregistered"
    BY <2>1, AgentFacts DEF WaitInv, WaitInvOf
  <2>3. WaitInvOf(o)'
    BY <2>1, <2>2 DEF WaitInvOf, Outstanding, Enqueuing
  <2>. QED
    BY <1>1, <2>1, <2>3, AgentFacts
<1>3. ASSUME NEW o \in Ops, SubmitFinish(o) PROVE WaitInv'
  <2>1. PICK n \in 0 .. WaitsOf[o] :
          /\ waitCount' = [waitCount EXCEPT ![o] = n] /\ left' = [left EXCEPT ![o] = n]
          /\ pc' = [pc EXCEPT ![Submitter(o)] = IF n = 0 THEN "push" ELSE "register"]
    BY <1>3 DEF SubmitFinish, Stored, Goto
  <2>2. \A i \in 1 .. WaitsOf[o] : pc'[Callback(o, i)] = "unregistered"
    BY <1>3, <2>1, AgentFacts DEF WaitInv, WaitInvOf, SubmitFinish
  <2>3. Outstanding(o)' = {}
    BY <2>2 DEF Outstanding
  <2>4. WaitInvOf(o)'
    <3>1. Cardinality(Outstanding(o)') = 0
      BY <2>3, FS_EmptySet
    <3>2. /\ waitCount'[o] = n /\ left'[o] = n
          /\ pc'[Submitter(o)] = (IF n = 0 THEN "push" ELSE "register")
      BY <2>1, AgentFacts
    <3>. QED
      BY <2>2, <2>3, <3>1, <3>2 DEF WaitInvOf, Enqueuing
  <2>. QED
    BY <1>1, <2>1, <2>4, AgentFacts
<1>4. ASSUME NEW o \in Ops, Register(o) PROVE WaitInv'
  <2>. DEFINE c == Callback(o, left[o])
  <2>1. /\ left[o] \in 1 .. WaitsOf[o] /\ pc[c] = "unregistered"
        /\ waitCount[o] = left[o] + Cardinality(Outstanding(o))
    BY <1>4 DEF Register, WaitInv, WaitInvOf, Enqueuing
  <2>2. c \in Callbacks /\ c \in Agents /\ c # Submitter(o) /\ c[2] = o
    BY <2>1, AgentFacts
  <2>3. /\ pc'[Submitter(o)] = (IF left[o] = 1 THEN "done" ELSE "register")
        /\ pc'[c] = "registered"
        /\ \A b \in Agents : b # Submitter(o) /\ b # c => pc'[b] = pc[b]
    BY <1>4, <2>2, AgentFacts DEF Register
  <2>4. Outstanding(o)' = Outstanding(o) \cup {left[o]} /\ left[o] \notin Outstanding(o)
    BY <2>1, <2>3, AgentFacts DEF Outstanding
  <2>5. Cardinality(Outstanding(o)') = Cardinality(Outstanding(o)) + 1
    BY <2>4, OutstandingIsFinite, FS_AddElement
  <2>6. waitCount' = waitCount /\ left' = [left EXCEPT ![o] = @ - 1]
    BY <1>4 DEF Register
  <2>7. \A i \in 1 .. left[o] - 1 : pc'[Callback(o, i)] = "unregistered"
    <3>. SUFFICES ASSUME NEW i \in 1 .. left[o] - 1 PROVE pc'[Callback(o, i)] = "unregistered"
      OBVIOUS
    <3>1. i \in 1 .. left[o] /\ i \in 1 .. WaitsOf[o] /\ i # left[o]
      BY <2>1
    <3>2. pc[Callback(o, i)] = "unregistered"
      BY <1>4, <3>1 DEF Register, WaitInv, WaitInvOf, Enqueuing
    <3>3. Callback(o, i) # c /\ Callback(o, i) # Submitter(o) /\ Callback(o, i) \in Agents
      BY <2>1, <3>1, AgentFacts
    <3>. QED
      BY <2>3, <3>2, <3>3
  <2>8. WaitInvOf(o)'
    BY <2>1, <2>3, <2>5, <2>6, <2>7, OutstandingIsFinite DEF WaitInvOf, Enqueuing
  <2>9. ASSUME NEW p \in Ops \ {o}
        PROVE  /\ UNCHANGED <<pc[Submitter(p)], waitCount[p], left[p]>>
               /\ \A i \in 1 .. WaitsOf[p] : UNCHANGED pc[Callback(p, i)]
    BY <2>2, <2>3, <2>6, AgentFacts
  <2>. QED
    BY <1>1, <2>8, <2>9
<1>5. ASSUME NEW o \in Ops, RegisterFails(o) PROVE WaitInv'
  <2>1. /\ pc[Submitter(o)] = "register" /\ pc'[Submitter(o)] = "subtract"
        /\ \A b \in Agents : b # Submitter(o) => pc'[b] = pc[b]
        /\ UNCHANGED <<waitCount, left>>
    BY <1>5, AgentFacts DEF RegisterFails, Goto
  <2>2. Outstanding(o)' = Outstanding(o)
    BY <2>1, AgentFacts DEF Outstanding
  <2>3. \A i \in 1 .. WaitsOf[o] : pc'[Callback(o, i)] = pc[Callback(o, i)]
    BY <2>1, AgentFacts
  <2>4. WaitInvOf(o)'
    BY <2>1, <2>2, <2>3 DEF WaitInv, WaitInvOf, Enqueuing
  <2>. QED
    BY <1>1, <2>1, <2>4, AgentFacts
<1>6. ASSUME NEW o \in Ops, Subtract(o) PROVE WaitInv'
  <2>1. /\ pc[Submitter(o)] = "subtract" /\ pc'[Submitter(o)] \in {"settle", "done"}
        /\ \A b \in Agents : b # Submitter(o) => pc'[b] = pc[b]
        /\ waitCount' = [waitCount EXCEPT ![o] = @ - left[o]] /\ left' = left
    BY <1>6, AgentFacts DEF Subtract, With, Goto
  <2>2. Outstanding(o)' = Outstanding(o)
    BY <2>1, AgentFacts DEF Outstanding
  <2>3. waitCount[o] = left[o] + Cardinality(Outstanding(o))
    BY <2>1 DEF WaitInv, WaitInvOf, Enqueuing
  <2>4. WaitInvOf(o)'
    BY <2>1, <2>2, <2>3, OutstandingIsFinite DEF WaitInvOf, Enqueuing
  <2>. QED
    BY <1>1, <2>1, <2>4, AgentFacts
<1>7. ASSUME NEW a \in Callbacks, Resolve(a) \/ Record(a) PROVE WaitInv'
  <2>. DEFINE o == a[2]
  <2>1. /\ pc[a] \in {"registered", "record"} /\ pc'[a] \in {"record", "decrement"}
        /\ \A b \in Agents : b # a => pc'[b] = pc[b]
        /\ UNCHANGED <<waitCount, left>>
    BY <1>7, AgentFacts DEF Resolve, Record, With, Goto, op
  <2>2. o \in Ops /\ a # Submitter(o) /\ Submitter(o) \in Agents
    BY AgentFacts
  <2>3. Outstanding(o)' = Outstanding(o)
    BY <2>1, AgentFacts DEF Outstanding
  <2>4. \A i \in 1 .. WaitsOf[o] :
          pc[Callback(o, i)] = "unregistered" => pc'[Callback(o, i)] = "unregistered"
    BY <2>1, AgentFacts
  <2>5. WaitInvOf(o)
    BY <2>2 DEF WaitInv
  <2>6. pc'[Submitter(o)] = pc[Submitter(o)]
    BY <2>1, <2>2
  <2>7. \A i \in 1 .. left[o] :
          Enqueuing(o) => i \in 1 .. WaitsOf[o]
    BY <2>2, <2>5 DEF WaitInvOf
  <2>. HIDE DEF o
  <2>8. WaitInvOf(o)'
    BY <2>1, <2>3, <2>4, <2>5, <2>6, <2>7 DEF WaitInvOf, Enqueuing
  <2>. QED
    BY <1>1, <2>1, <2>2, <2>8, AgentFacts DEF o
<1>8. ASSUME NEW a \in Callbacks, Decrement(a) PROVE WaitInv'
  <2>. DEFINE o == a[2]
              i == a[3]
  <2>1. /\ pc[a] = "decrement" /\ pc'[a] \in {"last", "done"}
        /\ \A b \in Agents : b # a => pc'[b] = pc[b]
        /\ waitCount' = [waitCount EXCEPT ![o] = @ - 1] /\ left' = left
    BY <1>8, AgentFacts DEF Decrement, Goto
  <2>2. /\ o \in Ops /\ i \in 1 .. WaitsOf[o] /\ a = Callback(o, i)
        /\ a # Submitter(o) /\ Submitter(o) \in Agents
    BY AgentFacts
  <2>3. Outstanding(o)' = Outstanding(o) \ {i} /\ i \in Outstanding(o)
    BY <2>1, <2>2, AgentFacts DEF Outstanding
  <2>4. Cardinality(Outstanding(o)') = Cardinality(Outstanding(o)) - 1
    <3>1. IsFiniteSet(Outstanding(o))
      BY <2>2, OutstandingIsFinite
    <3>. HIDE DEF o, i
    <3>. QED
      BY <2>3, <3>1, FS_RemoveElement
  <2>5. WaitInvOf(o)
    BY <2>2 DEF WaitInv
  <2>6. \A j \in 1 .. WaitsOf[o] :
          pc[Callback(o, j)] = "unregistered" => pc'[Callback(o, j)] = "unregistered"
    BY <2>1, AgentFacts
  <2>7. pc'[Submitter(o)] = pc[Submitter(o)]
    BY <2>1, <2>2
  <2>8. \A j \in 1 .. left[o] : Enqueuing(o) => j \in 1 .. WaitsOf[o]
    BY <2>2, <2>5 DEF WaitInvOf
  <2>9. waitCount'[o] = waitCount[o] - 1
    BY <2>1, <2>2
  <2>. HIDE DEF o, i
  <2>10. WaitInvOf(o)'
    BY <2>1, <2>2, <2>3, <2>4, <2>5, <2>6, <2>7, <2>8, <2>9, OutstandingIsFinite
       DEF WaitInvOf, Enqueuing
  <2>. QED
    BY <1>1, <2>1, <2>2, <2>10, AgentFacts DEF o
<1>9. ASSUME Quiet PROVE WaitInv'
  <2>. SUFFICES ASSUME NEW o \in Ops PROVE WaitInvOf(o)'
    BY DEF WaitInv
  <2>1. WaitInvOf(o) /\ \A j \in 1 .. left[o] : Enqueuing(o) => j \in 1 .. WaitsOf[o]
    BY DEF WaitInv, WaitInvOf
  <2>. QED
    BY <1>9, <2>1, QuietKeepsWaits DEF Quiet, WaitInvOf
<1>. QED
  BY <1>2, <1>3, <1>4, <1>5, <1>6, <1>7, <1>8, <1>9, OthersAreQuiet DEF WaitStep, Submit

----------------------------------------------------------------------------
(* Ownership of operations.                                                *)

\* When the count of a registered wait is the last one, the submitter is done
\* and no other wait is outstanding; when the unregistered waits are all that
\* is left, none is.
LEMMA LastOutstanding ==
    ASSUME TypeOK, WaitInv, NEW o \in Ops
    PROVE  /\ \A i \in Outstanding(o) :
                waitCount[o] = 1 => Outstanding(o) = {i} /\ ~Enqueuing(o)
           /\ Enqueuing(o) /\ waitCount[o] = left[o] => Outstanding(o) = {}
           /\ Outstanding(o) # {} => pc[Submitter(o)] \notin {"begin", "finish"}
<1>. USE OutstandingIsFinite
<1>0. left[o] \in Nat /\ WaitInvOf(o)
  BY DEF TypeOK, WaitInv
<1>1. ASSUME NEW i \in Outstanding(o), waitCount[o] = 1
      PROVE  Outstanding(o) = {i} /\ ~Enqueuing(o)
  <2>1. Cardinality(Outstanding(o)) >= 1
    BY <1>1
  <2>2. ~Enqueuing(o) /\ Cardinality(Outstanding(o)) = 1
    BY <1>0, <1>1, <2>1, QueueAssumption DEF WaitInvOf
  <2>3. PICK x : Outstanding(o) = {x}
    BY <2>2, FS_Singleton
  <2>. QED
    BY <2>2, <2>3
<1>2. ASSUME Enqueuing(o), waitCount[o] = left[o] PROVE Outstanding(o) = {}
  BY <1>0, <1>2 DEF WaitInvOf
<1>3. Outstanding(o) # {} => pc[Submitter(o)] \notin {"begin", "finish"}
  BY <1>0 DEF WaitInvOf, Outstanding
<1>. QED
  BY <1>1, <1>2, <1>3

\* Nobody gains an operation.
OwnerFrame ==
    /\ UNCHANGED <<memory, ready, issued>>
    /\ \A o \in Ops : /\ pc'[Submitter(o)] = "begin" <=> pc[Submitter(o)] = "begin"
                      /\ Undecided(o)' => Undecided(o)
    /\ \A b \in Agents :
          pc'[b] \in OwnerLabels => pc[b] \in OwnerLabels /\ arg'[b] = arg[b]

LEMMA FrameKeepsOwners ==
    ASSUME OwnerInv, OwnerFrame, \A b \in Agents : pc[b] \in OwnerLabels => arg[b] \in Ops
    PROVE  OwnerInv'
<1>1. \A o \in Ops : IsReady(o)' <=> IsReady(o)
  BY DEF IsReady, OwnerFrame
<1>. QED
  BY <1>1 DEF OwnerInv, OwnerFrame

\* Agent a takes operation o, which nobody else has.
Takes(a, o) ==
    /\ pc'[a] \in OwnerLabels /\ arg'[a] = o /\ memory[o] = "live"
    /\ \A b \in Agents : b # a => pc'[b] = pc[b] /\ arg'[b] = arg[b]
    /\ \A b \in Agents : b # a => ~Owns(b, o)
    /\ ~IsReady(o)' /\ o \notin issued' /\ ~Undecided(o)'
    /\ \A p \in Ops : /\ p # o => Undecided(p)' = Undecided(p)
                      /\ p # o => (IsReady(p)' <=> IsReady(p))
                      /\ p # o => (p \in issued' <=> p \in issued)
                      /\ pc'[Submitter(p)] = "begin" <=> pc[Submitter(p)] = "begin"
    /\ UNCHANGED memory

LEMMA TakingKeepsOwners ==
    ASSUME OwnerInv, NEW a \in Agents, NEW o \in Ops, Takes(a, o),
           \A b \in Agents : pc[b] \in OwnerLabels => arg[b] \in Ops,
           (\A j, k \in 1 .. Len(ready) : ready[j] = ready[k] => j = k)'
    PROVE  OwnerInv'
<1>1. (\A p \in Ops : /\ memory[p] = "none" <=> pc[Submitter(p)] = "begin"
                      /\ Undecided(p) => memory[p] = "live" /\ ~IsReady(p) /\ p \notin issued
                      /\ IsReady(p) => memory[p] = "live" /\ p \notin issued
                      /\ p \in issued => memory[p] = "live")'
  BY DEF OwnerInv, Takes
<1>2. (\A b \in Agents : pc[b] \in OwnerLabels =>
          /\ memory[arg[b]] = "live" /\ ~Undecided(arg[b])
          /\ ~IsReady(arg[b]) /\ arg[b] \notin issued)'
  <2>. SUFFICES ASSUME NEW b \in Agents, pc'[b] \in OwnerLabels
                PROVE  (/\ memory[arg[b]] = "live" /\ ~Undecided(arg[b])
                        /\ ~IsReady(arg[b]) /\ arg[b] \notin issued)'
    OBVIOUS
  <2>1. CASE b = a
    BY <2>1 DEF Takes
  <2>2. CASE b # a
    <3>. DEFINE p == arg[b]
    <3>1. pc[b] \in OwnerLabels /\ arg'[b] = p /\ p \in Ops /\ p # o
      BY <2>2 DEF Takes, Owns
    <3>2. memory[p] = "live" /\ ~Undecided(p) /\ ~IsReady(p) /\ p \notin issued
      BY <3>1 DEF OwnerInv
    <3>. HIDE DEF p
    <3>. QED
      BY <3>1, <3>2 DEF Takes
  <2>. QED
    BY <2>1, <2>2
<1>3. (\A b, c \in Agents :
          pc[b] \in OwnerLabels /\ pc[c] \in OwnerLabels /\ arg[b] = arg[c] => b = c)'
  BY DEF OwnerInv, Takes, Owns
<1>. QED
  BY <1>1, <1>2, <1>3 DEF OwnerInv

\* The only agent that moves, and the operations it leaves alone.
LEMMA OnlyOneMoves ==
    ASSUME NEW a \in Agents, NEW o \in Ops, \A b \in Agents : b # a => pc'[b] = pc[b],
           a[1] \in {"submit", "wait"} => a[2] = o
    PROVE  \A p \in Ops : p # o =>
             /\ Undecided(p)' = Undecided(p)
             /\ pc'[Submitter(p)] = pc[Submitter(p)]
             /\ \A i \in 1 .. WaitsOf[p] : pc'[Callback(p, i)] = pc[Callback(p, i)]
<1>. SUFFICES ASSUME NEW p \in Ops, p # o
              PROVE  /\ Undecided(p)' = Undecided(p)
                     /\ pc'[Submitter(p)] = pc[Submitter(p)]
                     /\ \A i \in 1 .. WaitsOf[p] : pc'[Callback(p, i)] = pc[Callback(p, i)]
  OBVIOUS
<1>1. pc'[Submitter(p)] = pc[Submitter(p)]
  BY AgentFacts
<1>2. \A i \in 1 .. WaitsOf[p] : pc'[Callback(p, i)] = pc[Callback(p, i)]
  BY AgentFacts
<1>. QED
  BY <1>1, <1>2, OtherOperation

\* An undecided operation has no owner.
LEMMA UndecidedIsUnowned ==
    ASSUME OwnerInv, NEW o \in Ops, Undecided(o)
    PROVE  /\ memory[o] = "live" /\ ~IsReady(o) /\ o \notin issued
           /\ \A b \in Agents : ~Owns(b, o)
BY DEF OwnerInv, Owns

\* An operation has one owner at a time, from the end of its waits until its
\* arena is freed.
LEMMA OwnersAfterStep ==
    ASSUME TypeOK, ControlInv, WaitInv, OwnerInv, [Next]_vars PROVE OwnerInv'
<1>0. /\ pc \in [Agents -> Labels] /\ arg \in [Agents -> Ops \cup {NoOp}]
      /\ status \in [Agents -> {"ok", "failed", "discarded"}]
      /\ memory \in [Ops -> {"none", "live", "freed"}]
      /\ ready \in Seq(Ops) /\ issued \subseteq Ops
  BY DEF TypeOK
<1>01. /\ \A b \in Agents : pc[b] \in OwnerLabels => arg[b] \in Ops
       /\ \A o \in Ops : arg[Submitter(o)] = o
       /\ \A c \in Callbacks : arg[c] = c[2]
  BY DEF ControlInv
<1>02. \A j, k \in 1 .. Len(ready) : ready[j] = ready[k] => j = k
  BY DEF OwnerInv
<1>03. ASSUME UNCHANGED ready
       PROVE  /\ \A o \in Ops : IsReady(o)' <=> IsReady(o)
              /\ (\A j, k \in 1 .. Len(ready) : ready[j] = ready[k] => j = k)'
  BY <1>02, <1>03 DEF IsReady
<1>1. ASSUME NEW o \in Ops, SubmitBegin(o) PROVE OwnerInv'
  <2>1. /\ memory[o] = "none" /\ memory' = [memory EXCEPT ![o] = "live"]
        /\ pc[Submitter(o)] = "begin" /\ pc'[Submitter(o)] = "finish"
        /\ \A b \in Agents : b # Submitter(o) => pc'[b] = pc[b]
        /\ UNCHANGED <<arg, ready, issued>>
    BY <1>0, <1>1, AgentFacts DEF SubmitBegin, Goto, OwnerInv, agent
  <2>2. \A p \in Ops : p # o => Undecided(p)' = Undecided(p) /\ pc'[Submitter(p)] = pc[Submitter(p)]
    BY <2>1, OnlyOneMoves, AgentFacts
  <2>3. ~IsReady(o) /\ o \notin issued /\ \A b \in Agents : ~Owns(b, o)
    BY <2>1 DEF OwnerInv, Owns
  <2>4. (\A p \in Ops : /\ memory[p] = "none" <=> pc[Submitter(p)] = "begin"
                        /\ Undecided(p) => memory[p] = "live" /\ ~IsReady(p) /\ p \notin issued
                        /\ IsReady(p) => memory[p] = "live" /\ p \notin issued
                        /\ p \in issued => memory[p] = "live")'
    BY <1>0, <1>03, <2>1, <2>2, <2>3 DEF OwnerInv
  <2>5. \A b \in Agents : pc'[b] \in OwnerLabels => pc[b] \in OwnerLabels /\ arg[b] # o
    BY <2>1, <2>3 DEF OwnerLabels, Owns
  <2>. QED
    BY <1>0, <1>01, <1>03, <2>1, <2>2, <2>4, <2>5 DEF OwnerInv
<1>2. ASSUME NEW o \in Ops, SubmitDiscard(o) \/ SubmitFails(o) PROVE OwnerInv'
  <2>1. /\ pc[Submitter(o)] = "finish" /\ pc'[Submitter(o)] \in {"free", "settle"}
        /\ arg'[Submitter(o)] = o
        /\ \A b \in Agents : b # Submitter(o) => pc'[b] = pc[b] /\ arg'[b] = arg[b]
        /\ UNCHANGED <<memory, ready, issued>>
    BY <1>0, <1>2, AgentFacts DEF SubmitDiscard, SubmitFails, With, Goto, op
  <2>2. Undecided(o) /\ Outstanding(o) = {}
    BY <2>1, LastOutstanding DEF Undecided
  <2>3. Outstanding(o)' = Outstanding(o)
    BY <2>1, AgentFacts DEF Outstanding
  <2>4. ~Undecided(o)'
    BY <2>1, <2>2, <2>3 DEF Undecided, Enqueuing
  <2>5. Takes(Submitter(o), o)
    BY <1>03, <2>1, <2>2, <2>4, UndecidedIsUnowned, OnlyOneMoves, AgentFacts
       DEF Takes, OwnerLabels
  <2>. QED
    BY <1>01, <1>03, <2>1, <2>5, TakingKeepsOwners, AgentFacts
<1>3. ASSUME NEW o \in Ops, SubmitFinish(o) PROVE OwnerInv'
  <2>1. /\ pc[Submitter(o)] = "finish" /\ pc'[Submitter(o)] \in {"push", "register"}
        /\ \A b \in Agents : b # Submitter(o) => pc'[b] = pc[b]
        /\ UNCHANGED <<memory, ready, issued, arg>>
    BY <1>0, <1>3, AgentFacts DEF SubmitFinish, Goto, agent
  <2>2. Undecided(o) /\ Outstanding(o) = {}
    BY <2>1, LastOutstanding DEF Undecided
  <2>3. Outstanding(o)' = Outstanding(o)
    BY <2>1, AgentFacts DEF Outstanding
  <2>4. CASE pc'[Submitter(o)] = "push"
    <3>1. ~Undecided(o)'
      BY <2>2, <2>3, <2>4 DEF Undecided, Enqueuing
    <3>2. Takes(Submitter(o), o)
      BY <1>01, <1>03, <2>1, <2>2, <2>4, <3>1, UndecidedIsUnowned, OnlyOneMoves, AgentFacts
         DEF Takes, OwnerLabels
    <3>. QED
      BY <1>01, <1>03, <2>1, <3>2, TakingKeepsOwners, AgentFacts
  <2>5. CASE pc'[Submitter(o)] = "register"
    <3>1. OwnerFrame
      BY <1>0, <2>1, <2>2, <2>5, OnlyOneMoves, AgentFacts DEF OwnerFrame, OwnerLabels
    <3>. QED
      BY <1>01, <3>1, FrameKeepsOwners
  <2>. QED
    BY <2>1, <2>4, <2>5
<1>4. ASSUME NEW o \in Ops, Register(o) PROVE OwnerInv'
  <2>. DEFINE c == Callback(o, left[o])
  <2>1. left[o] \in 1 .. WaitsOf[o] /\ pc[Submitter(o)] = "register"
    BY <1>4 DEF Register, WaitInv, WaitInvOf, Enqueuing
  <2>2. c \in Callbacks /\ c \in Agents /\ c # Submitter(o) /\ c[2] = o
    BY <2>1, AgentFacts
  <2>3. /\ pc'[Submitter(o)] \in {"done", "register"} /\ pc'[c] = "registered"
        /\ \A b \in Agents : b # Submitter(o) /\ b # c => pc'[b] = pc[b]
        /\ UNCHANGED <<arg, memory, ready, issued>>
    BY <1>0, <1>4, <2>2, AgentFacts DEF Register, agent
  <2>4. \A p \in Ops : p # o =>
          /\ pc'[Submitter(p)] = pc[Submitter(p)]
          /\ \A i \in 1 .. WaitsOf[p] : pc'[Callback(p, i)] = pc[Callback(p, i)]
    BY <2>2, <2>3, AgentFacts
  <2>5. \A p \in Ops : p # o => Undecided(p)' = Undecided(p)
    BY <2>4, OtherOperation
  <2>6. Undecided(o)
    BY <2>1 DEF Undecided, Enqueuing
  <2>. HIDE DEF c
  <2>7. OwnerFrame
    <3>1. \A p \in Ops : /\ pc'[Submitter(p)] = "begin" <=> pc[Submitter(p)] = "begin"
                         /\ Undecided(p)' => Undecided(p)
      BY <2>1, <2>3, <2>4, <2>5, <2>6
    <3>2. \A b \in Agents : pc'[b] \in OwnerLabels => pc[b] \in OwnerLabels /\ arg'[b] = arg[b]
      BY <2>3 DEF OwnerLabels
    <3>. QED
      BY <2>3, <3>1, <3>2 DEF OwnerFrame
  <2>. QED
    BY <1>01, <2>7, FrameKeepsOwners
<1>5. ASSUME NEW o \in Ops, RegisterFails(o) PROVE OwnerInv'
  <2>1. /\ pc[Submitter(o)] = "register" /\ pc'[Submitter(o)] = "subtract"
        /\ \A b \in Agents : b # Submitter(o) => pc'[b] = pc[b]
        /\ UNCHANGED <<memory, ready, issued, arg>>
    BY <1>0, <1>5, AgentFacts DEF RegisterFails, Goto, agent
  <2>2. Undecided(o)
    BY <2>1 DEF Undecided, Enqueuing
  <2>3. OwnerFrame
    BY <2>1, <2>2, OnlyOneMoves, AgentFacts DEF OwnerFrame, OwnerLabels
  <2>. QED
    BY <1>01, <2>3, FrameKeepsOwners
<1>6. ASSUME NEW o \in Ops, Subtract(o) PROVE OwnerInv'
  <2>1. /\ pc[Submitter(o)] = "subtract" /\ pc'[Submitter(o)] \in {"settle", "done"}
        /\ pc'[Submitter(o)] = "settle" => waitCount[o] = left[o]
        /\ arg'[Submitter(o)] = o
        /\ \A b \in Agents : b # Submitter(o) => pc'[b] = pc[b] /\ arg'[b] = arg[b]
        /\ UNCHANGED <<memory, ready, issued>>
    BY <1>0, <1>01, <1>6, AgentFacts DEF Subtract, AllFired, With, Goto, agent
  <2>2. Undecided(o)
    BY <2>1 DEF Undecided, Enqueuing
  <2>3. Outstanding(o)' = Outstanding(o)
    BY <2>1, AgentFacts DEF Outstanding
  <2>4. CASE pc'[Submitter(o)] = "settle"
    <3>1. Outstanding(o) = {}
      BY <2>1, <2>4, LastOutstanding DEF Enqueuing
    <3>2. ~Undecided(o)'
      BY <2>3, <2>4, <3>1 DEF Undecided, Enqueuing
    <3>3. Takes(Submitter(o), o)
      BY <1>03, <2>1, <2>2, <2>4, <3>2, UndecidedIsUnowned, OnlyOneMoves, AgentFacts
         DEF Takes, OwnerLabels
    <3>. QED
      BY <1>01, <1>03, <2>1, <3>3, TakingKeepsOwners, AgentFacts
  <2>5. CASE pc'[Submitter(o)] = "done"
    <3>1. OwnerFrame
      BY <2>1, <2>2, <2>5, OnlyOneMoves, AgentFacts DEF OwnerFrame, OwnerLabels
    <3>. QED
      BY <1>01, <3>1, FrameKeepsOwners
  <2>. QED
    BY <2>1, <2>4, <2>5
<1>7. ASSUME NEW a \in Callbacks, Resolve(a) \/ Record(a) PROVE OwnerInv'
  <2>1. /\ pc[a] \in {"registered", "record"} /\ pc'[a] \in {"record", "decrement"}
        /\ \A b \in Agents : b # a => pc'[b] = pc[b]
        /\ UNCHANGED <<memory, ready, issued>>
        /\ \A b \in Agents : arg'[b] = arg[b]
    BY <1>0, <1>01, <1>7, AgentFacts DEF Resolve, Record, With, Goto, op, agent
  <2>2. a[2] \in Ops /\ a[3] \in Outstanding(a[2])
    BY <2>1, AgentFacts DEF Outstanding
  <2>3. Undecided(a[2])
    BY <2>2 DEF Undecided
  <2>4. OwnerFrame
    BY <2>1, <2>2, <2>3, OnlyOneMoves, AgentFacts DEF OwnerFrame, OwnerLabels
  <2>. QED
    BY <1>01, <2>4, FrameKeepsOwners
<1>8. ASSUME NEW a \in Callbacks, Decrement(a) PROVE OwnerInv'
  <2>. DEFINE o == a[2]
              i == a[3]
  <2>1. /\ pc[a] = "decrement" /\ pc'[a] \in {"last", "done"}
        /\ pc'[a] = "last" => waitCount[o] = 1
        /\ \A b \in Agents : b # a => pc'[b] = pc[b]
        /\ UNCHANGED <<memory, ready, issued, arg>> /\ arg[a] = o
    BY <1>0, <1>01, <1>8, AgentFacts DEF Decrement, LastWait, Goto, agent
  <2>2. /\ o \in Ops /\ i \in Outstanding(o) /\ a \in Agents /\ a = Callback(o, i)
        /\ i \in 1 .. WaitsOf[o] /\ a # Submitter(o) /\ Submitter(o) \in Agents
    BY <2>1, AgentFacts DEF Outstanding
  <2>3. Outstanding(o)' = Outstanding(o) \ {i}
    BY <2>1, <2>2, AgentFacts DEF Outstanding
  <2>4. Undecided(o)
    BY <2>2 DEF Undecided
  <2>5. \A p \in Ops : p # o => Undecided(p)' = Undecided(p) /\ pc'[Submitter(p)] = pc[Submitter(p)]
    BY <2>1, <2>2, OnlyOneMoves
  <2>. HIDE DEF o, i
  <2>6. CASE pc'[a] = "last"
    <3>1. Outstanding(o) = {i} /\ ~Enqueuing(o) /\ pc[Submitter(o)] \notin {"begin", "finish"}
      BY <2>1, <2>2, <2>6, LastOutstanding
    <3>2. pc'[Submitter(o)] = pc[Submitter(o)]
      BY <2>1, <2>2
    <3>3. ~Undecided(o)'
      BY <2>3, <3>1, <3>2 DEF Undecided, Enqueuing
    <3>4. Takes(a, o)
      BY <1>03, <2>1, <2>2, <2>4, <2>5, <2>6, <3>2, <3>3, UndecidedIsUnowned
         DEF Takes, OwnerLabels
    <3>. QED
      BY <1>01, <1>03, <2>1, <2>2, <3>4, TakingKeepsOwners
  <2>7. CASE pc'[a] = "done"
    <3>1. OwnerFrame
      BY <2>1, <2>2, <2>4, <2>5, <2>7 DEF OwnerFrame, OwnerLabels
    <3>. QED
      BY <1>01, <3>1, FrameKeepsOwners
  <2>. QED
    BY <2>1, <2>6, <2>7
<1>9. ASSUME Quiet, UNCHANGED <<memory, ready, issued>>,
             \A b \in Agents : pc'[b] \in OwnerLabels => pc[b] \in OwnerLabels /\ arg'[b] = arg[b]
      PROVE  OwnerInv'
  <2>1. \A o \in Ops : /\ pc'[Submitter(o)] = "begin" <=> pc[Submitter(o)] = "begin"
                       /\ Undecided(o)' => Undecided(o)
    BY <1>9, QuietKeepsWaits
  <2>2. OwnerFrame
    BY <1>9, <2>1 DEF OwnerFrame
  <2>. QED
    BY <1>01, <2>2, FrameKeepsOwners
<1>10. ASSUME Quiet, NEW a \in Callbacks, Last(a) PROVE OwnerInv'
  BY <1>0, <1>9, <1>10, AgentFacts DEF Last, Goto, op, agent, OwnerLabels
<1>11. ASSUME Quiet, NEW a \in Agents, Hold(a) PROVE OwnerInv'
  BY <1>0, <1>9, <1>11, AgentFacts DEF Hold, Goto, op, agent, OwnerLabels
<1>12. ASSUME Quiet, NEW a \in Agents, Wake(a) PROVE OwnerInv'
  BY <1>0, <1>9, <1>12, AgentFacts DEF Wake, Goto, op, agent, OwnerLabels
<1>13. ASSUME Quiet, NEW a \in Agents, Woken(a) PROVE OwnerInv'
  BY <1>0, <1>9, <1>13, AgentFacts DEF Woken, Goto, op, agent, OwnerLabels
<1>14. ASSUME Quiet, NEW a \in Agents, CompleteOp(a) PROVE OwnerInv'
  BY <1>0, <1>9, <1>14, AgentFacts DEF CompleteOp, With, Goto, op, agent, OwnerLabels
<1>15. ASSUME Quiet, NEW a \in Agents, Settle(a) PROVE OwnerInv'
  BY <1>0, <1>9, <1>15, AgentFacts DEF Settle, Goto, op, agent, OwnerLabels
<1>16. ASSUME Quiet, NEW a \in Agents, OperationEnd(a) PROVE OwnerInv'
  BY <1>0, <1>9, <1>16, AgentFacts DEF OperationEnd, Return, Goto, op, agent, OwnerLabels
<1>17. ASSUME Quiet, NEW a \in Agents, StorePhase(a) PROVE OwnerInv'
  BY <1>0, <1>9, <1>17, AgentFacts DEF StorePhase, Goto, op, agent, OwnerLabels
<1>18. ASSUME Quiet, NEW a \in Agents, ScheduleControl(a) PROVE OwnerInv'
  BY <1>0, <1>9, <1>18, AgentFacts DEF ScheduleControl, Goto, op, agent, OwnerLabels
<1>19. ASSUME Quiet, NEW a \in Agents, ScheduleTail(a) PROVE OwnerInv'
  BY <1>0, <1>9, <1>19, AgentFacts DEF ScheduleTail, Goto, op, agent, OwnerLabels
<1>20. ASSUME Quiet, NEW a \in Agents, Retire(a) PROVE OwnerInv'
  BY <1>0, <1>9, <1>20, AgentFacts DEF Retire, Return, Goto, op, agent, OwnerLabels
<1>21. ASSUME Quiet, NEW a \in Agents, ShutdownLock(a) PROVE OwnerInv'
  BY <1>0, <1>9, <1>21, AgentFacts DEF ShutdownLock, Goto, op, agent, OwnerLabels
<1>22. ASSUME Quiet, NEW a \in Agents, ShutdownPost(a) PROVE OwnerInv'
  BY <1>0, <1>9, <1>22, AgentFacts DEF ShutdownPost, Goto, op, agent, OwnerLabels
<1>23. ASSUME Quiet, NEW a \in Agents, ShutdownUnlock(a) PROVE OwnerInv'
  BY <1>0, <1>9, <1>23, AgentFacts DEF ShutdownUnlock, Return, Goto, op, agent, OwnerLabels
<1>24. ASSUME Quiet, ControlRun PROVE OwnerInv'
  BY <1>0, <1>9, <1>24, AgentFacts DEF ControlRun, Goto, op, agent, OwnerLabels
<1>25. ASSUME Quiet, ControlEmpty PROVE OwnerInv'
  BY <1>0, <1>9, <1>25, AgentFacts DEF ControlEmpty, Goto, op, agent, OwnerLabels
<1>26. ASSUME Quiet, ControlCheck PROVE OwnerInv'
  BY <1>0, <1>9, <1>26, AgentFacts DEF ControlCheck, Goto, op, agent, OwnerLabels
<1>27. ASSUME Quiet, ControlStop PROVE OwnerInv'
  BY <1>0, <1>9, <1>27, AgentFacts DEF ControlStop, Goto, op, agent, OwnerLabels
<1>28. ASSUME Quiet, ControlRouse PROVE OwnerInv'
  BY <1>0, <1>9, <1>28, AgentFacts DEF ControlRouse, Goto, op, agent, OwnerLabels
<1>29. ASSUME Quiet, ControlStopped PROVE OwnerInv'
  BY <1>0, <1>9, <1>29, AgentFacts DEF ControlStopped, Goto, op, agent, OwnerLabels
<1>30. ASSUME Quiet, ComputeStop PROVE OwnerInv'
  BY <1>0, <1>9, <1>30, AgentFacts DEF ComputeStop, Goto, op, agent, OwnerLabels
<1>31. ASSUME Quiet, Close PROVE OwnerInv'
  BY <1>0, <1>9, <1>31, AgentFacts DEF Close, Goto, op, agent, OwnerLabels
<1>32. ASSUME Quiet, Await PROVE OwnerInv'
  BY <1>0, <1>9, <1>32, AgentFacts DEF Await, Goto, op, agent, OwnerLabels
<1>33. ASSUME Quiet, UNCHANGED vars PROVE OwnerInv'
  BY <1>9, <1>33 DEF vars, op, agent
<1>34. ASSUME Quiet, NEW a \in Agents, Push(a) PROVE OwnerInv'
  <2>. DEFINE o == arg[a]
  <2>1. /\ pc[a] = "push" /\ pc'[a] = "wake" /\ ready' = <<o>> \o ready
        /\ \A b \in Agents : b # a => pc'[b] = pc[b]
        /\ UNCHANGED <<arg, memory, issued>>
    BY <1>0, <1>34 DEF Push, Goto, agent, op
  <2>2. o \in Ops /\ memory[o] = "live" /\ ~Undecided(o) /\ ~IsReady(o) /\ o \notin issued
    BY <1>01, <2>1 DEF OwnerInv, OwnerLabels
  <2>. HIDE DEF o
  <2>3. /\ \A p \in Ops : IsReady(p)' <=> p = o \/ IsReady(p)
        /\ (\A j, k \in 1 .. Len(ready) : ready[j] = ready[k] => j = k)'
    BY <1>0, <1>02, <2>1, <2>2, PushReady
  <2>4. \A p \in Ops : Undecided(p)' = Undecided(p)
                         /\ (pc'[Submitter(p)] = "begin" <=> pc[Submitter(p)] = "begin")
    BY <1>34, QuietKeepsWaits
  <2>5. \A b \in Agents : pc'[b] \in OwnerLabels => pc[b] \in OwnerLabels /\ arg[b] # o
    BY <2>1 DEF OwnerInv, OwnerLabels, o
  <2>6. (\A p \in Ops : /\ memory[p] = "none" <=> pc[Submitter(p)] = "begin"
                        /\ Undecided(p) => memory[p] = "live" /\ ~IsReady(p) /\ p \notin issued
                        /\ IsReady(p) => memory[p] = "live" /\ p \notin issued
                        /\ p \in issued => memory[p] = "live")'
    BY <2>1, <2>2, <2>3, <2>4 DEF OwnerInv
  <2>. QED
    BY <1>01, <2>1, <2>3, <2>4, <2>5, <2>6 DEF OwnerInv
<1>35. ASSUME Quiet, NEW a \in Agents, Free(a) PROVE OwnerInv'
  <2>. DEFINE o == arg[a]
  <2>1. /\ pc[a] = "free" /\ pc'[a] = "end" /\ memory' = [memory EXCEPT ![o] = "freed"]
        /\ \A b \in Agents : b # a => pc'[b] = pc[b]
        /\ UNCHANGED <<arg, ready, issued>>
    BY <1>0, <1>35 DEF Free, Goto, agent
  <2>2. o \in Ops /\ memory[o] = "live" /\ ~Undecided(o) /\ ~IsReady(o) /\ o \notin issued
    BY <1>01, <2>1 DEF OwnerInv, OwnerLabels
  <2>3. \A p \in Ops : Undecided(p)' = Undecided(p)
                         /\ (pc'[Submitter(p)] = "begin" <=> pc[Submitter(p)] = "begin")
    BY <1>35, QuietKeepsWaits
  <2>4. \A b \in Agents : pc'[b] \in OwnerLabels => pc[b] \in OwnerLabels /\ arg[b] # o
    BY <2>1 DEF OwnerInv, OwnerLabels
  <2>. HIDE DEF o
  <2>5. (\A p \in Ops : /\ memory[p] = "none" <=> pc[Submitter(p)] = "begin"
                        /\ Undecided(p) => memory[p] = "live" /\ ~IsReady(p) /\ p \notin issued
                        /\ IsReady(p) => memory[p] = "live" /\ p \notin issued
                        /\ p \in issued => memory[p] = "live")'
    BY <1>0, <1>03, <2>1, <2>2, <2>3 DEF OwnerInv
  <2>. QED
    BY <1>0, <1>01, <1>03, <2>1, <2>3, <2>4, <2>5 DEF OwnerInv
<1>36. ASSUME Quiet, ControlPop PROVE OwnerInv'
  <2>0. PICK o \in Ops : o = Head(ready)
    BY <1>0, <1>36 DEF ControlPop
  <2>1. /\ IsReady(o) /\ \A p \in Ops : IsReady(p)' <=> p # o /\ IsReady(p)
        /\ (\A j, k \in 1 .. Len(ready) : ready[j] = ready[k] => j = k)'
    BY <1>0, <1>02, <2>0, <1>36, PopReady DEF ControlPop
  <2>2. /\ memory[o] = "live" /\ o \notin issued /\ ~Undecided(o)
        /\ \A b \in Agents : ~Owns(b, o)
    BY <2>1 DEF OwnerInv, Owns
  <2>3. \A p \in Ops : Undecided(p)' = Undecided(p)
                         /\ (pc'[Submitter(p)] = "begin" <=> pc[Submitter(p)] = "begin")
    BY <1>36, QuietKeepsWaits
  <2>4. UNCHANGED memory
    BY <1>36 DEF ControlPop, op
  <2>5. ASSUME \/ With(Control, "complete", o, "ok") \/ With(Control, "settle", o, "failed")
               \/ With(Control, "announce", o, "ok") \/ With(Control, "call", o, "ok"),
               UNCHANGED issued
        PROVE  OwnerInv'
    <3>1. /\ pc'[Control] \in {"complete", "settle", "announce", "call"} /\ arg'[Control] = o
          /\ \A b \in Agents : b # Control => pc'[b] = pc[b] /\ arg'[b] = arg[b]
      BY <1>0, <2>5, AgentFacts DEF With, Goto
    <3>2. Takes(Control, o)
      BY <2>1, <2>2, <2>3, <2>4, <2>5, <3>1 DEF Takes, OwnerLabels
    <3>. QED
      BY <1>01, <2>1, <3>2, TakingKeepsOwners, AgentFacts
  <2>6. ASSUME issued' = issued \cup {o}, UNCHANGED <<pc, agent>> PROVE OwnerInv'
    <3>1. (\A p \in Ops : /\ memory[p] = "none" <=> pc[Submitter(p)] = "begin"
                          /\ Undecided(p) => memory[p] = "live" /\ ~IsReady(p) /\ p \notin issued
                          /\ IsReady(p) => memory[p] = "live" /\ p \notin issued
                          /\ p \in issued => memory[p] = "live")'
      BY <2>1, <2>2, <2>3, <2>4, <2>6 DEF OwnerInv
    <3>2. \A b \in Agents : pc[b] \in OwnerLabels => arg[b] # o
      BY <2>2 DEF Owns
    <3>. QED
      BY <1>01, <2>1, <2>3, <2>4, <2>6, <3>1, <3>2 DEF OwnerInv, agent
  <2>. QED
    BY <1>36, <2>0, <2>5, <2>6 DEF ControlPop
<1>37. ASSUME Quiet, NEW o \in Ops, ComputeFinish(o) PROVE OwnerInv'
  <2>1. /\ o \in issued /\ issued' = issued \ {o} /\ UNCHANGED <<memory, ready>>
        /\ pc'[Compute] \in {"complete", "hold", "settle"} /\ arg'[Compute] = o
        /\ \A b \in Agents : b # Compute => pc'[b] = pc[b] /\ arg'[b] = arg[b]
    BY <1>0, <1>37, AgentFacts DEF ComputeFinish, With, Goto, op
  <2>2. /\ memory[o] = "live" /\ ~IsReady(o) /\ ~Undecided(o)
        /\ \A b \in Agents : ~Owns(b, o)
    BY <2>1 DEF OwnerInv, Owns
  <2>3. \A p \in Ops : Undecided(p)' = Undecided(p)
                         /\ (pc'[Submitter(p)] = "begin" <=> pc[Submitter(p)] = "begin")
    BY <1>37, QuietKeepsWaits
  <2>4. Takes(Compute, o)
    BY <1>03, <2>1, <2>2, <2>3 DEF Takes, OwnerLabels
  <2>. QED
    BY <1>01, <1>03, <2>1, <2>4, TakingKeepsOwners, AgentFacts
<1>38. ASSUME Quiet, NEW o \in Ops, ProactorFinish(o) PROVE OwnerInv'
  <2>1. /\ o \in issued /\ issued' = issued \ {o} /\ UNCHANGED <<memory, ready>>
        /\ pc'[Proactor] \in {"complete", "hold", "settle"} /\ arg'[Proactor] = o
        /\ \A b \in Agents : b # Proactor => pc'[b] = pc[b] /\ arg'[b] = arg[b]
    BY <1>0, <1>38, AgentFacts DEF ProactorFinish, With, Goto, op
  <2>2. /\ memory[o] = "live" /\ ~IsReady(o) /\ ~Undecided(o)
        /\ \A b \in Agents : ~Owns(b, o)
    BY <2>1 DEF OwnerInv, Owns
  <2>3. \A p \in Ops : Undecided(p)' = Undecided(p)
                         /\ (pc'[Submitter(p)] = "begin" <=> pc[Submitter(p)] = "begin")
    BY <1>38, QuietKeepsWaits
  <2>4. Takes(Proactor, o)
    BY <1>03, <2>1, <2>2, <2>3 DEF Takes, OwnerLabels
  <2>. QED
    BY <1>01, <1>03, <2>1, <2>4, TakingKeepsOwners, AgentFacts
<1>39. ASSUME Quiet, SignalFirst PROVE OwnerInv'
  BY <1>0, <1>9, <1>39, AgentFacts DEF SignalFirst, With, Goto, op, agent, OwnerLabels
<1>40. ASSUME Quiet, HostCall PROVE OwnerInv'
  BY <1>0, <1>9, <1>40, AgentFacts DEF HostCall, AfterDeferred, With, Goto, op, agent, OwnerLabels
<1>. QED
  <2>1. CASE WaitStep
    BY <2>1, <1>1, <1>2, <1>3, <1>4, <1>5, <1>6, <1>7, <1>8 DEF WaitStep, Submit
  <2>2. CASE ~WaitStep
    BY <2>2, OthersAreQuiet, <1>10, <1>11, <1>12, <1>13, <1>14, <1>15, <1>16, <1>17, <1>18,
       <1>19, <1>20, <1>21, <1>22, <1>23, <1>24, <1>25, <1>26, <1>27, <1>28, <1>29, <1>30, <1>31,
       <1>32, <1>33, <1>34, <1>35, <1>36, <1>37, <1>38, <1>39, <1>40
       DEF Next, Callbacked, ControlStep, ComputeStep, ProactorStep, Shared, WaitStep
  <2>. QED
    BY <2>1, <2>2

----------------------------------------------------------------------------
(* Shutdown.                                                               *)

\* The labels of the shutdown, and the steps that have no part in it.
ShutdownLabels == RetireLabels \cup {"stop", "rouse", "stopped"}
Calm ==
    /\ UNCHANGED <<phase, released, retiring, shutdown, queue>>
    /\ count = 0 <=> count' = 0
    /\ \A b \in Agents :
          pc'[b] = pc[b] \/ (pc[b] \notin ShutdownLabels /\ pc'[b] \notin ShutdownLabels)

ShutdownStep ==
    \/ \E a \in Agents : \/ OperationEnd(a) \/ StorePhase(a) \/ ScheduleControl(a)
                         \/ ScheduleTail(a) \/ Retire(a) \/ ShutdownLock(a)
                         \/ ShutdownPost(a) \/ ShutdownUnlock(a)
    \/ ControlCheck \/ ControlStop \/ ControlRouse \/ ControlStopped \/ ComputeStop \/ Await

\* Every other step is calm; the references it takes are taken while there is
\* one already.
LEMMA OthersAreCalm ==
    ASSUME TypeOK, ControlInv, CountInv, WaitInv, OwnerInv, [Next]_vars, ~ShutdownStep
    PROVE  Calm
<1>0. pc \in [Agents -> Labels] /\ count \in Nat
  BY DEF TypeOK
<1>. USE DEF Goto, op, life, agent, Calm, ShutdownLabels, RetireLabels, TailLabels, FinalLabels
<1>1. ASSUME NEW o \in Ops, SubmitBegin(o) PROVE Calm
  <2>1. Destroyer \in References
    BY <1>1, AgentFacts DEF SubmitBegin, References
  <2>2. count >= 1
    BY <2>1, CountFacts
  <2>. QED
    BY <1>0, <1>1, <2>2, AgentFacts DEF SubmitBegin
<1>2. ASSUME NEW o \in Ops, SubmitDiscard(o) PROVE Calm
  BY <1>0, <1>2, AgentFacts DEF SubmitDiscard, With
<1>3. ASSUME NEW o \in Ops, SubmitFails(o) PROVE Calm
  BY <1>0, <1>3, AgentFacts DEF SubmitFails, With
<1>4. ASSUME NEW o \in Ops, SubmitFinish(o) PROVE Calm
  BY <1>0, <1>4, AgentFacts DEF SubmitFinish
<1>5. ASSUME NEW o \in Ops, Register(o) PROVE Calm
  <2>1. left[o] \in 1 .. WaitsOf[o] /\ pc[Callback(o, left[o])] = "unregistered"
    BY <1>5 DEF Register, WaitInv, WaitInvOf, Enqueuing
  <2>. QED
    BY <1>0, <1>5, <2>1, AgentFacts DEF Register
<1>6. ASSUME NEW o \in Ops, RegisterFails(o) PROVE Calm
  BY <1>0, <1>6, AgentFacts DEF RegisterFails
<1>7. ASSUME NEW o \in Ops, Subtract(o) PROVE Calm
  BY <1>0, <1>7, AgentFacts DEF Subtract, With
<1>8. ASSUME NEW a \in Callbacks, Resolve(a) PROVE Calm
  BY <1>0, <1>8, AgentFacts DEF Resolve, With
<1>9. ASSUME NEW a \in Callbacks, Record(a) PROVE Calm
  BY <1>0, <1>9, AgentFacts DEF Record
<1>10. ASSUME NEW a \in Callbacks, Decrement(a) PROVE Calm
  BY <1>0, <1>10, AgentFacts DEF Decrement
<1>11. ASSUME NEW a \in Callbacks, Last(a) PROVE Calm
  BY <1>0, <1>11, AgentFacts DEF Last
<1>12. ASSUME NEW a \in Agents, Hold(a) PROVE Calm
  <2>1. arg[a] \in Live
    BY <1>12 DEF Hold, Live, OwnerInv, OwnerLabels, ControlInv
  <2>2. count >= 1
    BY <2>1, CountFacts
  <2>. QED
    BY <1>0, <1>12, <2>2 DEF Hold, Held
<1>13. ASSUME NEW a \in Agents, Push(a) PROVE Calm
  BY <1>0, <1>13, AgentFacts DEF Push
<1>14. ASSUME NEW a \in Agents, Wake(a) PROVE Calm
  BY <1>0, <1>14, AgentFacts DEF Wake
<1>15. ASSUME NEW a \in Agents, Woken(a) PROVE Calm
  BY <1>0, <1>15, AgentFacts DEF Woken
<1>16. ASSUME NEW a \in Agents, CompleteOp(a) PROVE Calm
  BY <1>0, <1>16, AgentFacts DEF CompleteOp, With
<1>17. ASSUME NEW a \in Agents, Settle(a) PROVE Calm
  BY <1>0, <1>17, AgentFacts DEF Settle
<1>18. ASSUME NEW a \in Agents, Free(a) PROVE Calm
  BY <1>0, <1>18, AgentFacts DEF Free
<1>19. ASSUME ControlRun PROVE Calm
  BY <1>0, <1>19, AgentFacts DEF ControlRun
<1>20. ASSUME ControlPop PROVE Calm
  BY <1>0, <1>20, AgentFacts DEF ControlPop, With
<1>21. ASSUME ControlEmpty PROVE Calm
  BY <1>0, <1>21, AgentFacts DEF ControlEmpty
<1>22. ASSUME NEW o \in Ops, ComputeFinish(o) PROVE Calm
  BY <1>0, <1>22, AgentFacts DEF ComputeFinish, With
<1>23. ASSUME NEW o \in Ops, ProactorFinish(o) PROVE Calm
  BY <1>0, <1>23, AgentFacts DEF ProactorFinish, With
<1>24. ASSUME Close PROVE Calm
  BY <1>0, <1>24, AgentFacts DEF Close
<1>25. ASSUME UNCHANGED vars PROVE Calm
  BY <1>25 DEF vars
<1>26. ASSUME SignalFirst PROVE Calm
  BY <1>0, <1>26, AgentFacts DEF SignalFirst, With
<1>27. ASSUME HostCall PROVE Calm
  BY <1>0, <1>27, AgentFacts DEF HostCall, AfterDeferred, With
<1>. QED
  BY <1>1, <1>2, <1>3, <1>4, <1>5, <1>6, <1>7, <1>8, <1>9, <1>10, <1>11, <1>12, <1>13, <1>14,
     <1>15, <1>16, <1>17, <1>18, <1>19, <1>20, <1>21, <1>22, <1>23, <1>24, <1>25, <1>26, <1>27
     DEF Next, Submit, Callbacked, ControlStep, ComputeStep, ProactorStep, Shared, ShutdownStep

\* A calm step leaves the shutdown alone.
LEMMA CalmKeepsShutdown ==
    ASSUME TypeOK, Calm, PhaseInv, RetireInv, FinalInv, count' \in Nat
    PROVE  PhaseInv' /\ RetireInv' /\ FinalInv'
<1>0. count \in Nat
  BY DEF TypeOK
<1>1. \A b \in Agents : Tailing(b)' <=> Tailing(b)
  BY DEF Calm, Tailing, ShutdownLabels, RetireLabels, TailLabels
<1>2. PhaseInv'
  BY <1>1, AgentFacts DEF PhaseInv, Calm, ShutdownLabels
<1>3. TailPending' <=> TailPending
  BY <1>0, <1>1 DEF TailPending, Calm
<1>4. ControlPending' <=> ControlPending
  BY AgentFacts DEF ControlPending, Calm, ShutdownLabels, RetireLabels
<1>5. ComputePending' <=> ComputePending
  BY AgentFacts DEF ComputePending, Calm, ShutdownLabels, RetireLabels
<1>6. RetireInv'
  BY <1>3, <1>4, <1>5 DEF RetireInv, One, Calm
<1>7. FinalInv'
  BY DEF FinalInv, Calm, ShutdownLabels, RetireLabels, FinalLabels
<1>. QED
  BY <1>2, <1>6, <1>7

\* pending_shutdown_count as a number.
LEMMA RetiringIsSmall ==
    ASSUME RetireInv
    PROVE  /\ retiring \in 0 .. 3
           /\ retiring = 0 <=> ~TailPending /\ ~ControlPending /\ ~ComputePending
BY DEF RetireInv, One

\* The shutdown counts its participants down and completes once.
LEMMA ShutdownAfterStep ==
    ASSUME TypeOK, ControlInv, ReleaseInv, CountInv, WaitInv, OwnerInv,
           PhaseInv, RetireInv, FinalInv, [Next]_vars, count' \in Nat
    PROVE  PhaseInv' /\ RetireInv' /\ FinalInv'
<1>0. /\ pc \in [Agents -> Labels] /\ count \in Nat /\ retiring \in 0 .. 3
      /\ phase \in {"running", "control", "compute"}
      /\ released \subseteq {Control, Compute} /\ shutdown \in [lock : BOOLEAN, completed : BOOLEAN]
  BY DEF TypeOK
<1>01. \A a \in Agents : Tailing(a) => TailPending
  BY DEF TailPending
<1>1. ASSUME NEW a \in Agents, OperationEnd(a) PROVE PhaseInv' /\ RetireInv' /\ FinalInv'
  <2>1. /\ pc[a] = "end" /\ count' = count - 1
        /\ \A b \in Agents : b # a => pc'[b] = pc[b]
        /\ UNCHANGED <<phase, released, retiring, shutdown, queue>>
    BY <1>0, <1>1 DEF OperationEnd, Goto
  <2>2. a \in References
    BY <2>1 DEF References
  <2>3. count >= 1
    BY <2>2, CountFacts
  <2>4. CASE count > 1
    <3>1. pc'[a] \notin ShutdownLabels
      BY <1>0, <1>1, <2>4 DEF OperationEnd, Goto, Return, ShutdownLabels, RetireLabels,
                              TailLabels, FinalLabels
    <3>2. Calm
      BY <1>0, <2>1, <2>4, <3>1 DEF Calm, ShutdownLabels, RetireLabels, TailLabels, FinalLabels
    <3>. QED
      BY <3>2, CalmKeepsShutdown
  <2>5. CASE count = 1
    <3>1. pc'[a] = "phase" /\ count' = 0
      BY <1>0, <1>1, <2>5 DEF OperationEnd, Goto
    <3>2. /\ phase = "running" /\ pc[Control] # "stop" /\ released = {}
          /\ \A b \in Agents : ~Tailing(b)
      BY <2>5 DEF PhaseInv
    <3>3. \A b \in Agents : Tailing(b)' => b = a
      BY <2>1, <3>2 DEF Tailing
    <3>4. PhaseInv'
      BY <3>1, <3>3 DEF PhaseInv
    <3>5. TailPending /\ TailPending'
      BY <2>5, <3>1 DEF TailPending, Tailing, TailLabels
    <3>6. (ControlPending' <=> ControlPending) /\ (ComputePending' <=> ComputePending)
      BY <2>1, <3>2 DEF ControlPending, ComputePending
    <3>7. RetireInv'
      BY <2>1, <3>5, <3>6 DEF RetireInv, One
    <3>8. FinalInv'
      BY <2>1, <3>1 DEF FinalInv, FinalLabels
    <3>. QED
      BY <3>4, <3>7, <3>8
  <2>. QED
    BY <1>0, <2>3, <2>4, <2>5
<1>2. ASSUME NEW a \in Agents, StorePhase(a) \/ ScheduleControl(a) \/ ScheduleTail(a)
      PROVE  PhaseInv' /\ RetireInv' /\ FinalInv'
  <2>1. /\ pc[a] \in TailLabels /\ pc'[a] \in TailLabels \cup {"retire"}
        /\ \A b \in Agents : b # a => pc'[b] = pc[b]
        /\ UNCHANGED <<count, released, retiring, shutdown, queue>>
    BY <1>0, <1>2 DEF StorePhase, ScheduleControl, ScheduleTail, Goto, TailLabels, life
  <2>2. Tailing(a) /\ count = 0
    BY <2>1 DEF Tailing, PhaseInv
  <2>3. a \notin released
    BY <1>0, <2>1 DEF ReleaseInv, TailLabels, FinalLabels
  <2>4. \A b \in Agents : Tailing(b)' <=> Tailing(b)
    BY <2>1, <2>2, <2>3 DEF Tailing
  <2>5. (ControlPending' <=> ControlPending) /\ (ComputePending' <=> ComputePending)
    BY <2>1, <2>3, AgentFacts DEF ControlPending, ComputePending
  <2>6. PhaseInv'
    BY <2>1, <2>2, <2>4 DEF PhaseInv
  <2>7. TailPending' <=> TailPending
    BY <2>1, <2>4 DEF TailPending
  <2>8. RetireInv'
    BY <2>1, <2>5, <2>7 DEF RetireInv, One
  <2>9. FinalInv'
    BY <2>1 DEF FinalInv, FinalLabels, TailLabels
  <2>. QED
    BY <2>6, <2>8, <2>9
<1>3. ASSUME NEW a \in Agents, Retire(a) PROVE PhaseInv' /\ RetireInv' /\ FinalInv'
  <2>1. /\ pc[a] = "retire" /\ retiring' = retiring - 1
        /\ pc'[a] \in {"lock", "done", "pop", "idle", "await"}
        /\ pc'[a] = "lock" => retiring = 1
        /\ \A b \in Agents : b # a => pc'[b] = pc[b]
        /\ UNCHANGED <<count, phase, released, shutdown, queue>>
    BY <1>0, <1>3 DEF Retire, Goto, Return
  <2>2. \A b \in Agents : Tailing(b)' => Tailing(b)
    BY <2>1 DEF Tailing, TailLabels
  <2>3. PhaseInv'
    BY <2>1, <2>2, AgentFacts DEF PhaseInv
  <2>4. RetireInv'
    <3>1. CASE a \notin released
      <4>1. Tailing(a) /\ count = 0 /\ TailPending
        BY <2>1, <3>1, <1>01 DEF Tailing, PhaseInv
      <4>2. \A b \in Agents : ~Tailing(b)'
        <5>1. \A b \in Agents : Tailing(b) => b = a
          BY <4>1 DEF PhaseInv
        <5>2. ~Tailing(a)'
          BY <2>1 DEF Tailing, TailLabels
        <5>. QED
          BY <2>2, <5>1, <5>2
      <4>3. ~TailPending'
        BY <2>1, <4>1, <4>2 DEF TailPending
      <4>4. (ControlPending' <=> ControlPending) /\ (ComputePending' <=> ComputePending)
        BY <2>1, <3>1, AgentFacts DEF ControlPending, ComputePending
      <4>. QED
        BY <2>1, <4>1, <4>3, <4>4 DEF RetireInv, One
    <3>2. CASE a \in released
      <4>1. count = 0 /\ ~Tailing(a)
        BY <2>1, <3>2 DEF PhaseInv, Tailing, TailLabels
      <4>2. \A b \in Agents : Tailing(b)' <=> Tailing(b)
        BY <2>1, <3>2, <4>1 DEF Tailing, TailLabels
      <4>3. TailPending' <=> TailPending
        BY <2>1, <4>2 DEF TailPending
      <4>4. CASE a = Control
        <5>1. ControlPending /\ ~ControlPending'
          BY <2>1, <3>2, <4>4 DEF ControlPending
        <5>2. ComputePending' <=> ComputePending
          BY <2>1, <4>4, AgentFacts DEF ComputePending
        <5>. QED
          BY <2>1, <4>3, <5>1, <5>2 DEF RetireInv, One
      <4>5. CASE a = Compute
        <5>1. ComputePending /\ ~ComputePending'
          BY <2>1, <3>2, <4>5 DEF ComputePending
        <5>2. ControlPending' <=> ControlPending
          BY <2>1, <4>5, AgentFacts DEF ControlPending
        <5>. QED
          BY <2>1, <4>3, <5>1, <5>2 DEF RetireInv, One
      <4>. QED
        BY <1>0, <3>2, <4>4, <4>5
    <3>. QED
      BY <3>1, <3>2
  <2>5. retiring >= 1
    <3>1. TailPending \/ ControlPending \/ ComputePending
      BY <1>0, <1>01, <2>1 DEF Tailing, ControlPending, ComputePending
    <3>. QED
      BY <1>0, <3>1, RetiringIsSmall
  <2>6. FinalInv'
    BY <1>0, <2>1, <2>5 DEF FinalInv, FinalLabels
  <2>. QED
    BY <2>3, <2>4, <2>6
<1>4. ASSUME NEW a \in Agents, ShutdownLock(a) \/ ShutdownPost(a) \/ ShutdownUnlock(a)
      PROVE  PhaseInv' /\ RetireInv' /\ FinalInv'
  <2>1. /\ pc[a] \in FinalLabels
        /\ pc'[a] \in {"post", "unlock", "done", "pop", "idle", "await"}
        /\ \A b \in Agents : b # a => pc'[b] = pc[b]
        /\ UNCHANGED <<count, phase, released, retiring, queue>>
    BY <1>0, <1>4 DEF ShutdownLock, ShutdownPost, ShutdownUnlock, Goto, Return, FinalLabels, life
  <2>2. \A b \in Agents : Tailing(b)' <=> Tailing(b)
    BY <2>1 DEF Tailing, TailLabels, FinalLabels
  <2>3. PhaseInv'
    BY <2>1, <2>2, AgentFacts DEF PhaseInv
  <2>4. (ControlPending' <=> ControlPending) /\ (ComputePending' <=> ComputePending)
    BY <2>1, AgentFacts DEF ControlPending, ComputePending, FinalLabels
  <2>5. TailPending' <=> TailPending
    BY <2>1, <2>2 DEF TailPending
  <2>6. RetireInv'
    BY <2>1, <2>4, <2>5 DEF RetireInv, One
  <2>7. retiring = 0 /\ \A b \in Agents : b # a => pc[b] \notin FinalLabels
    BY <2>1 DEF FinalInv
  <2>8. CASE ShutdownLock(a)
    <3>1. /\ pc'[a] = "post" /\ shutdown'.lock /\ shutdown'.completed
          /\ ~shutdown.completed /\ queue # "freed"
      BY <1>0, <2>8 DEF ShutdownLock, Goto, FinalInv
    <3>. QED
      BY <2>1, <2>3, <2>6, <2>7, <3>1 DEF FinalInv, FinalLabels
  <2>9. CASE ShutdownPost(a)
    <3>1. pc[a] = "post" /\ pc'[a] = "unlock" /\ UNCHANGED shutdown
      BY <1>0, <2>9 DEF ShutdownPost, Goto, life
    <3>. QED
      BY <2>1, <2>3, <2>6, <2>7, <3>1 DEF FinalInv, FinalLabels
  <2>10. CASE ShutdownUnlock(a)
    <3>1. /\ pc'[a] \in {"done", "pop", "idle", "await"} /\ ~shutdown'.lock
          /\ shutdown'.completed = shutdown.completed
      BY <1>0, <2>10 DEF ShutdownUnlock, Goto, Return
    <3>. QED
      BY <2>1, <2>3, <2>6, <2>7, <3>1 DEF FinalInv, FinalLabels
  <2>. QED
    BY <1>4, <2>8, <2>9, <2>10
<1>5. ASSUME ControlCheck PROVE PhaseInv' /\ RetireInv' /\ FinalInv'
  <2>1. /\ pc[Control] = "check" /\ pc'[Control] \in {"stop", "idle"}
        /\ pc'[Control] = "stop" => phase # "running"
        /\ \A b \in Agents : b # Control => pc'[b] = pc[b]
        /\ UNCHANGED <<count, phase, released, retiring, shutdown, queue>>
    BY <1>0, <1>5, AgentFacts DEF ControlCheck, Goto, ShuttingDown, life
  <2>2. \A b \in Agents : Tailing(b)' <=> Tailing(b)
    BY <2>1 DEF Tailing, TailLabels
  <2>3. PhaseInv'
    BY <2>1, <2>2 DEF PhaseInv
  <2>4. (ControlPending' <=> ControlPending) /\ (ComputePending' <=> ComputePending)
    BY <2>1, AgentFacts DEF ControlPending, ComputePending
  <2>5. TailPending' <=> TailPending
    BY <2>1, <2>2 DEF TailPending
  <2>6. RetireInv'
    BY <2>1, <2>4, <2>5 DEF RetireInv, One
  <2>7. FinalInv'
    BY <2>1 DEF FinalInv, FinalLabels
  <2>. QED
    BY <2>3, <2>6, <2>7
<1>6. ASSUME ControlStop \/ ControlRouse \/ ControlStopped
      PROVE  PhaseInv' /\ RetireInv' /\ FinalInv'
  <2>1. /\ pc[Control] \in {"stop", "rouse", "stopped"}
        /\ pc'[Control] \in {"rouse", "stopped", "retire"}
        /\ Control \in released' /\ (Compute \in released' <=> Compute \in released)
        /\ released' \subseteq {Control, Compute} /\ released \subseteq released'
        /\ \A b \in Agents : b # Control => pc'[b] = pc[b]
        /\ UNCHANGED <<count, retiring, shutdown, queue>>
    BY <1>0, <1>6, AgentFacts
       DEF ControlStop, ControlRouse, ControlStopped, Goto, ReleaseInv, life
  <2>2. count = 0
    BY <2>1 DEF PhaseInv, ReleaseInv
  <2>3. \A b \in Agents : Tailing(b)' <=> Tailing(b)
    BY <2>1, AgentFacts DEF Tailing, TailLabels
  <2>4. PhaseInv'
    BY <2>1, <2>2, <2>3 DEF PhaseInv
  <2>5. ControlPending' /\ ControlPending /\ (ComputePending' <=> ComputePending)
    BY <2>1, AgentFacts DEF ControlPending, ComputePending, ReleaseInv, FinalLabels
  <2>6. TailPending' <=> TailPending
    BY <2>1, <2>3 DEF TailPending
  <2>7. RetireInv'
    BY <2>1, <2>5, <2>6 DEF RetireInv, One
  <2>8. FinalInv'
    BY <2>1 DEF FinalInv, FinalLabels
  <2>. QED
    BY <2>4, <2>7, <2>8
<1>7. ASSUME ComputeStop PROVE PhaseInv' /\ RetireInv' /\ FinalInv'
  <2>1. /\ pc[Compute] = "idle" /\ pc'[Compute] = "retire" /\ phase # "running"
        /\ released' = released \cup {Compute} /\ Compute \notin released
        /\ \A b \in Agents : b # Compute => pc'[b] = pc[b]
        /\ UNCHANGED <<count, phase, retiring, shutdown, queue>>
    BY <1>0, <1>7, AgentFacts DEF ComputeStop, Goto, ReleaseInv, FinalLabels
  <2>2. count = 0
    BY <2>1 DEF PhaseInv
  <2>3. \A b \in Agents : Tailing(b)' <=> Tailing(b)
    BY <2>1, AgentFacts DEF Tailing, TailLabels
  <2>4. PhaseInv'
    BY <2>1, <2>2, <2>3, AgentFacts DEF PhaseInv
  <2>5. (ControlPending' <=> ControlPending) /\ ComputePending' /\ ComputePending
    BY <2>1, AgentFacts DEF ControlPending, ComputePending
  <2>6. TailPending' <=> TailPending
    BY <2>1, <2>3 DEF TailPending
  <2>7. RetireInv'
    BY <2>1, <2>5, <2>6 DEF RetireInv, One
  <2>8. FinalInv'
    BY <2>1 DEF FinalInv, FinalLabels
  <2>. QED
    BY <2>4, <2>7, <2>8
<1>8. ASSUME Await PROVE PhaseInv' /\ RetireInv' /\ FinalInv'
  <2>1. /\ pc[Destroyer] = "await" /\ pc'[Destroyer] = "done"
        /\ shutdown.completed /\ ~shutdown.lock
        /\ \A b \in Agents : b # Destroyer => pc'[b] = pc[b]
        /\ UNCHANGED <<count, phase, released, retiring, shutdown>>
    BY <1>0, <1>8, AgentFacts DEF Await, ShutdownSeen, Goto
  <2>2. \A b \in Agents : Tailing(b)' <=> Tailing(b)
    BY <2>1 DEF Tailing, TailLabels
  <2>3. PhaseInv'
    BY <2>1, <2>2, AgentFacts DEF PhaseInv
  <2>4. (ControlPending' <=> ControlPending) /\ (ComputePending' <=> ComputePending)
    BY <2>1, AgentFacts DEF ControlPending, ComputePending
  <2>5. TailPending' <=> TailPending
    BY <2>1, <2>2 DEF TailPending
  <2>6. RetireInv'
    BY <2>1, <2>4, <2>5 DEF RetireInv, One
  <2>7. FinalInv'
    BY <2>1 DEF FinalInv, FinalLabels
  <2>. QED
    BY <2>3, <2>6, <2>7
<1>. QED
  <2>1. CASE ShutdownStep
    BY <2>1, <1>1, <1>2, <1>3, <1>4, <1>5, <1>6, <1>7, <1>8 DEF ShutdownStep
  <2>2. CASE ~ShutdownStep
    BY <2>2, OthersAreCalm, CalmKeepsShutdown
  <2>. QED
    BY <2>1, <2>2

----------------------------------------------------------------------------
(* Types.                                                                  *)

\* Every step keeps the types; the counters stay in range because of what
\* they count.
LEMMA TypeAfterStep ==
    ASSUME TypeOK, ControlInv, WaitInv, [Next]_vars, count' \in Nat, retiring' \in 0 .. 3
    PROVE  TypeOK'
<1>0. /\ \A b \in Agents : pc[b] \in OwnerLabels => arg[b] \in Ops
      /\ \A o \in Ops : Submitter(o) \in Agents
      /\ \A b \in Callbacks : b \in Agents /\ b[2] \in Ops
      /\ Control \in Agents /\ Compute \in Agents /\ Proactor \in Agents /\ Destroyer \in Agents
  BY AgentFacts DEF ControlInv
<1>01. WaitsOf \in [Ops -> Nat]
  BY QueueAssumption
<1>. USE DEF TypeOK, Goto, op, life, agent, Labels, OpLabels, QueueLabels
<1>1. ASSUME NEW o \in Ops, SubmitBegin(o) PROVE TypeOK'
  <2>0. PICK k \in KindsOf[o] : kind' = [kind EXCEPT ![o] = k]
    BY <1>1 DEF SubmitBegin
  <2>01. k \in Kinds
    BY QueueAssumption
  <2>1. kind' \in [Ops -> Kinds \cup {"none"}]
    BY <2>0, <2>01
  <2>. QED
    BY <1>0, <1>1, <2>1 DEF SubmitBegin
<1>2. ASSUME NEW o \in Ops, SubmitDiscard(o) PROVE TypeOK'
  BY <1>0, <1>2 DEF SubmitDiscard, With
<1>3. ASSUME NEW o \in Ops, SubmitFails(o) PROVE TypeOK'
  BY <1>0, <1>3 DEF SubmitFails, With
<1>4. ASSUME NEW o \in Ops, SubmitFinish(o) PROVE TypeOK'
  BY <1>0, <1>01, <1>4 DEF SubmitFinish, Stored
<1>5. ASSUME NEW o \in Ops, Register(o) PROVE TypeOK'
  <2>1. left[o] \in 1 .. WaitsOf[o]
    BY <1>5 DEF Register, WaitInv, WaitInvOf, Enqueuing
  <2>2. left' \in [Ops -> Nat]
    BY <1>01, <1>5, <2>1 DEF Register
  <2>. QED
    BY <1>0, <1>5, <2>2 DEF Register
<1>6. ASSUME NEW o \in Ops, RegisterFails(o) PROVE TypeOK'
  BY <1>0, <1>6 DEF RegisterFails
<1>7. ASSUME NEW o \in Ops, Subtract(o) PROVE TypeOK'
  <2>1. CASE With(Submitter(o), "settle", o, "failed")
    BY <1>0, <1>7, <2>1 DEF Subtract, With
  <2>2. CASE Goto(Submitter(o), "done") /\ UNCHANGED agent
    BY <1>0, <1>7, <2>2 DEF Subtract
  <2>. QED
    BY <1>7, <2>1, <2>2 DEF Subtract
<1>8. ASSUME NEW a \in Callbacks, Resolve(a) PROVE TypeOK'
  BY <1>0, <1>8 DEF Resolve, With
<1>9. ASSUME NEW a \in Callbacks, Record(a) PROVE TypeOK'
  BY <1>0, <1>9 DEF Record, FirstError
<1>10. ASSUME NEW a \in Callbacks, Decrement(a) PROVE TypeOK'
  BY <1>0, <1>10 DEF Decrement
<1>11. ASSUME NEW a \in Callbacks, Last(a) PROVE TypeOK'
  BY <1>0, <1>11 DEF Last
<1>12. ASSUME NEW a \in Agents, Hold(a) PROVE TypeOK'
  BY <1>0, <1>12 DEF Hold
<1>13. ASSUME NEW a \in Agents, Push(a) PROVE TypeOK'
  BY <1>0, <1>13, PushReady DEF Push, OwnerLabels
<1>14. ASSUME NEW a \in Agents, Wake(a) PROVE TypeOK'
  BY <1>0, <1>14 DEF Wake
<1>15. ASSUME NEW a \in Agents, Woken(a) PROVE TypeOK'
  BY <1>0, <1>15 DEF Woken
<1>16. ASSUME NEW a \in Agents, CompleteOp(a) PROVE TypeOK'
  <2>1. arg[a] \in Ops
    BY <1>0, <1>16 DEF CompleteOp, OwnerLabels
  <2>2. CASE With(a, "settle", arg[a], "failed") /\ UNCHANGED outcome
    BY <1>0, <1>16, <2>1, <2>2 DEF CompleteOp, With
  <2>3. CASE outcome' = [outcome EXCEPT ![arg[a]] = "ok"] /\ Goto(a, "free") /\ UNCHANGED agent
    BY <1>0, <1>16, <2>1, <2>3 DEF CompleteOp
  <2>. QED
    BY <1>16, <2>2, <2>3 DEF CompleteOp
<1>17. ASSUME NEW a \in Agents, Settle(a) PROVE TypeOK'
  BY <1>0, <1>17 DEF Settle, OwnerLabels
<1>18. ASSUME NEW a \in Agents, Free(a) PROVE TypeOK'
  BY <1>0, <1>18 DEF Free, OwnerLabels
<1>19. ASSUME NEW a \in Agents, OperationEnd(a) PROVE TypeOK'
  BY <1>0, <1>19 DEF OperationEnd, Return
<1>20. ASSUME NEW a \in Agents, StorePhase(a) PROVE TypeOK'
  BY <1>0, <1>20 DEF StorePhase
<1>21. ASSUME NEW a \in Agents, ScheduleControl(a) PROVE TypeOK'
  BY <1>0, <1>21 DEF ScheduleControl
<1>22. ASSUME NEW a \in Agents, ScheduleTail(a) PROVE TypeOK'
  BY <1>0, <1>22 DEF ScheduleTail
<1>23. ASSUME NEW a \in Agents, Retire(a) PROVE TypeOK'
  BY <1>0, <1>23 DEF Retire, Return
<1>24. ASSUME NEW a \in Agents, ShutdownLock(a) PROVE TypeOK'
  BY <1>0, <1>24 DEF ShutdownLock
<1>25. ASSUME NEW a \in Agents, ShutdownPost(a) PROVE TypeOK'
  BY <1>0, <1>25 DEF ShutdownPost
<1>26. ASSUME NEW a \in Agents, ShutdownUnlock(a) PROVE TypeOK'
  BY <1>0, <1>26 DEF ShutdownUnlock, Return
<1>27. ASSUME ControlRun PROVE TypeOK'
  BY <1>0, <1>27 DEF ControlRun
<1>28. ASSUME ControlPop PROVE TypeOK'
  <2>. DEFINE o == Head(ready)
  <2>1. o \in Ops /\ ready' \in Seq(Ops)
    BY <1>28 DEF ControlPop
  <2>2. CASE With(Control, "complete", o, "ok") /\ UNCHANGED issued
    BY <1>0, <1>28, <2>1, <2>2 DEF ControlPop, With
  <2>3. CASE issued' = issued \cup {o} /\ UNCHANGED <<pc, agent>>
    BY <1>0, <1>28, <2>1, <2>3 DEF ControlPop
  <2>4. CASE With(Control, "settle", o, "failed") /\ UNCHANGED issued
    BY <1>0, <1>28, <2>1, <2>4 DEF ControlPop, With
  <2>5. CASE With(Control, "announce", o, "ok") /\ UNCHANGED issued
    BY <1>0, <1>28, <2>1, <2>5 DEF ControlPop, With
  <2>6. CASE With(Control, "call", o, "ok") /\ UNCHANGED issued
    BY <1>0, <1>28, <2>1, <2>6 DEF ControlPop, With
  <2>. QED
    BY <1>28, <2>2, <2>3, <2>4, <2>5, <2>6 DEF ControlPop
<1>29. ASSUME ControlEmpty PROVE TypeOK'
  BY <1>0, <1>29 DEF ControlEmpty
<1>30. ASSUME ControlCheck PROVE TypeOK'
  BY <1>0, <1>30 DEF ControlCheck
<1>31. ASSUME ControlStop PROVE TypeOK'
  BY <1>0, <1>31 DEF ControlStop
<1>32. ASSUME ControlRouse PROVE TypeOK'
  BY <1>0, <1>32 DEF ControlRouse
<1>33. ASSUME ControlStopped PROVE TypeOK'
  BY <1>0, <1>33 DEF ControlStopped
<1>34. ASSUME ComputeStop PROVE TypeOK'
  BY <1>0, <1>34 DEF ComputeStop
<1>35. ASSUME NEW o \in Ops, ComputeFinish(o) PROVE TypeOK'
  <2>1. CASE With(Compute, "complete", o, "ok")
    BY <1>0, <1>35, <2>1 DEF ComputeFinish, With
  <2>2. CASE With(Compute, "settle", o, "failed")
    BY <1>0, <1>35, <2>2 DEF ComputeFinish, With
  <2>. QED
    BY <1>35, <2>1, <2>2 DEF ComputeFinish
<1>36. ASSUME NEW o \in Ops, ProactorFinish(o) PROVE TypeOK'
  <2>1. CASE With(Proactor, "complete", o, "ok") /\ UNCHANGED flagged
    BY <1>0, <1>36, <2>1 DEF ProactorFinish, With
  <2>2. CASE With(Proactor, "hold", o, "ok") /\ flagged' = flagged \cup {o}
    BY <1>0, <1>36, <2>2 DEF ProactorFinish, With
  <2>3. CASE With(Proactor, "settle", o, "failed") /\ UNCHANGED flagged
    BY <1>0, <1>36, <2>3 DEF ProactorFinish, With
  <2>. QED
    BY <1>36, <2>1, <2>2, <2>3 DEF ProactorFinish
<1>37. ASSUME Close PROVE TypeOK'
  BY <1>0, <1>37 DEF Close
<1>38. ASSUME Await PROVE TypeOK'
  BY <1>0, <1>38 DEF Await
<1>39. ASSUME UNCHANGED vars PROVE TypeOK'
  BY <1>39 DEF vars, op, life, agent
<1>40. ASSUME SignalFirst PROVE TypeOK'
  <2>1. arg[Control] \in Ops
    BY <1>0, <1>40 DEF SignalFirst, OwnerLabels
  <2>2. CASE With(Control, "settle", arg[Control], "failed") /\ UNCHANGED outcome
    BY <1>0, <1>40, <2>1, <2>2 DEF SignalFirst, With
  <2>3. CASE /\ outcome' = [outcome EXCEPT ![arg[Control]] = "ok"]
             /\ Goto(Control, "call") /\ UNCHANGED agent
    BY <1>0, <1>40, <2>1, <2>3 DEF SignalFirst
  <2>. QED
    BY <1>40, <2>2, <2>3 DEF SignalFirst
<1>41. ASSUME HostCall PROVE TypeOK'
  <2>1. arg[Control] \in Ops
    BY <1>0, <1>41 DEF HostCall, OwnerLabels
  <2>2. CASE With(Control, "settle", arg[Control], "failed") /\ UNCHANGED outcome
    BY <1>0, <1>41, <2>1, <2>2 DEF HostCall, With
  <2>3. CASE /\ outcome' = [outcome EXCEPT ![arg[Control]] = "deferred"]
             /\ Goto(Control, "free") /\ UNCHANGED agent
    BY <1>0, <1>41, <2>1, <2>3 DEF HostCall
  <2>4. CASE Goto(Control, "free") /\ UNCHANGED <<agent, outcome>>
    BY <1>0, <1>41, <2>1, <2>4 DEF HostCall
  <2>5. CASE Goto(Control, "complete") /\ UNCHANGED <<agent, outcome>>
    BY <1>0, <1>41, <2>1, <2>5 DEF HostCall
  <2>. QED
    BY <1>41, <2>2, <2>3, <2>4, <2>5 DEF HostCall, AfterDeferred
<1>. QED
  BY <1>1, <1>2, <1>3, <1>4, <1>5, <1>6, <1>7, <1>8, <1>9, <1>10, <1>11, <1>12, <1>13, <1>14,
     <1>15, <1>16, <1>17, <1>18, <1>19, <1>20, <1>21, <1>22, <1>23, <1>24, <1>25, <1>26, <1>27,
     <1>28, <1>29, <1>30, <1>31, <1>32, <1>33, <1>34, <1>35, <1>36, <1>37, <1>38, <1>39, <1>40,
     <1>41
     DEF Next, Submit, Callbacked, ControlStep, ComputeStep, ProactorStep, Shared

----------------------------------------------------------------------------
(* Outcomes.                                                               *)

\* Where OutcomeOf says something of the agent.
OutcomeLabels == OwnerLabels \ {"last"}

\* A step that does not change what OutcomeOf says of operation p.
LEMMA OutcomeFrame ==
    ASSUME NEW p \in Ops, OutcomeOf(p),
           UNCHANGED <<pc[Submitter(p)], status[Submitter(p)], errorStatus[p], outcome[p],
                       memory[p], kind[p]>>,
           \A i \in 1 .. WaitsOf[p] : UNCHANGED <<pc[Callback(p, i)], status[Callback(p, i)]>>,
           IsReady(p)' => IsReady(p), p \in issued' => p \in issued,
           \A b \in Agents : arg'[b] = p /\ pc'[b] \in OutcomeLabels =>
                               arg[b] = p /\ pc'[b] = pc[b]
    PROVE  OutcomeOf(p)'
<1>1. Outstanding(p)' = Outstanding(p) /\ Enqueuing(p)' = Enqueuing(p)
  BY OtherOperation
<1>2. Deciding(p)' <=> Deciding(p)
  BY <1>1 DEF Deciding
<1>3. Clean(p)' <=> Clean(p)
  BY DEF Clean
<1>4. \A b \in Agents : arg'[b] = p => Settles(b, p)'
  BY <1>3 DEF OutcomeOf, Settles, OutcomeLabels, OwnerLabels
<1>. QED
  BY <1>2, <1>3, <1>4 DEF OutcomeOf

\* A step of an agent that works on operation o leaves the others alone.
LEMMA OutcomeOfOthers ==
    ASSUME OutcomeInv, NEW a \in Agents, NEW o \in Ops,
           a[1] \in {"submit", "wait"} => a[2] = o,
           \A b \in Agents : b # a => UNCHANGED <<pc[b], arg[b], status[b]>>,
           arg'[a] = o \/ pc'[a] \notin OwnerLabels,
           \A p \in Ops : p # o =>
              /\ UNCHANGED <<errorStatus[p], outcome[p], memory[p], kind[p]>>
              /\ IsReady(p)' => IsReady(p)
              /\ p \in issued' => p \in issued
    PROVE  \A p \in Ops : p # o => OutcomeOf(p)'
<1>. SUFFICES ASSUME NEW p \in Ops, p # o PROVE OutcomeOf(p)'
  OBVIOUS
<1>1. UNCHANGED <<pc[Submitter(p)], status[Submitter(p)], errorStatus[p], outcome[p], memory[p],
                  kind[p]>>
  BY AgentFacts
<1>2. \A i \in 1 .. WaitsOf[p] : UNCHANGED <<pc[Callback(p, i)], status[Callback(p, i)]>>
  BY AgentFacts
<1>3. \A b \in Agents : arg'[b] = p /\ pc'[b] \in OutcomeLabels =>
        arg[b] = p /\ pc'[b] = pc[b]
  BY DEF OwnerLabels, OutcomeLabels
<1>4. OutcomeOf(p)
  BY DEF OutcomeInv
<1>. QED
  BY <1>1, <1>2, <1>3, <1>4, OutcomeFrame

\* What an owner knows about its operation.
LEMMA OwnerFacts ==
    ASSUME ControlInv, OwnerInv, OutcomeInv, NEW a \in Agents, pc[a] \in OwnerLabels
    PROVE  /\ arg[a] \in Ops /\ memory[arg[a]] = "live" /\ ~Undecided(arg[a])
           /\ ~IsReady(arg[a]) /\ arg[a] \notin issued
           /\ \A b \in Agents : b # a /\ arg[b] = arg[a] => pc[b] \notin OwnerLabels
           /\ pc[Submitter(arg[a])] \notin {"begin", "finish"}
           /\ pc[a] # "last" => ~Deciding(arg[a])
           /\ pc[a] # "free" => status[Submitter(arg[a])] # "discarded"
           /\ a[1] \in {"submit", "wait"} => a[2] = arg[a]
<1>1. /\ arg[a] \in Ops /\ memory[arg[a]] = "live" /\ ~Undecided(arg[a])
      /\ ~IsReady(arg[a]) /\ arg[a] \notin issued
      /\ \A b \in Agents : b # a /\ arg[b] = arg[a] => pc[b] \notin OwnerLabels
  BY DEF ControlInv, OwnerInv
<1>2. PICK o \in Ops : o = arg[a]
  BY <1>1
<1>3. pc[Submitter(o)] \notin {"begin", "finish"}
  BY <1>1, <1>2 DEF OwnerInv, Undecided
<1>4. ASSUME pc[a] # "last" PROVE ~Deciding(o)
  <2>1. ASSUME NEW i \in 1 .. WaitsOf[o] PROVE pc[Callback(o, i)] # "last"
    <3>1. Callback(o, i) \in Agents /\ arg[Callback(o, i)] = o
      BY AgentFacts DEF ControlInv
    <3>. QED
      BY <1>1, <1>2, <1>4, <3>1 DEF OwnerLabels
  <2>. QED
    BY <1>1, <1>2, <2>1 DEF Deciding, Undecided
<1>5. ASSUME pc[a] # "free" PROVE status[Submitter(o)] # "discarded"
  <2>1. Submitter(o) \in Agents /\ arg[Submitter(o)] = o
    BY AgentFacts DEF ControlInv
  <2>. QED
    BY <1>1, <1>2, <1>5, <2>1 DEF OwnerLabels, OutcomeInv, OutcomeOf
<1>6. a[1] \in {"submit", "wait"} => a[2] = arg[a]
  BY AgentFacts DEF ControlInv
<1>. QED
  BY <1>1, <1>2, <1>3, <1>4, <1>5, <1>6

\* What is known about an operation without an owner.
LEMMA UndecidedFacts ==
    ASSUME ControlInv, OwnerInv, OutcomeInv, NEW o \in Ops, Undecided(o)
    PROVE  /\ memory[o] = "live" /\ ~IsReady(o) /\ o \notin issued /\ outcome[o] = "none"
           /\ \A b \in Agents : arg[b] = o => pc[b] \notin OwnerLabels
           /\ status[Submitter(o)] # "discarded"
<1>1. /\ memory[o] = "live" /\ ~IsReady(o) /\ o \notin issued
      /\ \A b \in Agents : arg[b] = o => pc[b] \notin OwnerLabels
  BY UndecidedIsUnowned DEF Owns
<1>2. outcome[o] = "none"
  BY DEF Undecided, Deciding, OutcomeInv, OutcomeOf
<1>3. status[Submitter(o)] # "discarded"
  <2>1. Submitter(o) \in Agents /\ arg[Submitter(o)] = o
    BY AgentFacts DEF ControlInv
  <2>. QED
    BY <1>1, <2>1 DEF OwnerLabels, OutcomeInv, OutcomeOf
<1>. QED
  BY <1>1, <1>2, <1>3

\* The steps that touch no operation and carry no status.
Still ==
    /\ UNCHANGED <<kind, arg, status, memory, errorStatus, ready, issued, outcome>>
    /\ \A b \in Agents :
          \/ pc'[b] = pc[b]
          \/ /\ pc[b] \notin WaitLabels \cup OwnerLabels
             /\ pc'[b] \notin WaitLabels \cup OwnerLabels

LEMMA StillKeepsOutcomes ==
    ASSUME Quiet, Still, OutcomeInv PROVE OutcomeInv'
<1>1. ASSUME NEW o \in Ops PROVE OutcomeOf(o)'
  <2>1. /\ Outstanding(o)' = Outstanding(o) /\ Enqueuing(o)' = Enqueuing(o)
        /\ pc'[Submitter(o)] \in {"begin", "finish"} <=> pc[Submitter(o)] \in {"begin", "finish"}
        /\ pc[Submitter(o)] = "free" => pc'[Submitter(o)] = "free"
    BY QuietKeepsWaits, AgentFacts DEF Still, OwnerLabels
  <2>2. \A i \in 1 .. WaitsOf[o] :
          \/ pc'[Callback(o, i)] = pc[Callback(o, i)]
          \/ /\ pc[Callback(o, i)] \notin WaitLabels \cup OwnerLabels
             /\ pc'[Callback(o, i)] \notin WaitLabels \cup OwnerLabels
    BY AgentFacts DEF Still
  <2>3. Deciding(o)' <=> Deciding(o)
    BY <2>1, <2>2 DEF Deciding, OwnerLabels
  <2>4. Clean(o)' <=> Clean(o)
    BY <2>2 DEF Clean, Still, WaitLabels, OwnerLabels
  <2>5. IsReady(o)' <=> IsReady(o)
    BY DEF IsReady, Still
  <2>6. Deciding(o) => \A i \in 1 .. WaitsOf[o] :
          /\ pc'[Callback(o, i)] \notin {"unregistered", "registered", "record"}
          /\ status[Callback(o, i)] # "ok"
          => errorStatus[o]
    BY <2>2 DEF OutcomeInv, OutcomeOf, WaitLabels
  <2>7. \A b \in Agents : arg[b] = o => Settles(b, o)'
    BY <2>4 DEF OutcomeInv, OutcomeOf, Settles, Still, OwnerLabels
  <2>. QED
    BY <2>1, <2>3, <2>4, <2>5, <2>6, <2>7 DEF OutcomeInv, OutcomeOf, Still
<1>. QED
  BY <1>1 DEF OutcomeInv, Still

\* A step of the owner of an operation that leaves the waits alone.
LEMMA OwnerStep ==
    ASSUME Quiet, NEW o \in Ops, UNCHANGED <<ready, issued>>,
           \A i \in 1 .. WaitsOf[o] : UNCHANGED status[Callback(o, i)],
           \A i \in 1 .. WaitsOf[o] : (pc[Callback(o, i)] = "last" <=> pc'[Callback(o, i)] = "last")
    PROVE  (Deciding(o)' <=> Deciding(o)) /\ (Clean(o)' <=> Clean(o)) /\ (IsReady(o)' <=> IsReady(o))
<1>1. /\ Outstanding(o)' = Outstanding(o) /\ Enqueuing(o)' = Enqueuing(o)
      /\ \A i \in 1 .. WaitsOf[o] :
           pc[Callback(o, i)] = "unregistered" <=> pc'[Callback(o, i)] = "unregistered"
  BY QuietKeepsWaits
<1>2. Deciding(o)' <=> Deciding(o)
  BY <1>1 DEF Deciding
<1>3. \A i \in 1 .. WaitsOf[o] : pc[Callback(o, i)] \in {"registered", "record", "decrement"}
                             <=> pc'[Callback(o, i)] \in {"registered", "record", "decrement"}
  BY <1>1 DEF Outstanding
<1>4. Clean(o)' <=> Clean(o)
  BY <1>1, <1>3 DEF Clean
<1>. QED
  BY <1>2, <1>4 DEF IsReady

\* Outcomes stay true: a failed wait is seen by the wait that decides.
LEMMA OutcomeAfterStep ==
    ASSUME TypeOK, ControlInv, WaitInv, OwnerInv, OutcomeInv, [Next]_vars PROVE OutcomeInv'
<1>0. /\ pc \in [Agents -> Labels] /\ arg \in [Agents -> Ops \cup {NoOp}]
      /\ status \in [Agents -> {"ok", "failed", "discarded"}]
      /\ memory \in [Ops -> {"none", "live", "freed"}] /\ errorStatus \in [Ops -> BOOLEAN]
      /\ ready \in Seq(Ops) /\ issued \subseteq Ops
      /\ outcome \in [Ops -> {"none", "ok", "failed", "deferred"}]
      /\ kind \in [Ops -> Kinds \cup {"none"}]
  BY DEF TypeOK
<1>01. /\ \A o \in Ops : OutcomeOf(o)
       /\ \A a \in Callbacks : status[a] # "discarded"
       /\ \A o \in Ops : arg[Submitter(o)] = o
       /\ \A a \in Callbacks : arg[a] = a[2]
  BY DEF OutcomeInv, ControlInv
<1>02. UNCHANGED ready => \A o \in Ops : IsReady(o)' <=> IsReady(o)
  BY DEF IsReady
<1>1. ASSUME NEW o \in Ops, SubmitBegin(o) PROVE OutcomeInv'
  <2>1. /\ pc[Submitter(o)] = "begin" /\ pc'[Submitter(o)] = "finish"
        /\ \A b \in Agents : b # Submitter(o) => pc'[b] = pc[b]
        /\ UNCHANGED <<arg, status, errorStatus, outcome, ready, issued>>
        /\ \A p \in Ops : p # o => UNCHANGED kind[p]
        /\ memory' = [memory EXCEPT ![o] = "live"] /\ memory[o] = "none"
    BY <1>0, <1>1, AgentFacts DEF SubmitBegin, Goto, agent, OwnerInv
  <2>2. Outstanding(o)' = Outstanding(o) /\ Enqueuing(o)' = Enqueuing(o)
    BY <2>1, AgentFacts DEF Outstanding, Enqueuing
  <2>3. \A i \in 1 .. WaitsOf[o] : pc'[Callback(o, i)] = pc[Callback(o, i)]
    BY <2>1, AgentFacts
  <2>4. (Deciding(o)' <=> Deciding(o)) /\ (Clean(o)' <=> Clean(o))
    BY <2>1, <2>2, <2>3 DEF Deciding, Clean
  <2>5. status[Submitter(o)] # "discarded"
    BY <1>01, <2>1 DEF OutcomeOf
  <2>6. \A b \in Agents : arg[b] = o => pc'[b] \notin OwnerLabels
    BY <2>1 DEF OwnerInv, OwnerLabels
  <2>61. \A b \in Agents : arg'[b] = o => Settles(b, o)'
    BY <2>1, <2>6 DEF Settles, OwnerLabels
  <2>7. OutcomeOf(o)'
    BY <1>0, <1>01, <1>02, <2>1, <2>3, <2>4, <2>5, <2>61 DEF OutcomeOf
  <2>8. \A p \in Ops : p # o => OutcomeOf(p)'
    BY <1>0, <1>01, <1>02, <2>1, OutcomeOfOthers, AgentFacts
  <2>. QED
    BY <1>01, <2>1, <2>7, <2>8 DEF OutcomeInv
<1>2. ASSUME NEW o \in Ops, SubmitDiscard(o) \/ SubmitFails(o) PROVE OutcomeInv'
  <2>1. /\ pc[Submitter(o)] = "finish" /\ pc'[Submitter(o)] \in {"free", "settle"}
        /\ arg'[Submitter(o)] = o
        /\ pc'[Submitter(o)] = "free" <=> status'[Submitter(o)] = "discarded"
        /\ \A b \in Agents : b # Submitter(o) => UNCHANGED <<pc[b], arg[b], status[b]>>
        /\ UNCHANGED <<kind, memory, errorStatus, outcome, ready, issued>>
    BY <1>0, <1>2, AgentFacts DEF SubmitDiscard, SubmitFails, With, Goto, op
  <2>2. Undecided(o) /\ Outstanding(o) = {}
    BY <2>1, LastOutstanding DEF Undecided
  <2>3. \A i \in 1 .. WaitsOf[o] : UNCHANGED <<pc[Callback(o, i)], status[Callback(o, i)]>>
    BY <2>1, AgentFacts
  <2>4. \A i \in 1 .. WaitsOf[o] : pc[Callback(o, i)] = "unregistered"
    BY <2>1 DEF WaitInv, WaitInvOf
  <2>5. ~Deciding(o)'
    BY <2>1, <2>3, <2>4 DEF Deciding, Outstanding, Enqueuing
  <2>51. \A b \in Agents : arg'[b] = o => Settles(b, o)'
    BY <2>1, <2>2, UndecidedFacts DEF Settles, OwnerLabels
  <2>6. OutcomeOf(o)'
    BY <1>02, <2>1, <2>2, <2>5, <2>51, UndecidedFacts DEF OutcomeOf
  <2>7. \A p \in Ops : p # o => OutcomeOf(p)'
    BY <1>02, <2>1, OutcomeOfOthers, AgentFacts
  <2>8. \A c \in Callbacks : status'[c] # "discarded"
    BY <1>01, <2>1, AgentFacts
  <2>. QED
    BY <2>6, <2>7, <2>8 DEF OutcomeInv
<1>3. ASSUME NEW o \in Ops, SubmitFinish(o) PROVE OutcomeInv'
  <2>1. /\ pc[Submitter(o)] = "finish" /\ pc'[Submitter(o)] \in {"push", "register"}
        /\ \A b \in Agents : b # Submitter(o) => pc'[b] = pc[b]
        /\ UNCHANGED <<kind, memory, errorStatus, outcome, ready, issued, arg, status>>
    BY <1>0, <1>3, AgentFacts DEF SubmitFinish, Goto, agent
  <2>2. Undecided(o)
    BY <2>1 DEF Undecided
  <2>3. \A i \in 1 .. WaitsOf[o] : pc'[Callback(o, i)] = "unregistered"
    BY <2>1, AgentFacts DEF WaitInv, WaitInvOf
  <2>4. Clean(o)'
    BY <2>3 DEF Clean
  <2>41. \A b \in Agents : arg'[b] = o => Settles(b, o)'
    BY <2>1, <2>2, <2>4, UndecidedFacts DEF Settles, OwnerLabels
  <2>5. OutcomeOf(o)'
    BY <1>02, <2>1, <2>2, <2>3, <2>4, <2>41, UndecidedFacts DEF OutcomeOf
  <2>6. \A p \in Ops : p # o => OutcomeOf(p)'
    BY <1>01, <1>02, <2>1, OutcomeOfOthers, AgentFacts
  <2>. QED
    BY <1>01, <2>1, <2>5, <2>6 DEF OutcomeInv
<1>4. ASSUME NEW o \in Ops, Register(o) PROVE OutcomeInv'
  <2>1. left[o] \in 1 .. WaitsOf[o] /\ pc[Submitter(o)] = "register"
    BY <1>4 DEF Register, WaitInv, WaitInvOf, Enqueuing
  <2>2. PICK c \in Callbacks : c = Callback(o, left[o])
    BY <2>1, AgentFacts
  <2>3. c \in Agents /\ c # Submitter(o) /\ c[2] = o
    BY <2>1, <2>2, AgentFacts
  <2>4. /\ pc'[Submitter(o)] \in {"done", "register"} /\ pc'[c] = "registered"
        /\ \A b \in Agents : b # Submitter(o) /\ b # c => pc'[b] = pc[b]
        /\ UNCHANGED <<kind, arg, status, memory, errorStatus, outcome, ready, issued>>
    BY <1>0, <1>4, <2>2, <2>3, AgentFacts DEF Register, agent
  <2>5. Undecided(o) /\ Deciding(o)
    BY <2>1 DEF Undecided, Enqueuing, Deciding
  <2>6. \A b \in Agents : arg[b] = o => pc'[b] \notin OwnerLabels
    BY <2>4, <2>5, UndecidedFacts DEF OwnerLabels
  <2>7. \A i \in 1 .. WaitsOf[o] : pc'[Callback(o, i)] = pc[Callback(o, i)]
                                     \/ pc'[Callback(o, i)] = "registered"
    BY <2>4, AgentFacts
  <2>71. \A b \in Agents : arg'[b] = o => Settles(b, o)'
    BY <2>4, <2>6 DEF Settles, OwnerLabels
  <2>8. OutcomeOf(o)'
    BY <1>01, <1>02, <2>4, <2>5, <2>7, <2>71, UndecidedFacts DEF OutcomeOf
  <2>9. ASSUME NEW p \in Ops, p # o PROVE OutcomeOf(p)'
    <3>1. /\ UNCHANGED pc[Submitter(p)]
          /\ \A i \in 1 .. WaitsOf[p] : UNCHANGED pc[Callback(p, i)]
      BY <2>3, <2>4, <2>9, AgentFacts
    <3>2. \A b \in Agents : arg'[b] = p /\ pc'[b] \in OutcomeLabels =>
            arg[b] = p /\ pc'[b] = pc[b]
      BY <2>4 DEF OutcomeLabels, OwnerLabels
    <3>. QED
      BY <1>01, <1>02, <2>4, <3>1, <3>2, OutcomeFrame
  <2>. QED
    BY <1>01, <2>4, <2>8, <2>9 DEF OutcomeInv
<1>5. ASSUME NEW o \in Ops, RegisterFails(o) PROVE OutcomeInv'
  <2>1. /\ pc[Submitter(o)] = "register" /\ pc'[Submitter(o)] = "subtract"
        /\ \A b \in Agents : b # Submitter(o) => pc'[b] = pc[b]
        /\ UNCHANGED <<kind, memory, outcome, ready, issued, arg, status>>
        /\ errorStatus' = [errorStatus EXCEPT ![o] = TRUE]
    BY <1>0, <1>5, AgentFacts DEF RegisterFails, Goto, agent
  <2>2. Undecided(o)
    BY <2>1 DEF Undecided, Enqueuing
  <2>3. \A b \in Agents : arg[b] = o => pc'[b] \notin OwnerLabels
    BY <2>1, <2>2, UndecidedFacts DEF OwnerLabels
  <2>31. \A b \in Agents : arg'[b] = o => Settles(b, o)'
    BY <2>1, <2>3 DEF Settles, OwnerLabels
  <2>4. OutcomeOf(o)'
    BY <1>0, <1>02, <2>1, <2>2, <2>31, UndecidedFacts DEF OutcomeOf
  <2>41. /\ Submitter(o) \in Agents /\ Submitter(o)[2] = o /\ arg'[Submitter(o)] = o
         /\ \A b \in Agents : b # Submitter(o) => UNCHANGED <<pc[b], arg[b], status[b]>>
         /\ \A p \in Ops : p # o => UNCHANGED <<errorStatus[p], outcome[p], memory[p], kind[p]>>
    BY <1>0, <1>01, <2>1, AgentFacts
  <2>5. \A p \in Ops : p # o => OutcomeOf(p)'
    BY <1>02, <2>1, <2>41, OutcomeOfOthers
  <2>. QED
    BY <1>01, <2>1, <2>4, <2>5 DEF OutcomeInv
<1>6. ASSUME NEW o \in Ops, Subtract(o) PROVE OutcomeInv'
  <2>1. /\ pc[Submitter(o)] = "subtract" /\ pc'[Submitter(o)] \in {"settle", "done"}
        /\ arg'[Submitter(o)] = o
        /\ status'[Submitter(o)] \in {status[Submitter(o)], "failed"}
        /\ \A b \in Agents : b # Submitter(o) => UNCHANGED <<pc[b], arg[b], status[b]>>
        /\ UNCHANGED <<kind, memory, errorStatus, outcome, ready, issued>>
    BY <1>0, <1>01, <1>6, AgentFacts DEF Subtract, With, Goto, agent
  <2>2. Undecided(o) /\ Deciding(o)
    BY <2>1 DEF Undecided, Enqueuing, Deciding
  <2>3. \A b \in Agents : arg'[b] = o => pc'[b] \notin OwnerLabels \ {"settle"}
    BY <2>1, <2>2, UndecidedFacts DEF OwnerLabels
  <2>4. \A i \in 1 .. WaitsOf[o] : UNCHANGED <<pc[Callback(o, i)], status[Callback(o, i)]>>
    BY <2>1, AgentFacts
  <2>41. \A b \in Agents : arg'[b] = o => Settles(b, o)'
    BY <2>1, <2>2, <2>3, UndecidedFacts DEF Settles, OwnerLabels
  <2>5. OutcomeOf(o)'
    BY <1>01, <1>02, <2>1, <2>2, <2>4, <2>41, UndecidedFacts DEF OutcomeOf
  <2>6. \A p \in Ops : p # o => OutcomeOf(p)'
    BY <1>02, <2>1, OutcomeOfOthers, AgentFacts
  <2>7. \A c \in Callbacks : status'[c] # "discarded"
    BY <1>01, <2>1, AgentFacts
  <2>. QED
    BY <2>5, <2>6, <2>7 DEF OutcomeInv
<1>7. ASSUME NEW a \in Callbacks, Resolve(a) \/ Record(a) \/ Decrement(a) PROVE OutcomeInv'
  <2>01. PICK o \in Ops : o = a[2]
    BY AgentFacts
  <2>02. PICK i \in 1 .. WaitsOf[o] : a = Callback(o, i)
    BY <2>01, AgentFacts
  <2>1. o = a[2] /\ a = Callback(o, i)
    BY <2>01, <2>02
  <2>2. /\ pc[a] \in {"registered", "record", "decrement"}
        /\ pc'[a] \in {"record", "decrement", "last", "done"} /\ arg'[a] = o
        /\ status'[a] # "discarded" /\ a \in Agents
        /\ \A b \in Agents : b # a => UNCHANGED <<pc[b], arg[b], status[b]>>
        /\ UNCHANGED <<kind, memory, outcome, ready, issued>>
        /\ \A p \in Ops : p # o => UNCHANGED errorStatus[p]
    BY <1>0, <1>01, <1>7, <2>1, AgentFacts
       DEF Resolve, Record, Decrement, With, Goto, op, agent
  <2>3. pc'[a] \in {"decrement", "last", "done"} /\ status'[a] # "ok" =>
          IF pc[a] = "record" THEN errorStatus'[o] ELSE pc[a] = "decrement" /\ status[a] # "ok"
    BY <1>0, <1>01, <1>7, <2>1, <2>2
       DEF Resolve, Record, Decrement, With, Goto, op, agent, FirstError
  <2>4. errorStatus[o] => errorStatus'[o]
    BY <1>0, <1>7, <2>1 DEF Resolve, Record, Decrement, op, FirstError
  <2>5. Undecided(o) /\ Deciding(o)
    BY <2>1, <2>2 DEF Undecided, Deciding, Outstanding
  <2>6. \A b \in Agents : arg'[b] = o => pc'[b] \notin OutcomeLabels
    BY <2>2, <2>5, UndecidedFacts DEF OwnerLabels, OutcomeLabels
  <2>7. \A k \in 1 .. WaitsOf[o] :
          /\ pc'[Callback(o, k)] \notin {"unregistered", "registered", "record"}
          /\ status'[Callback(o, k)] # "ok"
          => errorStatus'[o]
    <3>. SUFFICES ASSUME NEW k \in 1 .. WaitsOf[o],
                         pc'[Callback(o, k)] \notin {"unregistered", "registered", "record"},
                         status'[Callback(o, k)] # "ok"
                  PROVE  errorStatus'[o]
      OBVIOUS
    <3>1. CASE Callback(o, k) = a
      BY <1>01, <2>1, <2>2, <2>3, <2>4, <2>5, <3>1 DEF OutcomeOf
    <3>2. CASE Callback(o, k) # a
      BY <1>01, <2>2, <2>4, <2>5, <3>2, AgentFacts DEF OutcomeOf
    <3>. QED
      BY <3>1, <3>2
  <2>8. Submitter(o) \in Agents /\ Submitter(o) # a
    BY <2>1, AgentFacts
  <2>81. \A b \in Agents : arg'[b] = o => Settles(b, o)'
    BY <2>6 DEF Settles, OutcomeLabels, OwnerLabels
  <2>9. OutcomeOf(o)'
    BY <1>02, <2>2, <2>5, <2>7, <2>8, <2>81, UndecidedFacts DEF OutcomeOf
  <2>10. \A p \in Ops : p # o => OutcomeOf(p)'
    BY <1>02, <2>1, <2>2, OutcomeOfOthers
  <2>11. \A c \in Callbacks : status'[c] # "discarded"
    BY <1>01, <2>2, AgentFacts
  <2>. QED
    BY <2>9, <2>10, <2>11 DEF OutcomeInv
<1>8. ASSUME NEW a \in Callbacks, Last(a) PROVE OutcomeInv'
  <2>01. PICK o \in Ops : o = a[2]
    BY AgentFacts
  <2>02. PICK i \in 1 .. WaitsOf[o] : a = Callback(o, i)
    BY <2>01, AgentFacts
  <2>1. o = a[2] /\ a = Callback(o, i)
    BY <2>01, <2>02
  <2>2. /\ pc[a] = "last" /\ arg[a] = o /\ a \in Agents
        /\ IF errorStatus[o] THEN pc'[a] = "settle" /\ status'[a] = "failed"
           ELSE pc'[a] = "hold" /\ status'[a] = status[a]
        /\ \A b \in Agents : b # a => UNCHANGED <<pc[b], arg[b], status[b]>>
        /\ UNCHANGED <<kind, arg, memory, outcome, ready, issued>>
        /\ \A p \in Ops : p # o => UNCHANGED errorStatus[p]
    BY <1>0, <1>01, <1>8, <2>1, AgentFacts DEF Last, Goto
  <2>3. Deciding(o)
    BY <2>1, <2>2 DEF Deciding
  <2>4. /\ ~Undecided(o) /\ memory[o] = "live" /\ ~IsReady(o) /\ o \notin issued
        /\ \A b \in Agents : b # a /\ arg[b] = o => pc[b] \notin OwnerLabels
        /\ pc[Submitter(o)] \notin {"begin", "finish"}
        /\ status[Submitter(o)] # "discarded"
    BY <2>2, OwnerFacts DEF OwnerLabels
  <2>5. Submitter(o) \in Agents /\ Submitter(o) # a
    BY <2>1, AgentFacts
  <2>6. \A k \in 1 .. WaitsOf[o] : k # i =>
          /\ Callback(o, k) \in Agents /\ Callback(o, k) # a /\ arg[Callback(o, k)] = o
          /\ pc[Callback(o, k)] \notin {"registered", "record", "decrement", "last"}
    <3>1. \A k \in 1 .. WaitsOf[o] : k # i =>
            Callback(o, k) \in Agents /\ Callback(o, k) # a /\ arg[Callback(o, k)] = o
      BY <1>01, <2>1, AgentFacts
    <3>2. \A k \in 1 .. WaitsOf[o] : k # i => pc[Callback(o, k)] # "last"
      BY <2>4, <3>1 DEF OwnerLabels
    <3>. QED
      BY <2>4, <3>1, <3>2 DEF Undecided, Outstanding
  <2>7. ~Deciding(o)'
    <3>1. ~Enqueuing(o)'
      BY <2>2, <2>4, <2>5 DEF Undecided, Enqueuing
    <3>2. \A k \in 1 .. WaitsOf[o] :
            pc'[Callback(o, k)] \notin {"registered", "record", "decrement", "last"}
      BY <2>1, <2>2, <2>6
    <3>. QED
      BY <3>1, <3>2 DEF Deciding, Outstanding
  <2>8. pc'[a] = "hold" => Clean(o)'
    <3>. SUFFICES ASSUME pc'[a] = "hold", NEW k \in 1 .. WaitsOf[o],
                         pc'[Callback(o, k)] # "unregistered"
                  PROVE  /\ pc'[Callback(o, k)] \notin {"registered", "record", "decrement", "last"}
                         /\ status'[Callback(o, k)] = "ok"
      BY DEF Clean
    <3>1. ~errorStatus[o]
      BY <2>2
    <3>2. CASE k = i
      BY <1>01, <2>1, <2>2, <2>3, <3>1, <3>2 DEF OutcomeOf
    <3>3. CASE k # i
      BY <1>01, <2>2, <2>3, <2>6, <3>1, <3>3 DEF OutcomeOf
    <3>. QED
      BY <3>2, <3>3
  <2>9. outcome[o] = "none"
    BY <1>01, <2>3 DEF OutcomeOf
  <2>10. OutcomeOf(o)'
    <3>1. \A b \in Agents : arg'[b] = o => Settles(b, o)'
      BY <2>2, <2>4, <2>8, <2>9 DEF Settles, OwnerLabels
    <3>. QED
      BY <1>02, <2>2, <2>4, <2>5, <2>7, <2>8, <2>9, <3>1 DEF OutcomeOf
  <2>11. \A p \in Ops : p # o => OutcomeOf(p)'
    BY <1>02, <2>1, <2>2, OutcomeOfOthers
  <2>12. \A c \in Callbacks : status'[c] # "discarded"
    BY <1>01, <2>2, AgentFacts
  <2>. QED
    BY <2>10, <2>11, <2>12 DEF OutcomeInv
<1>9. ASSUME Quiet, NEW a \in Agents, Hold(a) PROVE OutcomeInv'
  <2>1. PICK o \in Ops : o = arg[a]
    BY <1>9, OwnerFacts DEF Hold, OwnerLabels
  <2>2. /\ pc[a] = "hold" /\ pc'[a] = "push"
        /\ \A b \in Agents : b # a => UNCHANGED <<pc[b], arg[b], status[b]>>
        /\ UNCHANGED <<kind, arg, status, memory, errorStatus, outcome, ready, issued>>
    BY <1>0, <1>9, <2>1 DEF Hold, Goto, agent, op
  <2>3. /\ memory[o] = "live" /\ ~Undecided(o) /\ ~IsReady(o) /\ o \notin issued /\ ~Deciding(o)
        /\ \A b \in Agents : b # a /\ arg[b] = o => pc[b] \notin OwnerLabels
        /\ pc[Submitter(o)] \notin {"begin", "finish"}
        /\ a[1] \in {"submit", "wait"} => a[2] = o
        /\ status[Submitter(o)] # "discarded"
    BY <2>1, <2>2, OwnerFacts DEF OwnerLabels
  <2>4. (Deciding(o)' <=> Deciding(o)) /\ (Clean(o)' <=> Clean(o)) /\ (IsReady(o)' <=> IsReady(o))
    BY <1>9, <2>2, OwnerStep, AgentFacts
  <2>5. Clean(o) /\ outcome[o] = "none" /\ pc'[Submitter(o)] \notin {"begin", "finish"}
    BY <1>01, <1>9, <2>1, <2>2, <2>3, QuietKeepsWaits DEF OutcomeOf, Settles
  <2>51. \A b \in Agents : arg'[b] = o => Settles(b, o)'
    BY <2>2, <2>3, <2>4, <2>5 DEF Settles, OwnerLabels
  <2>6. OutcomeOf(o)'
    BY <1>01, <2>2, <2>3, <2>4, <2>5, <2>51 DEF OutcomeOf
  <2>7. \A p \in Ops : p # o => OutcomeOf(p)'
    BY <1>02, <2>1, <2>2, <2>3, OutcomeOfOthers
  <2>. QED
    BY <1>01, <2>2, <2>6, <2>7 DEF OutcomeInv
<1>10. ASSUME Quiet, NEW a \in Agents, Push(a) PROVE OutcomeInv'
  <2>1. PICK o \in Ops : o = arg[a]
    BY <1>10, OwnerFacts DEF Push, OwnerLabels
  <2>2. /\ pc[a] = "push" /\ pc'[a] = "wake" /\ ready' = <<o>> \o ready
        /\ \A b \in Agents : b # a => UNCHANGED <<pc[b], arg[b], status[b]>>
        /\ UNCHANGED <<kind, arg, status, memory, errorStatus, outcome, issued>>
    BY <1>0, <1>10, <2>1 DEF Push, Goto, agent, op
  <2>3. /\ memory[o] = "live" /\ ~Undecided(o) /\ ~IsReady(o) /\ o \notin issued /\ ~Deciding(o)
        /\ \A b \in Agents : b # a /\ arg[b] = o => pc[b] \notin OwnerLabels
        /\ pc[Submitter(o)] \notin {"begin", "finish"}
        /\ a[1] \in {"submit", "wait"} => a[2] = o
        /\ status[Submitter(o)] # "discarded"
    BY <2>1, <2>2, OwnerFacts DEF OwnerLabels
  <2>31. \A p \in Ops : IsReady(p)' <=> p = o \/ IsReady(p)
    BY <1>0, <2>2, PushReady
  <2>4. /\ Outstanding(o)' = Outstanding(o) /\ Enqueuing(o)' = Enqueuing(o)
        /\ \A i \in 1 .. WaitsOf[o] : \/ UNCHANGED pc[Callback(o, i)]
                                      \/ pc[Callback(o, i)] = "push" /\ pc'[Callback(o, i)] = "wake"
    BY <1>10, <2>2, QuietKeepsWaits, AgentFacts
  <2>41. (Deciding(o)' <=> Deciding(o)) /\ (Clean(o)' <=> Clean(o))
    BY <2>2, <2>4 DEF Deciding, Clean
  <2>5. Clean(o) /\ outcome[o] = "none" /\ pc'[Submitter(o)] \notin {"begin", "finish"}
    BY <1>01, <1>10, <2>1, <2>2, <2>3, QuietKeepsWaits DEF OutcomeOf, Settles
  <2>51. \A b \in Agents : arg'[b] = o => Settles(b, o)'
    BY <2>2, <2>3 DEF Settles, OwnerLabels
  <2>6. OutcomeOf(o)'
    BY <1>01, <2>2, <2>3, <2>31, <2>41, <2>5, <2>51 DEF OutcomeOf
  <2>7. \A p \in Ops : p # o => OutcomeOf(p)'
    BY <2>1, <2>2, <2>3, <2>31, OutcomeOfOthers
  <2>. QED
    BY <1>01, <2>2, <2>6, <2>7 DEF OutcomeInv
<1>11. ASSUME Quiet, NEW a \in Agents, CompleteOp(a) PROVE OutcomeInv'
  <2>1. PICK o \in Ops : o = arg[a]
    BY <1>11, OwnerFacts DEF CompleteOp, OwnerLabels
  <2>2. /\ pc[a] = "complete" /\ arg'[a] = o /\ status'[a] \in {status[a], "failed"}
        /\ \A b \in Agents : b # a => UNCHANGED <<pc[b], arg[b], status[b]>>
        /\ UNCHANGED <<kind, memory, errorStatus, ready, issued>>
        /\ \A p \in Ops : p # o => UNCHANGED outcome[p]
        /\ \/ pc'[a] = "free" /\ outcome'[o] = "ok"
           \/ pc'[a] = "settle" /\ outcome'[o] = outcome[o]
    BY <1>0, <1>11, <2>1 DEF CompleteOp, With, Goto, agent
  <2>3. /\ memory[o] = "live" /\ ~Undecided(o) /\ ~IsReady(o) /\ o \notin issued /\ ~Deciding(o)
        /\ \A b \in Agents : b # a /\ arg[b] = o => pc[b] \notin OwnerLabels
        /\ pc[Submitter(o)] \notin {"begin", "finish"}
        /\ a[1] \in {"submit", "wait"} => a[2] = o
        /\ status[Submitter(o)] # "discarded"
    BY <2>1, <2>2, OwnerFacts DEF OwnerLabels
  <2>31. a[1] \notin {"submit", "wait"}
    BY <2>2, AgentFacts DEF ControlInv, RetireLabels, TailLabels, FinalLabels
  <2>32. Submitter(o) \in Agents /\ Submitter(o) # a
    BY <2>31, AgentFacts
  <2>4. (Deciding(o)' <=> Deciding(o)) /\ (Clean(o)' <=> Clean(o)) /\ (IsReady(o)' <=> IsReady(o))
    BY <1>11, <2>2, <2>31, OwnerStep, AgentFacts
  <2>5. Clean(o) /\ outcome[o] = "none"
    BY <1>01, <2>1, <2>2 DEF OutcomeOf, Settles
  <2>51. \A b \in Agents : arg'[b] = o => Settles(b, o)'
    BY <2>2, <2>3, <2>32, <2>5 DEF Settles, OwnerLabels
  <2>6. OutcomeOf(o)'
    BY <1>01, <2>2, <2>3, <2>32, <2>4, <2>5, <2>51 DEF OutcomeOf
  <2>7. \A p \in Ops : p # o => OutcomeOf(p)'
    BY <1>02, <2>1, <2>2, <2>3, OutcomeOfOthers
  <2>8. \A c \in Callbacks : status'[c] # "discarded"
    BY <1>01, <2>2, AgentFacts
  <2>. QED
    BY <2>6, <2>7, <2>8 DEF OutcomeInv
<1>12. ASSUME Quiet, NEW a \in Agents, Settle(a) PROVE OutcomeInv'
  <2>1. PICK o \in Ops : o = arg[a]
    BY <1>12, OwnerFacts DEF Settle, OwnerLabels
  <2>2. /\ pc[a] = "settle" /\ pc'[a] = "free"
        /\ \A b \in Agents : b # a => UNCHANGED <<pc[b], arg[b], status[b]>>
        /\ UNCHANGED <<kind, arg, status, memory, errorStatus, ready, issued>>
        /\ outcome' = [outcome EXCEPT ![o] = "failed"]
    BY <1>0, <1>12, <2>1 DEF Settle, Goto, agent
  <2>3. /\ memory[o] = "live" /\ ~Undecided(o) /\ ~IsReady(o) /\ o \notin issued /\ ~Deciding(o)
        /\ \A b \in Agents : b # a /\ arg[b] = o => pc[b] \notin OwnerLabels
        /\ pc[Submitter(o)] \notin {"begin", "finish"}
        /\ a[1] \in {"submit", "wait"} => a[2] = o
        /\ status[Submitter(o)] # "discarded"
    BY <2>1, <2>2, OwnerFacts DEF OwnerLabels
  <2>4. (Deciding(o)' <=> Deciding(o)) /\ (Clean(o)' <=> Clean(o)) /\ (IsReady(o)' <=> IsReady(o))
    BY <1>12, <2>2, OwnerStep, AgentFacts
  <2>5. pc'[Submitter(o)] \notin {"begin", "finish"}
    BY <1>12, <2>3, QuietKeepsWaits
  <2>51. \A b \in Agents : arg'[b] = o => Settles(b, o)'
    BY <1>0, <2>2, <2>3 DEF Settles, OwnerLabels
  <2>6. OutcomeOf(o)'
    BY <1>0, <1>01, <2>2, <2>3, <2>4, <2>5, <2>51 DEF OutcomeOf
  <2>7. \A p \in Ops : p # o => OutcomeOf(p)'
    BY <1>0, <1>02, <2>1, <2>2, <2>3, OutcomeOfOthers
  <2>. QED
    BY <1>01, <2>2, <2>6, <2>7 DEF OutcomeInv
<1>13. ASSUME Quiet, NEW a \in Agents, Free(a) PROVE OutcomeInv'
  <2>1. PICK o \in Ops : o = arg[a]
    BY <1>13, OwnerFacts DEF Free, OwnerLabels
  <2>2. /\ pc[a] = "free" /\ pc'[a] = "end"
        /\ \A b \in Agents : b # a => UNCHANGED <<pc[b], arg[b], status[b]>>
        /\ UNCHANGED <<kind, arg, status, outcome, errorStatus, ready, issued>>
        /\ memory' = [memory EXCEPT ![o] = "freed"]
    BY <1>0, <1>13, <2>1 DEF Free, Goto, agent
  <2>3. /\ memory[o] = "live" /\ ~Undecided(o) /\ ~IsReady(o) /\ o \notin issued /\ ~Deciding(o)
        /\ \A b \in Agents : b # a /\ arg[b] = o => pc[b] \notin OwnerLabels
        /\ pc[Submitter(o)] \notin {"begin", "finish"}
        /\ a[1] \in {"submit", "wait"} => a[2] = o
    BY <2>1, <2>2, OwnerFacts DEF OwnerLabels
  <2>4. (Deciding(o)' <=> Deciding(o)) /\ (Clean(o)' <=> Clean(o)) /\ (IsReady(o)' <=> IsReady(o))
    BY <1>13, <2>2, OwnerStep, AgentFacts
  <2>5. pc'[Submitter(o)] \notin {"begin", "finish"}
    BY <1>13, <2>3, QuietKeepsWaits
  <2>51. outcome[o] = "none" <=> status[Submitter(o)] = "discarded"
    BY <1>01, <2>1, <2>2 DEF OutcomeOf, Settles
  <2>52. \A b \in Agents : arg'[b] = o => Settles(b, o)'
    BY <2>2, <2>3 DEF Settles, OwnerLabels
  <2>6. OutcomeOf(o)'
    BY <1>0, <1>01, <2>2, <2>3, <2>4, <2>5, <2>51, <2>52 DEF OutcomeOf
  <2>7. \A p \in Ops : p # o => OutcomeOf(p)'
    <3>1. \A p \in Ops : p # o => UNCHANGED <<errorStatus[p], outcome[p], memory[p], kind[p]>>
      BY <1>0, <2>2
    <3>2. pc'[a] \notin OwnerLabels
      BY <2>2 DEF OwnerLabels
    <3>. QED
      BY <1>02, <2>1, <2>2, <2>3, <3>1, <3>2, OutcomeOfOthers
  <2>. QED
    BY <1>01, <2>2, <2>6, <2>7 DEF OutcomeInv
<1>14. ASSUME Quiet, NEW x \in {Control, Compute, Proactor}, NEW o \in Ops, IsReady(o) \/ o \in issued,
             \A b \in Agents : b # x => UNCHANGED <<pc[b], arg[b], status[b]>>,
             arg'[x] = o \/ pc'[x] \notin OwnerLabels, UNCHANGED <<kind, memory, errorStatus, outcome>>,
             pc'[x] \in OwnerLabels => pc'[x] # "free",
             pc'[x] = "announce" => kind[o] = "post", pc'[x] = "call" => kind[o] = "call",
             \A p \in Ops : p # o => (IsReady(p)' => IsReady(p)) /\ (p \in issued' => p \in issued)
      PROVE  OutcomeInv'
  <2>1. x \in Agents /\ x[1] \notin {"submit", "wait"} /\ Submitter(o) \in Agents /\ Submitter(o) # x
    BY AgentFacts
  <2>2. Clean(o) /\ outcome[o] = "none" /\ memory[o] = "live"
    BY <1>01, <1>14 DEF OutcomeOf, OwnerInv
  <2>3. \A b \in Agents : arg[b] = o => pc[b] \notin OwnerLabels
    BY <1>14 DEF OwnerInv
  <2>4. \A i \in 1 .. WaitsOf[o] : UNCHANGED <<pc[Callback(o, i)], status[Callback(o, i)]>>
    BY <1>14, <2>1, AgentFacts
  <2>5. /\ Outstanding(o)' = Outstanding(o) /\ Enqueuing(o)' = Enqueuing(o)
        /\ UNCHANGED <<pc[Submitter(o)], status[Submitter(o)]>>
    BY <1>14, <2>1, QuietKeepsWaits
  <2>6. (Deciding(o)' <=> Deciding(o)) /\ (Clean(o)' <=> Clean(o))
    BY <2>4, <2>5 DEF Deciding, Clean
  <2>7. \A b \in Agents : arg'[b] = o => Settles(b, o)'
    BY <1>14, <2>1, <2>2, <2>3, <2>6 DEF Settles, OwnerLabels
  <2>8. OutcomeOf(o)'
    BY <1>01, <1>14, <2>2, <2>4, <2>5, <2>6, <2>7 DEF OutcomeOf
  <2>9. \A p \in Ops : p # o => OutcomeOf(p)'
    BY <1>14, <2>1, OutcomeOfOthers
  <2>10. \A c \in Callbacks : status'[c] # "discarded"
    BY <1>01, <1>14, <2>1, AgentFacts
  <2>. QED
    BY <2>8, <2>9, <2>10 DEF OutcomeInv
<1>15. ASSUME Quiet, ControlPop PROVE OutcomeInv'
  <2>1. PICK o \in Ops : o = Head(ready)
    BY <1>0, <1>15 DEF ControlPop
  <2>2. IsReady(o) /\ \A p \in Ops : IsReady(p)' <=> p # o /\ IsReady(p)
    BY <1>0, <1>15, <2>1, PopReady DEF ControlPop, OwnerInv
  <2>3. UNCHANGED <<kind, memory, errorStatus, outcome>>
    BY <1>15 DEF ControlPop, op
  <2>4. ASSUME \/ With(Control, "complete", o, "ok") \/ With(Control, "settle", o, "failed")
               \/ kind[o] = "post" /\ With(Control, "announce", o, "ok")
               \/ kind[o] = "call" /\ With(Control, "call", o, "ok"),
               UNCHANGED issued
        PROVE  OutcomeInv'
    <3>1. /\ pc'[Control] \in {"complete", "settle", "announce", "call"} /\ arg'[Control] = o
          /\ pc'[Control] = "announce" => kind[o] = "post"
          /\ pc'[Control] = "call" => kind[o] = "call"
          /\ \A b \in Agents : b # Control => UNCHANGED <<pc[b], arg[b], status[b]>>
      BY <1>0, <2>4, AgentFacts DEF With, Goto
    <3>. QED
      BY <1>14, <1>15, <2>2, <2>3, <2>4, <3>1
  <2>5. ASSUME issued' = issued \cup {o}, UNCHANGED <<pc, agent>> PROVE OutcomeInv'
    <3>1. /\ pc[Control] \notin OwnerLabels /\ pc' = pc /\ arg' = arg /\ status' = status
          /\ pc[Control] = "pop"
      BY <1>15, <2>5 DEF ControlPop, OwnerLabels, agent
    <3>2. \A p \in Ops : p # o => (IsReady(p)' => IsReady(p)) /\ (p \in issued' => p \in issued)
      BY <2>2, <2>5
    <3>. QED
      BY <1>14, <1>15, <2>2, <2>3, <3>1, <3>2
  <2>. QED
    BY <1>15, <2>1, <2>4, <2>5 DEF ControlPop
<1>16. ASSUME Quiet, NEW o \in Ops, ComputeFinish(o) PROVE OutcomeInv'
  <2>1. /\ o \in issued /\ issued' = issued \ {o} /\ UNCHANGED <<kind, memory, errorStatus, outcome, ready>>
        /\ pc'[Compute] \in {"complete", "hold", "settle"} /\ arg'[Compute] = o
        /\ \A b \in Agents : b # Compute => UNCHANGED <<pc[b], arg[b], status[b]>>
    BY <1>0, <1>16, AgentFacts DEF ComputeFinish, With, Goto, op
  <2>. QED
    BY <1>02, <1>14, <1>16, <2>1
<1>17. ASSUME Quiet, NEW o \in Ops, ProactorFinish(o) PROVE OutcomeInv'
  <2>1. /\ o \in issued /\ issued' = issued \ {o} /\ UNCHANGED <<kind, memory, errorStatus, outcome, ready>>
        /\ pc'[Proactor] \in {"complete", "hold", "settle"} /\ arg'[Proactor] = o
        /\ \A b \in Agents : b # Proactor => UNCHANGED <<pc[b], arg[b], status[b]>>
    BY <1>0, <1>17, AgentFacts DEF ProactorFinish, With, Goto, op
  <2>. QED
    BY <1>02, <1>14, <1>17, <2>1
<1>18. ASSUME NEW a \in Agents, Wake(a) PROVE Still
  BY <1>0, <1>18, AgentFacts DEF Wake, Goto, op, life, agent, Still, WaitLabels, OwnerLabels
<1>19. ASSUME NEW a \in Agents, Woken(a) PROVE Still
  BY <1>0, <1>19, AgentFacts DEF Woken, Goto, op, life, agent, Still, WaitLabels, OwnerLabels
<1>20. ASSUME NEW a \in Agents, OperationEnd(a) PROVE Still
  BY <1>0, <1>20, AgentFacts
  DEF OperationEnd, Return, Goto, op, life, agent, Still, WaitLabels, OwnerLabels
<1>21. ASSUME NEW a \in Agents, StorePhase(a) PROVE Still
  BY <1>0, <1>21, AgentFacts DEF StorePhase, Goto, op, life, agent, Still, WaitLabels, OwnerLabels
<1>22. ASSUME NEW a \in Agents, ScheduleControl(a) PROVE Still
  BY <1>0, <1>22, AgentFacts
  DEF ScheduleControl, Goto, op, life, agent, Still, WaitLabels, OwnerLabels
<1>23. ASSUME NEW a \in Agents, ScheduleTail(a) PROVE Still
  BY <1>0, <1>23, AgentFacts
  DEF ScheduleTail, Goto, op, life, agent, Still, WaitLabels, OwnerLabels
<1>24. ASSUME NEW a \in Agents, Retire(a) PROVE Still
  BY <1>0, <1>24, AgentFacts
  DEF Retire, Return, Goto, op, life, agent, Still, WaitLabels, OwnerLabels
<1>25. ASSUME NEW a \in Agents, ShutdownLock(a) PROVE Still
  BY <1>0, <1>25, AgentFacts
  DEF ShutdownLock, Goto, op, life, agent, Still, WaitLabels, OwnerLabels
<1>26. ASSUME NEW a \in Agents, ShutdownPost(a) PROVE Still
  BY <1>0, <1>26, AgentFacts
  DEF ShutdownPost, Goto, op, life, agent, Still, WaitLabels, OwnerLabels
<1>27. ASSUME NEW a \in Agents, ShutdownUnlock(a) PROVE Still
  BY <1>0, <1>27, AgentFacts
  DEF ShutdownUnlock, Return, Goto, op, life, agent, Still, WaitLabels, OwnerLabels
<1>28. ASSUME ControlRun PROVE Still
  BY <1>0, <1>28, AgentFacts DEF ControlRun, Goto, op, life, agent, Still, WaitLabels, OwnerLabels
<1>29. ASSUME ControlEmpty PROVE Still
  BY <1>0, <1>29, AgentFacts
  DEF ControlEmpty, Goto, op, life, agent, Still, WaitLabels, OwnerLabels
<1>30. ASSUME ControlCheck PROVE Still
  BY <1>0, <1>30, AgentFacts
  DEF ControlCheck, Goto, op, life, agent, Still, WaitLabels, OwnerLabels
<1>31. ASSUME ControlStop PROVE Still
  BY <1>0, <1>31, AgentFacts
  DEF ControlStop, Goto, op, life, agent, Still, WaitLabels, OwnerLabels
<1>32. ASSUME ControlRouse PROVE Still
  BY <1>0, <1>32, AgentFacts
  DEF ControlRouse, Goto, op, life, agent, Still, WaitLabels, OwnerLabels
<1>33. ASSUME ControlStopped PROVE Still
  BY <1>0, <1>33, AgentFacts
  DEF ControlStopped, Goto, op, life, agent, Still, WaitLabels, OwnerLabels
<1>34. ASSUME ComputeStop PROVE Still
  BY <1>0, <1>34, AgentFacts
  DEF ComputeStop, Goto, op, life, agent, Still, WaitLabels, OwnerLabels
<1>35. ASSUME Close PROVE Still
  BY <1>0, <1>35, AgentFacts DEF Close, Goto, op, life, agent, Still, WaitLabels, OwnerLabels
<1>36. ASSUME Await PROVE Still
  BY <1>0, <1>36, AgentFacts DEF Await, Goto, op, life, agent, Still, WaitLabels, OwnerLabels
<1>37. ASSUME UNCHANGED vars PROVE Still
  BY <1>37 DEF vars, op, agent, Still
<1>38. ASSUME Quiet, SignalFirst \/ HostCall PROVE OutcomeInv'
  <2>. DEFINE a == Control
  <2>1. PICK o \in Ops : o = arg[a]
    BY <1>38, OwnerFacts, AgentFacts DEF SignalFirst, HostCall, OwnerLabels
  <2>2. /\ pc[a] \in {"announce", "call"} /\ arg'[a] = o /\ status'[a] \in {status[a], "failed"}
        /\ \A b \in Agents : b # a => UNCHANGED <<pc[b], arg[b], status[b]>>
        /\ UNCHANGED <<kind, memory, errorStatus, ready, issued>>
        /\ \A p \in Ops : p # o => UNCHANGED outcome[p]
    BY <1>0, <1>38, <2>1, AgentFacts DEF SignalFirst, HostCall, With, Goto, agent
  <2>21. \/ pc[a] = "announce" /\ pc'[a] = "call" /\ outcome'[o] = "ok"
         \/ pc[a] = "announce" /\ pc'[a] = "settle" /\ outcome'[o] = outcome[o]
         \/ pc[a] = "call" /\ pc'[a] = "free" /\ kind[o] = "post" /\ outcome'[o] = outcome[o]
         \/ pc[a] = "call" /\ pc'[a] = "free" /\ kind[o] = "call" /\ outcome'[o] = "deferred"
         \/ /\ pc[a] = "call" /\ pc'[a] \in {"complete", "settle"}
            /\ kind[o] = "call" /\ outcome'[o] = outcome[o]
    BY <1>0, <1>38, <2>1, AgentFacts DEF SignalFirst, HostCall, AfterDeferred, With, Goto, agent
  <2>3. /\ memory[o] = "live" /\ ~Undecided(o) /\ ~IsReady(o) /\ o \notin issued /\ ~Deciding(o)
        /\ \A b \in Agents : b # a /\ arg[b] = o => pc[b] \notin OwnerLabels
        /\ pc[Submitter(o)] \notin {"begin", "finish"}
        /\ status[Submitter(o)] # "discarded"
    BY <2>1, <2>2, OwnerFacts, AgentFacts DEF OwnerLabels
  <2>31. /\ a \in Agents /\ a[1] \notin {"submit", "wait"}
         /\ Submitter(o) \in Agents /\ Submitter(o) # a
    BY AgentFacts
  <2>4. (Deciding(o)' <=> Deciding(o)) /\ (Clean(o)' <=> Clean(o)) /\ (IsReady(o)' <=> IsReady(o))
    BY <1>38, <2>2, <2>31, OwnerStep, AgentFacts
  <2>. HIDE DEF a
  <2>5. Settles(a, o)
    BY <1>01, <2>1, <2>31 DEF OutcomeOf
  <2>51. Clean(o) /\ (pc[a] = "announce" => outcome[o] = "none" /\ kind[o] = "post")
                 /\ (pc[a] = "call" => (outcome[o] = "none" <=> kind[o] = "call"))
    BY <2>2, <2>5 DEF Settles
  <2>52. Settles(a, o)'
    BY <2>2, <2>21, <2>3, <2>31, <2>4, <2>51 DEF Settles
  <2>53. \A b \in Agents : arg'[b] = o => Settles(b, o)'
    BY <2>2, <2>3, <2>52 DEF Settles, OwnerLabels
  <2>6. OutcomeOf(o)'
    BY <1>01, <2>2, <2>21, <2>3, <2>31, <2>4, <2>51, <2>53 DEF OutcomeOf
  <2>7. \A p \in Ops : p # o => OutcomeOf(p)'
    BY <1>02, <2>1, <2>2, <2>31, OutcomeOfOthers
  <2>8. \A c \in Callbacks : status'[c] # "discarded"
    BY <1>01, <2>2, <2>31, AgentFacts
  <2>. QED
    BY <2>6, <2>7, <2>8 DEF OutcomeInv
<1>. QED
  <2>1. CASE WaitStep
    BY <2>1, <1>1, <1>2, <1>3, <1>4, <1>5, <1>6, <1>7 DEF WaitStep, Submit
  <2>2. CASE ~WaitStep
    <3>1. Quiet
      BY <2>2, OthersAreQuiet
    <3>2. Still => OutcomeInv'
      BY <3>1, StillKeepsOutcomes
    <3>. QED
      BY <2>2, <3>1, <3>2, <1>8, <1>9, <1>10, <1>11, <1>12, <1>13, <1>15, <1>16, <1>17,
         <1>18, <1>19, <1>20, <1>21, <1>22, <1>23, <1>24, <1>25, <1>26, <1>27, <1>28, <1>29, <1>30, <1>31, <1>32, <1>33, <1>34, <1>35, <1>36, <1>37, <1>38
         DEF Next, Callbacked, ControlStep, ComputeStep, ProactorStep, Shared, WaitStep
  <2>. QED
    BY <2>1, <2>2

----------------------------------------------------------------------------
(* The theorems.                                                           *)

LEMMA InitInv == Init => Inv
<1>. SUFFICES ASSUME Init PROVE Inv
  OBVIOUS
<1>1. /\ \A o \in Ops : pc[Submitter(o)] = "begin" /\ arg[Submitter(o)] = o
      /\ \A a \in Callbacks : pc[a] = "unregistered" /\ arg[a] = a[2]
      /\ pc[Control] = "idle" /\ pc[Compute] = "idle" /\ pc[Proactor] = "idle"
      /\ pc[Destroyer] = "close"
  BY AgentFacts DEF Init
<1>2. \A a \in Agents : a # Destroyer => pc[a] \in {"begin", "unregistered", "idle"}
  BY <1>1, AgentFacts
<1>3. \A o \in Ops : \A i \in 1 .. WaitsOf[o] : pc[Callback(o, i)] = "unregistered"
  BY <1>1, AgentFacts
<1>4. \A o \in Ops : ~Enqueuing(o) /\ Outstanding(o) = {} /\ ~Undecided(o) /\ ~Deciding(o) /\ Clean(o)
  BY <1>1, <1>3 DEF Enqueuing, Outstanding, Undecided, Deciding, Clean
<1>5. \A o \in Ops : ~IsReady(o)
  BY DEF IsReady, Init
<1>6. \A a \in Agents : pc[a] \notin OwnerLabels \cup RetireLabels
  BY <1>1, <1>2 DEF OwnerLabels, RetireLabels, TailLabels, FinalLabels
<1>7. TypeOK
  <2>1. \A a \in Agents : a[2] \in Ops \cup {NoOp}
    BY AgentFacts DEF Control, Compute, Proactor, Destroyer
  <2>2. pc \in [Agents -> Labels]
    <3>1. \A a \in Agents : pc[a] \in Labels
      BY <1>1, <1>2 DEF Labels
    <3>2. DOMAIN pc = Agents /\ pc = [a \in Agents |-> pc[a]]
      BY DEF Init
    <3>. QED
      BY <3>1, <3>2
  <2>3. count \in Nat /\ retiring \in 0 .. 3 /\ ready \in Seq(Ops)
    BY DEF Init, Participants
  <2>. QED
    BY <2>1, <2>2, <2>3 DEF Init, TypeOK
<1>8. ControlInv
  BY <1>1, <1>6, AgentFacts DEF ControlInv
<1>9. ReleaseInv
  BY <1>1 DEF ReleaseInv, Init
<1>10. CountInv
  <2>1. Live = {}
    BY DEF Live, Init
  <2>2. References = {Destroyer}
    BY <1>1, <1>2, AgentFacts DEF References
  <2>3. count = 1 /\ Cardinality(Live) = 0 /\ Cardinality(References) = 1
    BY <2>1, <2>2, FS_EmptySet, FS_Singleton DEF Init
  <2>. QED
    BY <2>3 DEF CountInv
<1>11. WaitInv
  BY <1>1, <1>3, <1>4 DEF WaitInv, WaitInvOf
<1>12. OwnerInv
  <2>1. \A o \in Ops : memory[o] = "none" /\ o \notin issued
    BY DEF Init
  <2>2. Len(ready) = 0
    BY DEF Init
  <2>. QED
    BY <1>1, <1>4, <1>5, <1>6, <2>1, <2>2 DEF OwnerInv
<1>13. \A a \in Agents : ~Tailing(a)
  BY <1>6 DEF Tailing, RetireLabels
<1>14. PhaseInv
  BY <1>1, <1>13 DEF PhaseInv, Init
<1>15. RetireInv
  <2>1. TailPending /\ ControlPending /\ ComputePending /\ retiring = 3
    BY DEF TailPending, ControlPending, ComputePending, Init, Participants
  <2>. QED
    BY <2>1 DEF RetireInv, One
<1>16. FinalInv
  BY <1>6 DEF FinalInv, Init, RetireLabels, FinalLabels
<1>17. OutcomeInv
  <2>1. /\ \A a \in Agents : status[a] = "ok"
        /\ \A o \in Ops : memory[o] = "none" /\ outcome[o] = "none" /\ o \notin issued
    BY DEF Init
  <2>2. \A o \in Ops : \A a \in Agents : Settles(a, o)
    BY <1>6 DEF Settles, OwnerLabels
  <2>. QED
    BY <1>4, <1>5, <1>6, <2>1, <2>2, AgentFacts DEF OutcomeInv, OutcomeOf
<1>. QED
  BY <1>7, <1>8, <1>9, <1>10, <1>11, <1>12, <1>14, <1>15, <1>16, <1>17 DEF Inv

\* The inductive invariant: every step of every agent keeps it.
THEOREM Invariance == Spec => []Inv
<1>1. Inv /\ [Next]_vars => Inv'
  <2>. SUFFICES ASSUME Inv, [Next]_vars PROVE Inv'
    OBVIOUS
  <2>0. /\ TypeOK /\ ControlInv /\ ReleaseInv /\ CountInv /\ WaitInv /\ OwnerInv
        /\ PhaseInv /\ RetireInv /\ FinalInv /\ OutcomeInv
    BY DEF Inv
  <2>1. \A o \in Ops : pc[Submitter(o)] = "end" => count > 1
    <3>. SUFFICES ASSUME NEW o \in Ops, pc[Submitter(o)] = "end" PROVE count > 1
      OBVIOUS
    <3>1. pc[Destroyer] = "close"
      BY <2>0 DEF ControlInv
    <3>2. Submitter(o) \in References /\ Destroyer \in References /\ Submitter(o) # Destroyer
      BY <3>1, AgentFacts DEF References
    <3>. QED
      BY <2>0, <3>2, CountFacts
  <2>2. ControlInv' /\ ReleaseInv'
    BY <2>0, <2>1, ControlAfterStep
  <2>3. CountInv' /\ count' \in Nat
    BY <2>0, CountAfterStep
  <2>4. WaitInv'
    BY <2>0, WaitAfterStep
  <2>5. OwnerInv'
    BY <2>0, OwnersAfterStep
  <2>6. PhaseInv' /\ RetireInv' /\ FinalInv'
    BY <2>0, <2>1, <2>2, <2>3, ShutdownAfterStep
  <2>7. retiring' \in 0 .. 3
    BY <2>6 DEF RetireInv, One
  <2>8. TypeOK'
    BY <2>0, <2>3, <2>7, TypeAfterStep
  <2>9. OutcomeInv'
    BY <2>0, OutcomeAfterStep
  <2>. QED
    BY <2>2, <2>3, <2>4, <2>5, <2>6, <2>8, <2>9 DEF Inv
<1>. QED
  BY <1>1, InitInv, PTL DEF Spec

\* Operations change hands safely, whatever the number of operations and waits
\* and however their callbacks, the control process, the compute process and
\* the proactor interleave: an operation has one owner at a time, and nobody
\* touches it after its arena is freed.
THEOREM OneOwnerAtATime == Spec => []OperationsAreOwned
<1>1. Inv => OperationsAreOwned
  <2>. SUFFICES ASSUME Inv PROVE OperationsAreOwned
    OBVIOUS
  <2>0. TypeOK /\ ControlInv /\ OwnerInv
    BY DEF Inv
  <2>1. \A o \in Ops : Undecided(o) => memory[o] = "live"
    BY <2>0 DEF OwnerInv
  <2>2. ASSUME NEW a \in Agents, pc[a] \in OpLabels PROVE memory[arg[a]] = "live"
    <3>1. CASE pc[a] \in OwnerLabels
      BY <2>0, <3>1 DEF OwnerInv
    <3>2. CASE a[2] \in Ops /\ a = Submitter(a[2]) /\ pc[a] \notin OwnerLabels
      <4>1. pc[a] \in {"finish", "register", "subtract"} /\ arg[a] = a[2]
        BY <2>0, <2>2, <3>2 DEF ControlInv, OpLabels, OwnerLabels
      <4>. QED
        BY <2>1, <3>2, <4>1 DEF Undecided, Enqueuing
    <3>3. CASE a \in Callbacks /\ pc[a] \notin OwnerLabels
      <4>1. pc[a] \in {"record", "decrement"} /\ arg[a] = a[2]
        BY <2>0, <2>2, <3>3 DEF ControlInv, OpLabels, OwnerLabels, RetireLabels, TailLabels,
                                FinalLabels
      <4>2. a[2] \in Ops /\ a[3] \in Outstanding(a[2])
        BY <3>3, <4>1, AgentFacts DEF Outstanding
      <4>. QED
        BY <2>1, <4>1, <4>2 DEF Undecided
    <3>4. CASE a \in {Control, Compute, Proactor, Destroyer} /\ pc[a] \notin OwnerLabels
      BY <2>0, <2>2, <3>4 DEF ControlInv, OpLabels, OwnerLabels, RetireLabels, TailLabels,
                              FinalLabels
    <3>. QED
      BY <3>1, <3>2, <3>3, <3>4, AgentFacts
  <2>3. OpOutlivesUse
    BY <2>0, <2>2 DEF OpOutlivesUse, OwnerInv, IsReady
  <2>4. ASSUME NEW o \in Ops PROVE Cardinality(Owners(o)) <= 1
    <3>1. ASSUME NEW x \in Owners(o), NEW y \in Owners(o) PROVE x = y
      <4>. DEFINE Holders == {a \in Agents : arg[a] = o /\ pc[a] \in OwnerLabels}
                  Places == {k \in 1 .. Len(ready) : ready[k] = o}
      <4>1. \A z \in Owners(o) : z \in Holders \/ z \in Places \/ (z = "issued" /\ o \in issued)
        BY DEF Owners, OwnerLabels
      <4>2. /\ \A z \in Holders : ~IsReady(o) /\ o \notin issued
            /\ \A z, w \in Holders : z = w
            /\ \A z, w \in Places : z = w
            /\ \A z \in Places : IsReady(o) /\ o \notin issued
        BY <2>0 DEF OwnerInv, IsReady
      <4>3. Places # {} => IsReady(o)
        BY DEF IsReady
      <4>. HIDE DEF Holders, Places
      <4>. QED
        BY <4>1, <4>2, <4>3
    <3>2. CASE Owners(o) = {}
      BY <3>2, FS_EmptySet
    <3>3. CASE Owners(o) # {}
      <4>1. PICK x : x \in Owners(o)
        BY <3>3
      <4>2. Owners(o) = {x}
        BY <3>1, <4>1
      <4>. QED
        BY <4>2, FS_Singleton
    <3>. QED
      BY <3>2, <3>3
  <2>. QED
    BY <2>0, <2>3, <2>4 DEF OperationsAreOwned, OneOwner
<1>. QED
  BY <1>1, Invariance, PTL

\* The shutdown starts only when no operation is left and nobody is on the way
\* to the queue, and the queue outlives every tail of the shutdown, whichever
\* of the release callbacks, the scheduling tail and the destroyer is last.
THEOREM OrderlyShutdown == Spec => []ShutdownIsOrderly
<1>1. Inv => ShutdownIsOrderly
  <2>. SUFFICES ASSUME Inv PROVE ShutdownIsOrderly
    OBVIOUS
  <2>0. /\ TypeOK /\ ControlInv /\ ReleaseInv /\ CountInv /\ OwnerInv /\ PhaseInv /\ RetireInv
        /\ FinalInv
    BY DEF Inv
  <2>1. ASSUME count = 0
        PROVE  /\ \A o \in Ops : memory[o] # "live"
               /\ ready = <<>> /\ issued = {}
               /\ \A a \in Agents : pc[a] \notin {"hold", "push", "wake", "woken", "end", "close"}
    <3>1. Live = {} /\ References = {}
      BY <2>0, <2>1, CountFacts
    <3>2. \A o \in Ops : memory[o] # "live"
      BY <3>1 DEF Live
    <3>3. issued = {}
      BY <2>0, <3>2 DEF OwnerInv, TypeOK
    <3>4. ready = <<>>
      <4>1. \A o \in Ops : ~IsReady(o)
        BY <2>0, <3>2 DEF OwnerInv
      <4>2. ready \in Seq(Ops)
        BY <2>0 DEF TypeOK
      <4>3. ASSUME Len(ready) # 0 PROVE FALSE
        <5>1. 1 \in 1 .. Len(ready) /\ ready[1] \in Ops
          BY <4>2, <4>3
        <5>. QED
          BY <4>1, <5>1 DEF IsReady
      <4>. QED
        BY <4>2, <4>3
    <3>5. ASSUME NEW a \in Agents, pc[a] \in {"hold", "push", "wake", "woken", "end", "close"}
          PROVE  FALSE
      <4>1. a[1] = "submit" /\ pc[a] \in {"wake", "woken"}
        <5>1. pc[a] \in OwnerLabels => arg[a] \in Live
          BY <2>0 DEF ControlInv, OwnerInv, Live
        <5>. QED
          BY <3>1, <3>5, <5>1 DEF References, OwnerLabels
      <4>2. a[2] \in Ops /\ a = Submitter(a[2])
        BY <4>1, AgentFacts
      <4>3. pc[Destroyer] = "close"
        BY <2>0, <4>1, <4>2 DEF ControlInv
      <4>. QED
        BY <3>1, <4>3, AgentFacts DEF References
    <3>. QED
      BY <3>2, <3>3, <3>4, <3>5
  <2>2. ShutdownIsLast
    BY <2>0, <2>1 DEF ShutdownIsLast, PhaseInv
  <2>3. ASSUME queue = "freed", NEW a \in Agents PROVE pc[a] \notin QueueLabels
    <3>1. retiring = 0 /\ shutdown.completed /\ ~shutdown.lock
      BY <2>0, <2>3 DEF FinalInv
    <3>2. ~TailPending /\ ~ControlPending /\ ~ComputePending
      BY <2>0, <3>1 DEF RetireInv, One
    <3>3. count = 0 /\ Control \in released /\ Compute \in released
      BY <2>0, <3>2 DEF TailPending, ControlPending, ComputePending, TypeOK
    <3>4. pc[a] \notin TailLabels \cup FinalLabels
      BY <2>0, <3>1, <3>2 DEF FinalInv, FinalLabels, TailPending, Tailing
    <3>5. pc[a] # "retire"
      BY <2>0, <3>2 DEF TailPending, Tailing, ControlPending, ComputePending, TypeOK
    <3>6. pc[a] \notin {"pop", "check", "stop", "rouse", "stopped"}
      BY <2>0, <3>2, <3>3, AgentFacts
         DEF ControlInv, ReleaseInv, ControlPending, RetireLabels, TailLabels, FinalLabels
    <3>. QED
      BY <2>1, <3>3, <3>4, <3>5, <3>6 DEF QueueLabels, TailLabels, FinalLabels
  <2>. QED
    BY <2>2, <2>3 DEF ShutdownIsOrderly, QueueOutlivesUse
<1>. QED
  BY <1>1, Invariance, PTL

\* Success is signalled, and a host call takes the semaphores over, only for
\* operations whose waits all succeeded; an operation that is gone has settled
\* its semaphores or left them to its deferred host call, unless it was
\* discarded; and nobody settles them twice, or after the host call took them,
\* however the waits, a failed registration, the call and its completion
\* interleave.
THEOREM TrueOutcome == Spec => []OutcomeIsTrue
<1>1. Inv => OutcomeIsTrue
  BY DEF Inv, OutcomeInv, OutcomeOf, Settles, OutcomeIsTrue, Clean
<1>. QED
  BY <1>1, Invariance, PTL
=============================================================================
